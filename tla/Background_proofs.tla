------------------------- MODULE Background_proofs -------------------------
(***************************************************************************)
(* Proofs about the services of the background: Digest, FollowUp and       *)
(* Webhook share nothing, and have a part each. The last part is about     *)
(* MCBackground, whose behaviours are each a behaviour of every service.   *)
(***************************************************************************)
EXTENDS MCBackground, FiniteSetTheorems, TLAPS

(***************************************************************************)
(* Proofs about Digest, for any engines, recipients, weeks and faults.     *)
(*                                                                         *)
(* How many mails a user has had depends on the dispatches that may still  *)
(* come. MailInv counts the engines that may send to the user once more    *)
(* this week: one in the middle of a dispatch that has not come to the     *)
(* user, and one whose file does not say that this week is done. Each lost *)
(* record lets at most one engine back in.                                 *)
(***************************************************************************)

Free(u) == {e \in Engines : IF digest[e] = "sending" THEN u \in todo[e] ELSE stateFile[e] # week}

(* The file is never ahead of the memory of an engine that waits, and       *)
(* neither is ahead of the calendar.                                        *)
RecordInv ==
  /\ DigestTypeOK
  /\ \A e \in Engines :
       /\ lastSent[e] <= week /\ stateFile[e] <= week
       /\ digest[e] = "waiting" /\ stateFile[e] = week => lastSent[e] = week

(* Whom a dispatch has come past.                                           *)
Reached(u) == mails[u] >= 1 \/ u \in missed

ReachInv ==
  \A e \in Engines, u \in Recipients :
    \/ week = 0
    \/ Reached(u)
    \/ /\ digest[e] = "sending" => u \in todo[e]
       /\ lastSent[e] # week /\ stateFile[e] # week

MailInv == \A u \in Recipients : mails[u] + Cardinality(Free(u)) <= Cardinality(Engines) + lost

DigestInv == RecordInv /\ ReachInv /\ MailInv

-----------------------------------------------------------------------------
LEMMA EngineCounts ==
  ASSUME NEW S \in SUBSET Engines
  PROVE  /\ IsFiniteSet(S) /\ Cardinality(S) \in Nat /\ Cardinality(S) <= Cardinality(Engines)
         /\ \A e \in S : Cardinality(S \ {e}) = Cardinality(S) - 1
         /\ \A e \in Engines \ S : Cardinality(S \cup {e}) = Cardinality(S) + 1
         /\ \A T \in SUBSET S : Cardinality(T) <= Cardinality(S)
<1>1. IsFiniteSet(S)
  BY DigestAssumption, FS_Subset
<1>2. Cardinality(S) <= Cardinality(Engines) /\ \A T \in SUBSET S : Cardinality(T) <= Cardinality(S)
  BY <1>1, DigestAssumption, FS_Subset
<1> QED BY <1>1, <1>2, FS_CardinalityType, FS_AddElement, FS_RemoveElement

LEMMA FreeCounts ==
  ASSUME RecordInv, NEW u \in Recipients
  PROVE  /\ mails[u] \in Nat /\ lost \in Nat /\ Cardinality(Engines) \in Nat
         /\ Free(u) \in SUBSET Engines
         /\ Cardinality(Free(u)) \in Nat /\ Cardinality(Free(u)) <= Cardinality(Engines)
<1>1. Free(u) \in SUBSET Engines
  BY DEF Free
<1> QED BY <1>1, EngineCounts DEF RecordInv, DigestTypeOK

(* A step that sends nothing and lets no engine back in.                    *)
LEMMA NoneFreed ==
  ASSUME DigestInv, UNCHANGED mails, lost' \in Nat, lost' >= lost,
         \A u \in Recipients : Free(u)' \subseteq Free(u)
  PROVE  MailInv'
<1> SUFFICES ASSUME NEW u \in Recipients
             PROVE  mails[u] + Cardinality(Free(u)') <= Cardinality(Engines) + lost'
  BY DEF MailInv
<1>1. /\ Free(u) \in SUBSET Engines /\ Free(u)' \in SUBSET Free(u) /\ Free(u)' \in SUBSET Engines
  BY DEF Free
<1>2. Cardinality(Free(u)') <= Cardinality(Free(u)) /\ Cardinality(Free(u)') \in Nat
  BY <1>1, EngineCounts
<1>3. mails[u] + Cardinality(Free(u)) <= Cardinality(Engines) + lost
  BY DEF DigestInv, MailInv
<1> QED BY <1>2, <1>3, FreeCounts DEF DigestInv

(* A step that sends nothing, loses a record and lets one engine back in.   *)
LEMMA OneFreed ==
  ASSUME DigestInv, NEW e \in Engines, UNCHANGED mails, lost' = lost + 1,
         \A u \in Recipients : Free(u)' \subseteq Free(u) \cup {e}
  PROVE  MailInv'
<1> SUFFICES ASSUME NEW u \in Recipients
             PROVE  mails[u] + Cardinality(Free(u)') <= Cardinality(Engines) + (lost + 1)
  BY DEF MailInv
<1> DEFINE S == Free(u) \cup {e}
<1>1. Free(u) \in SUBSET Engines /\ S \in SUBSET Engines
      /\ Free(u)' \in SUBSET S /\ Free(u)' \in SUBSET Engines
  BY DEF Free
<1>2. Cardinality(S) <= Cardinality(Free(u)) + 1
  <2>1. CASE e \in Free(u)
    <3>1. S = Free(u)
      BY <2>1
    <3> QED BY <3>1, FreeCounts DEF DigestInv
  <2>2. CASE e \notin Free(u)
    BY <1>1, <2>2, EngineCounts, FreeCounts DEF DigestInv
  <2> QED BY <2>1, <2>2
<1> HIDE DEF S
<1>3. Cardinality(Free(u)') <= Cardinality(S) /\ Cardinality(S) \in Nat /\ Cardinality(Free(u)') \in Nat
  BY <1>1, EngineCounts
<1>4. mails[u] + Cardinality(Free(u)) <= Cardinality(Engines) + lost
  BY DEF DigestInv, MailInv
<1> QED BY <1>2, <1>3, <1>4, FreeCounts DEF DigestInv

-----------------------------------------------------------------------------
LEMMA WindowOpensKeeps == ASSUME DigestInv, WindowOpens PROVE DigestInv'
<1> USE DEF DigestInv, RecordInv, DigestTypeOK, WindowOpens
<1>1. RecordInv'
  BY DigestAssumption
<1>2. ReachInv'
  BY <1>1 DEF ReachInv, Reached, Sending
<1>3. MailInv'
  <2> SUFFICES ASSUME NEW u \in Recipients
               PROVE  mails'[u] + Cardinality(Free(u)') <= Cardinality(Engines) + lost'
    BY DEF MailInv
  <2>1. Free(u)' \in SUBSET Engines
    BY DEF Free
  <2>2. mails'[u] = 0 /\ lost' = 0
    OBVIOUS
  <2> QED BY <2>1, <2>2, EngineCounts
<1> QED BY <1>1, <1>2, <1>3

LEMMA WindowClosesKeeps == ASSUME DigestInv, WindowCloses PROVE DigestInv'
<1> USE DEF WindowCloses
<1>1. RecordInv' /\ ReachInv'
  BY DEF DigestInv, RecordInv, DigestTypeOK, ReachInv, Reached
<1>2. \A u \in Recipients : Free(u)' = Free(u)
  BY DEF Free
<1> QED BY <1>1, <1>2, NoneFreed DEF DigestInv, RecordInv, DigestTypeOK

(* Who dispatches was free: its memory, and so its file, has not this week. *)
LEMMA MaybeDispatchKeeps ==
  ASSUME DigestInv, NEW e \in Engines, MaybeDispatch(e) PROVE DigestInv'
<1>1. RecordInv' /\ ReachInv'
  BY DEF DigestInv, RecordInv, DigestTypeOK, ReachInv, Reached, MaybeDispatch, SentInWindow
<1>2. \A u \in Recipients : Free(u)' \subseteq Free(u)
  BY DEF Free, DigestInv, RecordInv, DigestTypeOK, MaybeDispatch, SentInWindow
<1> QED BY <1>1, <1>2, NoneFreed DEF DigestInv, RecordInv, DigestTypeOK, MaybeDispatch

LEMMA SendDigestKeeps ==
  ASSUME DigestInv, NEW e \in Engines, NEW u \in Recipients, NEW ok \in BOOLEAN, SendDigest(e, u, ok)
  PROVE  DigestInv'
<1>1. /\ digest[e] = "sending" /\ u \in todo[e] /\ UNCHANGED <<week, digest, lastSent, stateFile, lost>>
      /\ todo'[e] = todo[e] \ {u} /\ \A f \in Engines \ {e} : todo'[f] = todo[f]
  BY DEF DigestInv, RecordInv, DigestTypeOK, SendDigest, RestAfter
<1>2. /\ mails' \in [Recipients -> Nat] /\ missed' \subseteq Recipients
      /\ mails'[u] \in {mails[u], mails[u] + 1} /\ \A v \in Recipients \ {u} : mails'[v] = mails[v]
      /\ Reached(u)' /\ \A v \in Recipients \ {u} : Reached(v) => Reached(v)'
  BY DEF DigestInv, RecordInv, DigestTypeOK, SendDigest, Reached
<1>3. RecordInv'
  BY <1>2 DEF DigestInv, RecordInv, DigestTypeOK, SendDigest, RestAfter
<1>4. ReachInv'
  BY <1>1, <1>2 DEF DigestInv, ReachInv
<1>5. /\ e \in Free(u) /\ Free(u)' = Free(u) \ {e}
      /\ \A v \in Recipients \ {u} : Free(v)' = Free(v)
  BY <1>1 DEF Free
<1>6. mails'[u] + Cardinality(Free(u)') <= Cardinality(Engines) + lost
  <2>1. Cardinality(Free(u)') = Cardinality(Free(u)) - 1
    BY <1>5, EngineCounts, FreeCounts DEF DigestInv
  <2>2. mails'[u] <= mails[u] + 1 /\ mails'[u] \in Nat
    BY <1>2, FreeCounts DEF DigestInv
  <2>3. mails[u] + Cardinality(Free(u)) <= Cardinality(Engines) + lost
    BY DEF DigestInv, MailInv
  <2> QED BY <2>1, <2>2, <2>3, FreeCounts DEF DigestInv
<1>7. MailInv'
  <2> SUFFICES ASSUME NEW v \in Recipients
               PROVE  mails'[v] + Cardinality(Free(v)') <= Cardinality(Engines) + lost
    BY <1>1 DEF MailInv
  <2>1. CASE v = u
    BY <1>6, <2>1
  <2>2. CASE v # u
    <3>1. mails'[v] = mails[v] /\ Free(v)' = Free(v)
      BY <1>2, <1>5, <2>2
    <3> QED BY <3>1 DEF DigestInv, MailInv
  <2> QED BY <2>1, <2>2
<1> QED BY <1>3, <1>4, <1>7 DEF DigestInv

LEMMA StopSendingKeeps ==
  ASSUME DigestInv, NEW e \in Engines, StopSending(e) PROVE DigestInv'
<1>1. RecordInv' /\ ReachInv'
  BY DEF DigestInv, RecordInv, DigestTypeOK, ReachInv, Reached, StopSending
<1>2. \A u \in Recipients : Free(u)' \subseteq Free(u)
  BY DEF Free, DigestInv, RecordInv, DigestTypeOK, StopSending
<1> QED BY <1>1, <1>2, NoneFreed DEF DigestInv, RecordInv, DigestTypeOK, StopSending

(* Without the file, a restart may dispatch once more: a lost record.       *)
LEMMA RecordSentKeeps ==
  ASSUME DigestInv, NEW e \in Engines, NEW written \in BOOLEAN, RecordSent(e, written)
  PROVE  DigestInv'
<1> USE DEF DigestInv, RecordInv, DigestTypeOK
<1>1. RecordInv' /\ ReachInv'
  BY DigestAssumption DEF ReachInv, Reached, RecordSent
<1>2. CASE written /\ UNCHANGED lost /\ stateFile' = [stateFile EXCEPT ![e] = week]
  <2>1. \A u \in Recipients : Free(u)' \subseteq Free(u)
    BY <1>2 DEF Free, RecordSent
  <2> QED BY <1>1, <1>2, <2>1, NoneFreed DEF RecordSent
<1>3. CASE lost' = lost + 1 /\ UNCHANGED stateFile
  <2>1. \A u \in Recipients : Free(u)' \subseteq Free(u) \cup {e}
    BY <1>3 DEF Free, RecordSent
  <2> QED BY <1>1, <1>3, <2>1, OneFreed DEF RecordSent
<1> QED BY <1>2, <1>3 DEF RecordSent

LEMMA StopEngineKeeps ==
  ASSUME DigestInv, NEW e \in Engines, StopEngine(e) PROVE DigestInv'
<1> USE DEF DigestInv, RecordInv, DigestTypeOK
<1>1. RecordInv' /\ ReachInv'
  BY DigestAssumption DEF ReachInv, Reached, StopEngine
<1>2. CASE digest[e] = "sending"
  <2>1. \A u \in Recipients : Free(u)' \subseteq Free(u) \cup {e}
    BY <1>2 DEF Free, StopEngine
  <2> QED BY <1>1, <1>2, <2>1, OneFreed DEF StopEngine
<1>3. CASE digest[e] # "sending"
  <2>1. \A u \in Recipients : Free(u)' \subseteq Free(u)
    BY <1>3 DEF Free, StopEngine
  <2>2. UNCHANGED <<mails, lost>> /\ lost \in Nat
    BY <1>3 DEF StopEngine
  <2> QED BY <1>1, <2>1, <2>2, NoneFreed
<1> QED BY <1>2, <1>3

LEMMA StartEngineKeeps ==
  ASSUME DigestInv, NEW e \in Engines, NEW keeps \in BOOLEAN, StartEngine(e, keeps)
  PROVE  DigestInv'
<1> USE DEF DigestInv, RecordInv, DigestTypeOK
<1>1. RecordInv' /\ ReachInv'
  <2>1. lastSent'[e] \in 0..MaxWeek /\ stateFile'[e] = lastSent'[e] /\ lastSent'[e] \in {0, stateFile[e]}
    BY DigestAssumption DEF StartEngine, LoadLastSent
  <2>2. RecordInv'
    BY <2>1, DigestAssumption DEF StartEngine, LoadLastSent
  <2>3. ReachInv'
    BY <2>1 DEF ReachInv, Reached, StartEngine
  <2> QED BY <2>2, <2>3
<1>2. CASE keeps
  <2>1. \A u \in Recipients : Free(u)' \subseteq Free(u)
    BY <1>2 DEF Free, StartEngine, LoadLastSent
  <2>2. UNCHANGED <<mails, lost>> /\ lost \in Nat
    BY <1>2 DEF StartEngine
  <2> QED BY <1>1, <2>1, <2>2, NoneFreed
<1>3. CASE ~keeps
  <2>1. \A u \in Recipients : Free(u)' \subseteq Free(u) \cup {e}
    BY <1>3 DEF Free, StartEngine, LoadLastSent
  <2> QED BY <1>1, <1>3, <2>1, OneFreed DEF StartEngine
<1> QED BY <1>2, <1>3

LEMMA DigestInvInit == DigestInit => DigestInv
<1> SUFFICES ASSUME DigestInit PROVE DigestInv
  OBVIOUS
<1>1. RecordInv
  <2>1. 0 \in 0..MaxWeek /\ 0 \in 0..MaxLost
    BY DigestAssumption
  <2>2. DigestTypeOK
    BY <2>1 DEF DigestInit, DigestTypeOK
  <2>3. \A e \in Engines : lastSent[e] = 0 /\ stateFile[e] = 0
    BY DEF DigestInit
  <2> QED BY <2>2, <2>3 DEF DigestInit, RecordInv
<1>2. MailInv
  BY <1>1, FreeCounts DEF DigestInit, MailInv
<1>3. ReachInv
  BY DEF DigestInit, ReachInv
<1> QED BY <1>1, <1>2, <1>3 DEF DigestInv

(* DigestInv holds in every state.                                          *)
THEOREM DigestInvariance == DigestSpec => []DigestInv
<1>1. ASSUME DigestInv, [DigestNext]_digestVars PROVE DigestInv'
  <2>1. CASE UNCHANGED digestVars
    BY <1>1, <2>1, NoneFreed
    DEF digestVars, DigestInv, RecordInv, DigestTypeOK, ReachInv, Reached, MailInv, Free
  <2>2. CASE DigestNext
    BY <1>1, <2>2, WindowOpensKeeps, WindowClosesKeeps, MaybeDispatchKeeps, SendDigestKeeps,
       StopSendingKeeps, RecordSentKeeps, StopEngineKeeps, StartEngineKeeps DEF DigestNext
  <2> QED BY <1>1, <2>1, <2>2
<1> QED BY <1>1, DigestInvInit, PTL DEF DigestSpec

-----------------------------------------------------------------------------
(* However many apply engines run maybeDispatch and are restarted, a user   *)
(* gets the digest of a week once from each, and again only for each record *)
(* of a dispatch that was lost.                                             *)
THEOREM RepeatsNeedLoss == DigestSpec => []DigestRepeatsNeedLoss
<1>1. ASSUME DigestInv PROVE DigestRepeatsNeedLoss
  <2> SUFFICES ASSUME NEW u \in Recipients PROVE mails[u] <= Cardinality(Engines) + lost
    BY DEF DigestRepeatsNeedLoss
  <2>1. mails[u] + Cardinality(Free(u)) <= Cardinality(Engines) + lost
    BY <1>1 DEF DigestInv, MailInv
  <2> QED BY <1>1, <2>1, FreeCounts DEF DigestInv
<1> QED BY <1>1, DigestInvariance, PTL

(* When an engine has recorded the dispatch of this week, sendWeeklyDigests *)
(* has come to every user: who has no digest had a mail that failed.        *)
THEOREM EveryoneReached == DigestSpec => []DigestReachesAll
<1>1. DigestInv => DigestReachesAll
  BY DEF DigestInv, ReachInv, Reached, RecordInv, DigestTypeOK, DigestReachesAll
<1> QED BY <1>1, DigestInvariance, PTL

-----------------------------------------------------------------------------
(***************************************************************************)
(* Proofs about FollowUp, for any applications, schedulers and faults.     *)
(*                                                                         *)
(* How many reminders an application has had says nothing of how many more *)
(* are on their way. CountInv counts them: until one is on record every    *)
(* mail has a scheduler that is about to record it, or one that failed to; *)
(* from then on only the lists that were read before still hold it.        *)
(***************************************************************************)

Marking(a) == {s \in Reminders : reminder[s] = a}
Pending(a) == {s \in Reminders : a \in list[s] /\ reminder[s] # a}
Recorded(a) == "follow_up_sent" \in events[a]

(* A scheduler that marks an application holds it.                          *)
ListInv ==
  /\ FollowUpTypeOK
  /\ \A s \in Reminders : reminder[s] \in Applied => reminder[s] \in list[s]

CountInv ==
  \A a \in Applied :
    /\ ~Recorded(a) => reminded[a] <= Cardinality(Marking(a)) + unmarked[a]
    /\ Recorded(a) =>
         reminded[a] + Cardinality(Pending(a)) <= Cardinality(Reminders) + unmarked[a]

(* No scheduler has, or will read, what the user has settled.               *)
SettledInv ==
  /\ settled \subseteq Applied
  /\ \A a \in settled : ~Held(a) /\ (events[a] # {} \/ outcome[a])

ReminderInv == ListInv /\ CountInv /\ SettledInv

-----------------------------------------------------------------------------
(* Sets of schedulers are finite.                                           *)
LEMMA ReminderCounts ==
  ASSUME NEW S \in SUBSET Reminders
  PROVE  /\ IsFiniteSet(S) /\ Cardinality(S) \in Nat
         /\ \A s \in S : Cardinality(S \ {s}) = Cardinality(S) - 1
         /\ \A s \in Reminders \ S : Cardinality(S \cup {s}) = Cardinality(S) + 1
<1>1. IsFiniteSet(S)
  BY FollowUpAssumption, FS_Subset
<1> QED BY <1>1, FS_CardinalityType, FS_AddElement, FS_RemoveElement

(* Those who mark an application and those who still have it in their lists *)
(* are different schedulers.                                                *)
LEMMA MarkingAndPending ==
  ASSUME NEW a \in Applied
  PROVE  /\ Marking(a) \in SUBSET Reminders /\ Pending(a) \in SUBSET Reminders
         /\ Cardinality(Marking(a)) + Cardinality(Pending(a)) <= Cardinality(Reminders)
<1>1. Marking(a) \in SUBSET Reminders /\ Pending(a) \in SUBSET Reminders
      /\ Marking(a) \cap Pending(a) = {}
  BY DEF Marking, Pending
<1>2. Cardinality(Marking(a) \cup Pending(a))
        = Cardinality(Marking(a)) + Cardinality(Pending(a)) - Cardinality({})
  BY <1>1, ReminderCounts, FS_Union
<1>3. Cardinality(Marking(a) \cup Pending(a)) <= Cardinality(Reminders)
  BY <1>1, FollowUpAssumption, FS_Subset
<1> QED BY <1>1, <1>2, <1>3, FS_EmptySet, ReminderCounts

(* The schedulers and the counters are as they were.                        *)
LEMMA NothingMoves ==
  ASSUME ReminderInv, UNCHANGED <<reminder, list, reminded, unmarked>>,
         \A a \in Applied : Recorded(a)' = Recorded(a)
  PROVE  CountInv'
<1>1. \A a \in Applied : Marking(a)' = Marking(a) /\ Pending(a)' = Pending(a)
  BY DEF Marking, Pending
<1> QED BY <1>1 DEF ReminderInv, CountInv

LEMMA EnvironmentKeeps ==
  ASSUME ReminderInv, NEW a \in Applied,
         SevenDaysPass(a) \/ DismissFollowUp(a) \/ RecordOutcome(a)
  PROVE  ReminderInv'
<1> USE DEF ReminderInv, ListInv, FollowUpTypeOK
<1>1. ListInv'
  <2>1. CASE SevenDaysPass(a)
    BY <2>1 DEF SevenDaysPass
  <2>2. CASE DismissFollowUp(a)
    BY <2>2 DEF DismissFollowUp, Event
  <2>3. CASE RecordOutcome(a)
    BY <2>3 DEF RecordOutcome
  <2> QED BY <2>1, <2>2, <2>3
<1>2. CountInv'
  <2>1. UNCHANGED <<reminder, list, reminded, unmarked>>
    BY DEF SevenDaysPass, DismissFollowUp, RecordOutcome
  <2>2. \A b \in Applied : Recorded(b)' = Recorded(b)
    BY DEF SevenDaysPass, DismissFollowUp, RecordOutcome, Recorded
  <2> QED BY <2>1, <2>2, NothingMoves
<1>3. SettledInv'
  <2> USE DEF SettledInv, Held, Settles
  <2>1. CASE SevenDaysPass(a)
    BY <2>1 DEF SevenDaysPass
  <2>2. CASE DismissFollowUp(a)
    <3>1. events'[a] # {} /\ \A b \in Applied \ {a} : events'[b] = events[b]
      BY <2>2 DEF DismissFollowUp
    <3> QED BY <2>2, <3>1 DEF DismissFollowUp
  <2>3. CASE RecordOutcome(a)
    <3>1. outcome'[a] /\ \A b \in Applied \ {a} : outcome'[b] = outcome[b]
      BY <2>3 DEF RecordOutcome
    <3> QED BY <2>3, <3>1 DEF RecordOutcome
  <2> QED BY <2>1, <2>2, <2>3
<1> QED BY <1>1, <1>2, <1>3 DEF ReminderInv

-----------------------------------------------------------------------------
(* The query leaves out what is recorded, and what is settled.              *)
LEMMA TickKeeps ==
  ASSUME ReminderInv, NEW s \in Reminders, FollowUpTick(s) PROVE ReminderInv'
<1>1. ListInv'
  BY FollowUpAssumption DEF ReminderInv, ListInv, FollowUpTypeOK, FollowUpTick, NeedingFollowUp
<1>2. \A a \in Applied : Marking(a)' = Marking(a) /\ (Recorded(a) => Pending(a)' = Pending(a))
  BY FollowUpAssumption DEF Marking, Pending, Recorded, NeedingFollowUp,
     ReminderInv, ListInv, FollowUpTypeOK, FollowUpTick
<1>3. CountInv'
  BY <1>2 DEF ReminderInv, CountInv, Recorded, FollowUpTick
<1>4. SettledInv'
  BY DEF ReminderInv, ListInv, FollowUpTypeOK, SettledInv, Held, FollowUpTick, NeedingFollowUp
<1> QED BY <1>1, <1>3, <1>4 DEF ReminderInv

(* What is in a list after the head was dealt with.                         *)
LEMMA DoneKeepsList ==
  ASSUME ReminderInv, NEW s \in Reminders, NEW a \in list[s], DoneWith(s, a),
         reminder[s] \in {"mailing", a}
  PROVE  /\ list' \in [Reminders -> SUBSET Applied]
         /\ reminder' \in [Reminders -> {"waiting", "mailing"} \cup Applied]
         /\ \A t \in Reminders : list'[t] = {} <=> reminder'[t] = "waiting"
         /\ \A t \in Reminders : reminder'[t] \in Applied => reminder'[t] \in list'[t]
         /\ a \in Applied
         /\ Marking(a)' = Marking(a) \ {s} /\ Pending(a)' = Pending(a) \ {s}
         /\ \A b \in Applied \ {a} : Marking(b)' = Marking(b) /\ Pending(b)' = Pending(b)
         /\ \A b \in Applied : Held(b)' => Held(b)
<1> USE DEF ReminderInv, ListInv, FollowUpTypeOK, DoneWith
<1>1. a \in Applied
  OBVIOUS
<1>2. /\ list' \in [Reminders -> SUBSET Applied]
      /\ reminder' \in [Reminders -> {"waiting", "mailing"} \cup Applied]
  BY <1>1
<1>3. /\ list'[s] = list[s] \ {a} /\ reminder'[s] \in {"waiting", "mailing"}
      /\ reminder'[s] = "waiting" <=> list[s] = {a}
      /\ \A t \in Reminders \ {s} : list'[t] = list[t] /\ reminder'[t] = reminder[t]
  OBVIOUS
<1> HIDE DEF DoneWith
<1>4. /\ \A t \in Reminders : list'[t] = {} <=> reminder'[t] = "waiting"
      /\ \A t \in Reminders : reminder'[t] \in Applied => reminder'[t] \in list'[t]
  BY <1>3, FollowUpAssumption
<1>5. /\ Marking(a)' = Marking(a) \ {s} /\ Pending(a)' = Pending(a) \ {s}
      /\ \A b \in Applied \ {a} : Marking(b)' = Marking(b) /\ Pending(b)' = Pending(b)
  BY <1>1, <1>3, FollowUpAssumption DEF Marking, Pending
<1>6. \A b \in Applied : Held(b)' => Held(b)
  BY <1>3 DEF Held
<1> QED BY <1>1, <1>2, <1>4, <1>5, <1>6

-----------------------------------------------------------------------------
(* A mail moves its scheduler from those who hold the application to those  *)
(* who mark it.                                                             *)
LEMMA SendKeeps ==
  ASSUME ReminderInv, NEW s \in Reminders, NEW a \in Applied, SendFollowUp(s, a)
  PROVE  ReminderInv'
<1>0. reminded[a] \in Nat /\ unmarked[a] \in Nat
  BY DEF ReminderInv, ListInv, FollowUpTypeOK
<1>1. /\ reminded' \in [Applied -> Nat] /\ reminded'[a] <= reminded[a] + 1
      /\ \A b \in Applied \ {a} : reminded'[b] = reminded[b]
  BY <1>0 DEF ReminderInv, ListInv, FollowUpTypeOK, SendFollowUp
<1>2. ListInv'
  BY <1>1, FollowUpAssumption DEF ReminderInv, ListInv, FollowUpTypeOK, SendFollowUp
<1>3. /\ s \notin Marking(a) /\ s \in Pending(a)
      /\ Marking(a)' = Marking(a) \cup {s} /\ Pending(a)' = Pending(a) \ {s}
      /\ \A b \in Applied \ {a} : Marking(b)' = Marking(b) /\ Pending(b)' = Pending(b)
  BY FollowUpAssumption DEF ReminderInv, ListInv, FollowUpTypeOK, SendFollowUp, Marking, Pending
<1>4. /\ Cardinality(Marking(a)') = Cardinality(Marking(a)) + 1
      /\ Cardinality(Pending(a)') = Cardinality(Pending(a)) - 1
      /\ Cardinality(Marking(a)) \in Nat /\ Cardinality(Pending(a)) \in Nat
      /\ Cardinality(Reminders) \in Nat
  BY <1>3, ReminderCounts, MarkingAndPending
<1>5. UNCHANGED <<events, outcome, list, unmarked, settled>>
  BY DEF SendFollowUp
<1>6. CountInv'
  <2> SUFFICES ASSUME NEW b \in Applied
               PROVE  /\ ~Recorded(b)' => reminded'[b] <= Cardinality(Marking(b)') + unmarked[b]
                      /\ Recorded(b)' => reminded'[b] + Cardinality(Pending(b)')
                                           <= Cardinality(Reminders) + unmarked[b]
    BY <1>5 DEF CountInv
  <2>1. Recorded(b)' = Recorded(b)
    BY <1>5 DEF Recorded
  <2>2. /\ ~Recorded(b) => reminded[b] <= Cardinality(Marking(b)) + unmarked[b]
        /\ Recorded(b) => reminded[b] + Cardinality(Pending(b)) <= Cardinality(Reminders) + unmarked[b]
    BY DEF ReminderInv, CountInv
  <2>3. reminded'[a] \in Nat
    BY <1>1
  <2>4. CASE b = a
    <3>1. reminded'[a] <= reminded[a] + 1
      BY <1>1
    <3> QED BY <1>0, <1>4, <2>1, <2>2, <2>3, <2>4, <3>1
  <2>5. CASE b # a
    <3>1. Marking(b)' = Marking(b) /\ Pending(b)' = Pending(b)
      BY <1>3, <2>5
    <3>2. reminded'[b] = reminded[b]
      BY <1>1, <2>5
    <3> QED BY <2>1, <2>2, <3>1, <3>2
  <2> QED BY <2>4, <2>5
<1>7. SettledInv'
  BY <1>5 DEF ReminderInv, SettledInv, Held
<1> QED BY <1>2, <1>6, <1>7 DEF ReminderInv

LEMMA SendFailsKeeps ==
  ASSUME ReminderInv, NEW s \in Reminders, NEW a \in Applied, SendFollowUpFails(s, a)
  PROVE  ReminderInv'
<1>1. a \in list[s] /\ DoneWith(s, a) /\ reminder[s] = "mailing"
      /\ UNCHANGED <<age, outcome, events, reminded, unmarked, settled>>
  BY DEF SendFollowUpFails
<1>2. ListInv'
  BY <1>1, DoneKeepsList DEF ReminderInv, ListInv, FollowUpTypeOK
<1>3. Marking(a)' = Marking(a) /\ s \in Pending(a)
  BY <1>1, DoneKeepsList, FollowUpAssumption DEF Marking, Pending
<1>4. /\ Cardinality(Pending(a)') = Cardinality(Pending(a)) - 1
      /\ Cardinality(Pending(a)) \in Nat /\ Cardinality(Reminders) \in Nat
  BY <1>1, <1>3, DoneKeepsList, ReminderCounts, MarkingAndPending
<1>5. reminded[a] \in Nat /\ unmarked[a] \in Nat
  BY DEF ReminderInv, ListInv, FollowUpTypeOK
<1>6. \A b \in Applied \ {a} : Marking(b)' = Marking(b) /\ Pending(b)' = Pending(b)
  BY <1>1, DoneKeepsList
<1>7. CountInv'
  <2>1. UNCHANGED <<events, reminded, unmarked>>
    BY <1>1
  <2> SUFFICES ASSUME NEW b \in Applied
               PROVE  /\ ~Recorded(b)' => reminded[b] <= Cardinality(Marking(b)') + unmarked[b]
                      /\ Recorded(b)' => reminded[b] + Cardinality(Pending(b)')
                                           <= Cardinality(Reminders) + unmarked[b]
    BY <2>1 DEF CountInv
  <2>2. Recorded(b)' = Recorded(b)
    BY <2>1 DEF Recorded
  <2>3. /\ ~Recorded(b) => reminded[b] <= Cardinality(Marking(b)) + unmarked[b]
        /\ Recorded(b) => reminded[b] + Cardinality(Pending(b)) <= Cardinality(Reminders) + unmarked[b]
    BY DEF ReminderInv, CountInv
  <2>4. CASE b = a
    BY <1>3, <1>4, <1>5, <2>2, <2>3, <2>4
  <2>5. CASE b # a
    BY <1>6, <2>2, <2>3, <2>5
  <2> QED BY <2>4, <2>5
<1>8. SettledInv'
  BY <1>1, DoneKeepsList DEF ReminderInv, SettledInv, ListInv, Held, FollowUpTypeOK
<1> QED BY <1>2, <1>7, <1>8 DEF ReminderInv

(* The first record: as many mails went out as schedulers mark it, and      *)
(* those who still hold it are others.                                      *)
LEMMA MarkKeeps ==
  ASSUME ReminderInv, NEW s \in Reminders, NEW a \in Applied, MarkFollowUpSent(s, a)
  PROVE  ReminderInv'
<1>1. /\ a \in list[s] /\ DoneWith(s, a) /\ reminder[s] = a
      /\ UNCHANGED <<age, outcome, reminded, unmarked, settled>>
  BY DEF MarkFollowUpSent, ReminderInv, ListInv
<1>2. /\ events' \in [Applied -> SUBSET Event] /\ events'[a] = events[a] \cup {"follow_up_sent"}
      /\ \A b \in Applied \ {a} : events'[b] = events[b]
  BY DEF MarkFollowUpSent, ReminderInv, ListInv, FollowUpTypeOK, Event
<1>3. ListInv'
  BY <1>1, <1>2, DoneKeepsList DEF ReminderInv, ListInv, FollowUpTypeOK
<1>4. Pending(a)' = Pending(a)
  BY <1>1, DoneKeepsList DEF Pending
<1>5. /\ reminded[a] \in Nat /\ unmarked[a] \in Nat
      /\ Cardinality(Marking(a)) \in Nat /\ Cardinality(Pending(a)) \in Nat
      /\ Cardinality(Reminders) \in Nat
      /\ Cardinality(Marking(a)) + Cardinality(Pending(a)) <= Cardinality(Reminders)
  BY ReminderCounts, MarkingAndPending DEF ReminderInv, ListInv, FollowUpTypeOK
<1>6. reminded[a] + Cardinality(Pending(a)) <= Cardinality(Reminders) + unmarked[a]
  BY <1>5 DEF ReminderInv, CountInv
<1>7. CountInv'
  BY <1>1, <1>2, <1>4, <1>6, DoneKeepsList DEF ReminderInv, CountInv, Recorded
<1>8. SettledInv'
  <2>1. \A b \in settled : ~Held(b)'
    BY <1>1, DoneKeepsList DEF ReminderInv, SettledInv
  <2>2. \A b \in settled : events'[b] # {} \/ outcome'[b]
    BY <1>1, <1>2 DEF ReminderInv, SettledInv
  <2> QED BY <1>1, <2>1, <2>2 DEF ReminderInv, SettledInv
<1> QED BY <1>3, <1>7, <1>8 DEF ReminderInv

LEMMA MarkFailsKeeps ==
  ASSUME ReminderInv, NEW s \in Reminders, NEW a \in Applied, MarkFails(s, a)
  PROVE  ReminderInv'
<1>1. /\ a \in list[s] /\ DoneWith(s, a) /\ reminder[s] = a
      /\ UNCHANGED <<age, outcome, events, reminded, settled>>
  BY DEF MarkFails, ReminderInv, ListInv
<1>2. /\ unmarked' \in [Applied -> 0..MaxUnmarked] /\ unmarked'[a] = unmarked[a] + 1
      /\ \A b \in Applied \ {a} : unmarked'[b] = unmarked[b]
  <2>1. unmarked \in [Applied -> 0..MaxUnmarked] /\ unmarked[a] < MaxUnmarked
        /\ unmarked' = [unmarked EXCEPT ![a] = @ + 1]
    BY DEF MarkFails, ReminderInv, ListInv, FollowUpTypeOK
  <2>2. unmarked[a] + 1 \in 0..MaxUnmarked
    BY <2>1, FollowUpAssumption
  <2> QED BY <2>1, <2>2
<1>3. ListInv'
  BY <1>1, <1>2, DoneKeepsList DEF ReminderInv, ListInv, FollowUpTypeOK
<1>4. Pending(a)' = Pending(a) /\ s \in Marking(a)
  BY <1>1, DoneKeepsList DEF Pending, Marking
<1>5. /\ reminded[a] \in Nat /\ unmarked[a] \in Nat
      /\ Cardinality(Marking(a)) \in Nat /\ Cardinality(Pending(a)) \in Nat
      /\ Cardinality(Reminders) \in Nat
      /\ Cardinality(Marking(a)') = Cardinality(Marking(a)) - 1
  BY <1>1, <1>4, DoneKeepsList, ReminderCounts, MarkingAndPending DEF ReminderInv, ListInv, FollowUpTypeOK
<1>6. CountInv'
  <2>1. UNCHANGED <<events, reminded>>
    BY <1>1
  <2> SUFFICES ASSUME NEW b \in Applied
               PROVE  /\ ~Recorded(b)' => reminded[b] <= Cardinality(Marking(b)') + unmarked'[b]
                      /\ Recorded(b)' => reminded[b] + Cardinality(Pending(b)')
                                           <= Cardinality(Reminders) + unmarked'[b]
    BY <2>1 DEF CountInv
  <2>2. Recorded(b)' = Recorded(b)
    BY <2>1 DEF Recorded
  <2>3. /\ ~Recorded(b) => reminded[b] <= Cardinality(Marking(b)) + unmarked[b]
        /\ Recorded(b) => reminded[b] + Cardinality(Pending(b)) <= Cardinality(Reminders) + unmarked[b]
    BY DEF ReminderInv, CountInv
  <2>4. CASE b = a
    BY <1>2, <1>4, <1>5, <2>2, <2>3, <2>4
  <2>5. CASE b # a
    BY <1>1, <1>2, <2>2, <2>3, <2>5, DoneKeepsList
  <2> QED BY <2>4, <2>5
<1>7. SettledInv'
  BY <1>1, DoneKeepsList DEF ReminderInv, SettledInv, ListInv, Held, FollowUpTypeOK
<1> QED BY <1>3, <1>6, <1>7 DEF ReminderInv

(* A crash between the mail and its record is a record that failed.         *)
LEMMA CrashKeeps ==
  ASSUME ReminderInv, NEW s \in Reminders, FollowUpCrash(s) PROVE ReminderInv'
<1>1. /\ unmarked' \in [Applied -> 0..MaxUnmarked]
      /\ \A a \in Applied : unmarked'[a] = IF reminder[s] = a THEN unmarked[a] + 1 ELSE unmarked[a]
  BY FollowUpAssumption DEF FollowUpCrash, ReminderInv, ListInv, FollowUpTypeOK
<1>2. /\ list'[s] = {} /\ reminder'[s] = "waiting"
      /\ \A t \in Reminders \ {s} : list'[t] = list[t] /\ reminder'[t] = reminder[t]
      /\ UNCHANGED <<age, outcome, events, reminded, settled>>
  BY DEF FollowUpCrash, ReminderInv, ListInv, FollowUpTypeOK
<1>3. ListInv'
  BY <1>1, FollowUpAssumption DEF FollowUpCrash, ReminderInv, ListInv, FollowUpTypeOK
<1>4. \A a \in Applied : Marking(a)' = Marking(a) \ {s} /\ Pending(a)' = Pending(a) \ {s}
  BY <1>2, FollowUpAssumption DEF Marking, Pending
<1>5. ASSUME NEW a \in Applied
      PROVE  /\ reminded[a] \in Nat /\ unmarked[a] \in Nat /\ unmarked'[a] \in Nat
             /\ Cardinality(Marking(a)) \in Nat /\ Cardinality(Pending(a)) \in Nat
             /\ Cardinality(Marking(a)') + unmarked'[a] = Cardinality(Marking(a)) + unmarked[a]
             /\ Cardinality(Pending(a)') <= Cardinality(Pending(a))
             /\ Cardinality(Pending(a)') \in Nat
             /\ unmarked'[a] >= unmarked[a]
  <2>1. /\ reminded[a] \in Nat /\ unmarked[a] \in Nat
        /\ Cardinality(Marking(a)) \in Nat /\ Cardinality(Pending(a)) \in Nat
    BY ReminderCounts, MarkingAndPending DEF ReminderInv, ListInv, FollowUpTypeOK
  <2>2. Cardinality(Pending(a)') <= Cardinality(Pending(a)) /\ Cardinality(Pending(a)') \in Nat
    BY <1>4, ReminderCounts, FS_Subset, MarkingAndPending
  <2>3. CASE reminder[s] = a
    <3>1. s \in Marking(a)
      BY <2>3 DEF Marking
    <3>2. Cardinality(Marking(a)') = Cardinality(Marking(a)) - 1
      BY <1>4, <3>1, ReminderCounts, MarkingAndPending
    <3> QED BY <1>1, <2>1, <2>2, <2>3, <3>2
  <2>4. CASE reminder[s] # a
    <3>1. Marking(a)' = Marking(a)
      BY <1>4, <2>4 DEF Marking
    <3> QED BY <1>1, <2>1, <2>2, <2>4, <3>1
  <2> QED BY <2>3, <2>4
<1>6. CountInv'
  <2>1. Cardinality(Reminders) \in Nat
    BY ReminderCounts
  <2> QED BY <1>2, <1>5, <2>1 DEF ReminderInv, CountInv, Recorded
<1>7. SettledInv'
  BY <1>2 DEF ReminderInv, SettledInv, Held, ListInv, FollowUpTypeOK
<1> QED BY <1>3, <1>6, <1>7 DEF ReminderInv

-----------------------------------------------------------------------------
LEMMA ReminderInvInit == FollowUpInit => ReminderInv
<1> SUFFICES ASSUME FollowUpInit PROVE ReminderInv
  OBVIOUS
<1>1. ListInv /\ SettledInv
  BY FollowUpAssumption DEF FollowUpInit, ListInv, FollowUpTypeOK, SettledInv
<1>2. CountInv
  BY ReminderCounts, MarkingAndPending DEF FollowUpInit, CountInv, Recorded
<1> QED BY <1>1, <1>2 DEF ReminderInv

(* ReminderInv holds in every state.                                        *)
THEOREM ReminderInvariance == FollowUpSpec => []ReminderInv
<1>1. ASSUME ReminderInv, [FollowUpNext]_followUpVars PROVE ReminderInv'
  <2>1. CASE UNCHANGED followUpVars
    BY <1>1, <2>1, NothingMoves
    DEF followUpVars, ReminderInv, ListInv, FollowUpTypeOK, SettledInv, Held, Recorded
  <2>2. CASE FollowUpNext
    BY <1>1, <2>2, EnvironmentKeeps, TickKeeps, SendKeeps, SendFailsKeeps, MarkKeeps,
       MarkFailsKeeps, CrashKeeps DEF FollowUpNext
  <2> QED BY <1>1, <2>1, <2>2
<1> QED BY <1>1, ReminderInvInit, PTL DEF FollowUpSpec

(* However many schedulers run, an application is reminded of once per      *)
(* scheduler at most, and again only for mails that were not recorded.      *)
THEOREM RemindersAreBounded == FollowUpSpec => []RemindersBounded
<1>1. ASSUME ReminderInv PROVE RemindersBounded
  <2> SUFFICES ASSUME NEW a \in Applied
               PROVE  reminded[a] <= Cardinality(Reminders) + unmarked[a]
    BY DEF RemindersBounded
  <2>1. /\ reminded[a] \in Nat /\ unmarked[a] \in Nat
        /\ Cardinality(Marking(a)) \in Nat /\ Cardinality(Pending(a)) \in Nat
        /\ Cardinality(Reminders) \in Nat
        /\ Cardinality(Marking(a)) + Cardinality(Pending(a)) <= Cardinality(Reminders)
    BY <1>1, ReminderCounts, MarkingAndPending DEF ReminderInv, ListInv, FollowUpTypeOK
  <2> QED BY <1>1, <2>1 DEF ReminderInv, CountInv
<1> QED BY <1>1, ReminderInvariance, PTL

(* After DismissFollowUp or an outcome, while no scheduler had read the     *)
(* application, no scheduler mails a reminder for it.                       *)
THEOREM DismissalIsFinal == FollowUpSpec => DismissalFinal
<1>1. ASSUME ReminderInv, [FollowUpNext]_followUpVars
      PROVE  \A a \in Applied : a \in settled => reminded'[a] = reminded[a]
  <2> SUFFICES ASSUME NEW a \in Applied, a \in settled PROVE reminded'[a] = reminded[a]
    OBVIOUS
  <2>1. \A s \in Reminders : a \notin list[s]
    BY <1>1 DEF ReminderInv, SettledInv, Held
  <2>2. ASSUME NEW s \in Reminders, NEW b \in Applied, SendFollowUp(s, b)
        PROVE  reminded'[a] = reminded[a]
    BY <1>1, <2>1, <2>2 DEF SendFollowUp, ReminderInv, ListInv, FollowUpTypeOK
  <2>3. CASE UNCHANGED reminded
    BY <2>3
  <2> QED BY <1>1, <2>2, <2>3 DEF FollowUpNext, followUpVars, SevenDaysPass, DismissFollowUp,
             RecordOutcome, FollowUpTick, SendFollowUpFails, MarkFollowUpSent, MarkFails, FollowUpCrash
<1> QED BY <1>1, ReminderInvariance, PTL DEF FollowUpSpec, DismissalFinal

-----------------------------------------------------------------------------
(***************************************************************************)
(* Proofs about Webhook, for any URLs and any number of events.            *)
(*                                                                         *)
(* What the thirty seconds leave for the third attempt depends on what the *)
(* first two took. DeliveryInv bounds it: an attempt and its pause take    *)
(* two units, and a third one when the attempt ran into its timeout.       *)
(***************************************************************************)

Delivery == [at : {"none", "attempt", "delivered", "failed"},
             attempt : Nat, elapsed : Nat, slow : Nat, requests : Nat]

Bounded(d) ==
  /\ d.elapsed <= 6
  /\ d.at = "attempt" =>
       /\ d.attempt \in 1..3 /\ d.requests = d.attempt - 1 /\ d.slow <= d.attempt - 1
       /\ d.elapsed <= 2 * (d.attempt - 1) + d.slow
  /\ d.at = "failed" => d.requests = 3 \/ d.slow >= 2

DeliveryInv ==
  /\ delivery \in [Urls -> Delivery]
  /\ \A u \in Urls : Bounded(delivery[u])

-----------------------------------------------------------------------------
(* What another attempt finds.                                              *)
LEMMA NextAttempt ==
  ASSUME NEW attempt \in 1..3, attempt # 3, NEW elapsed \in Nat, NEW sum \in Nat,
         NEW took \in Nat, NEW slow \in {0, 1},
         sum <= attempt - 1, elapsed <= 2 * (attempt - 1) + sum, took <= 1 + slow
  PROVE  /\ attempt + 1 \in 1..3 /\ sum + slow <= attempt
         /\ elapsed + took + 1 <= 2 * attempt + (sum + slow) /\ elapsed + took + 1 <= 6
<1>1. attempt = 1 \/ attempt = 2
  OBVIOUS
<1> QED BY <1>1

(* One attempt, from what is left of the thirty seconds.                    *)
LEMMA AttemptBounded ==
  ASSUME NEW d \in Delivery, Bounded(d), d.at = "attempt",
         NEW took \in Nat, NEW request \in {0, 1}, NEW slow \in {0, 1},
         d.elapsed + took <= 6, took <= 1 + slow,
         request = 0 => took = 0 /\ slow = 0 /\ d.elapsed >= 6
  PROVE  LET last == d.attempt = MaxAttempts
             e == [at |-> IF last THEN "failed" ELSE "attempt",
                   attempt |-> IF last THEN d.attempt ELSE d.attempt + 1,
                   elapsed |-> d.elapsed + took + (IF last THEN 0 ELSE Pause),
                   slow |-> d.slow + slow, requests |-> d.requests + request]
         IN  e \in Delivery /\ Bounded(e)
<1>1. d.attempt \in 1..3 /\ d.requests = d.attempt - 1 /\ d.slow <= d.attempt - 1
      /\ d.elapsed <= 2 * (d.attempt - 1) + d.slow
  BY DEF Bounded
<1>2. d.slow \in Nat /\ d.elapsed \in Nat /\ d.attempt \in Nat /\ d.requests \in Nat
  BY DEF Delivery
<1>3. CASE d.attempt = 3
  <2>1. d.requests + request = 3 \/ d.slow + slow >= 2
    BY <1>1, <1>2, <1>3
  <2>2. d.elapsed + took + 0 <= 6
    BY <1>2
  <2> QED BY <1>2, <1>3, <2>1, <2>2 DEF Delivery, Bounded, MaxAttempts
<1>4. CASE d.attempt # 3
  <2>1. request = 1
    BY <1>1, <1>2, <1>4
  <2>2. d.attempt + 1 \in 1..3 /\ d.slow + slow <= d.attempt
        /\ d.elapsed + took + 1 <= 2 * d.attempt + (d.slow + slow) /\ d.elapsed + took + 1 <= 6
    BY <1>1, <1>2, <1>4, NextAttempt
  <2> DEFINE e == [at |-> "attempt", attempt |-> d.attempt + 1, elapsed |-> d.elapsed + took + 1,
                   slow |-> d.slow + slow, requests |-> d.requests + request]
  <2>3. e \in Delivery
    BY <1>2 DEF Delivery
  <2>4. Bounded(e)
    BY <1>1, <1>2, <2>1, <2>2 DEF Bounded
  <2> QED BY <1>4, <2>3, <2>4 DEF MaxAttempts, Pause
<1> QED BY <1>3, <1>4

LEMMA FailedKeeps ==
  ASSUME DeliveryInv, NEW u \in Urls, delivery[u].at = "attempt",
         NEW took \in Nat, NEW request \in {0, 1}, NEW slow \in {0, 1},
         delivery[u].elapsed + took <= 6, took <= 1 + slow,
         request = 0 => took = 0 /\ slow = 0 /\ delivery[u].elapsed >= 6,
         Failed(u, took, request, slow)
  PROVE  DeliveryInv'
<1>1. delivery[u] \in Delivery /\ Bounded(delivery[u])
  BY DEF DeliveryInv
<1>2. delivery'[u] \in Delivery /\ Bounded(delivery'[u])
  BY <1>1, AttemptBounded DEF Failed, DeliveryInv
<1>3. /\ DOMAIN delivery' = Urls /\ \A v \in Urls \ {u} : delivery'[v] = delivery[v]
      /\ delivery' = [v \in Urls |-> delivery'[v]]
  BY DEF Failed, DeliveryInv
<1> QED BY <1>2, <1>3 DEF DeliveryInv

LEMMA OkKeeps ==
  ASSUME DeliveryInv, NEW u \in Urls, delivery[u].at = "attempt",
         NEW took \in Nat, delivery[u].elapsed + took <= 6, Ok(u, took)
  PROVE  DeliveryInv'
<1>1. delivery'[u] \in Delivery /\ Bounded(delivery'[u])
  BY DEF Ok, DeliveryInv, Delivery, Bounded
<1>2. /\ \A v \in Urls \ {u} : delivery'[v] = delivery[v]
      /\ delivery' = [v \in Urls |-> delivery'[v]]
  BY DEF Ok, DeliveryInv
<1> QED BY <1>1, <1>2 DEF DeliveryInv

LEMMA AttemptKeeps ==
  ASSUME DeliveryInv, NEW u \in Urls, Attempt(u) PROVE DeliveryInv'
<1> DEFINE spent == delivery[u].elapsed
           left == IF spent < DetachedTimeout THEN DetachedTimeout - spent ELSE 0
           limit == IF left < RequestTimeout THEN left ELSE RequestTimeout
<1>1. spent \in Nat /\ spent <= 6
  BY DEF DeliveryInv, Delivery, Bounded
<1>2. left \in 0..6 /\ limit \in 0..2 /\ spent + limit <= 6 /\ (left = 0 <=> spent >= 6)
      /\ (left # 0 => limit >= 1)
  BY <1>1 DEF DetachedTimeout, RequestTimeout
<1>3. delivery[u].at = "attempt"
  BY DEF Attempt
<1>4. CASE left = 0
  <2>1. Failed(u, 0, 0, 0)
    BY <1>4 DEF Attempt
  <2> QED BY <1>1, <1>2, <1>3, <1>4, <2>1, FailedKeeps
<1>5. CASE left # 0
  <2>1. \/ \E took \in 0..(limit - 1) : Ok(u, took) \/ Failed(u, took, 1, 0)
        \/ Failed(u, limit, 1, 1)
    BY <1>5 DEF Attempt
  <2> HIDE DEF left, limit
  <2>2. ASSUME NEW took \in 0..(limit - 1), Ok(u, took) PROVE DeliveryInv'
    <3>1. took \in Nat /\ spent + took <= 6
      BY <1>1, <1>2, <2>2
    <3> QED BY <1>3, <2>2, <3>1, OkKeeps
  <2>3. ASSUME NEW took \in 0..(limit - 1), Failed(u, took, 1, 0) PROVE DeliveryInv'
    <3>1. took \in Nat /\ spent + took <= 6 /\ took <= 1
      BY <1>1, <1>2, <2>3
    <3> QED BY <1>3, <2>3, <3>1, FailedKeeps
  <2>4. ASSUME Failed(u, limit, 1, 1) PROVE DeliveryInv'
    <3>1. limit \in Nat /\ spent + limit <= 6 /\ limit <= 2
      BY <1>1, <1>2
    <3> QED BY <1>3, <2>4, <3>1, FailedKeeps
  <2> QED BY <2>1, <2>2, <2>3, <2>4
<1> QED BY <1>4, <1>5

(* DeliveryInv holds in every state.                                        *)
THEOREM DeliveryInvariance == WebhookSpec => []DeliveryInv
<1>1. WebhookInit => DeliveryInv
  BY DEF WebhookInit, DeliveryInv, NoDelivery, Delivery, Bounded
<1>2. ASSUME DeliveryInv, [WebhookNext]_webhookVars PROVE DeliveryInv'
  <2>1. CASE SendWebhook
    BY <2>1, SMTT(30) DEF SendWebhook, DeliveryInv, NoDelivery, Delivery, Bounded
  <2>2. CASE ChangeEvents \/ UNCHANGED webhookVars
    BY <1>2, <2>2 DEF ChangeEvents, webhookVars, DeliveryInv
  <2>3. ASSUME NEW u \in Urls, Attempt(u) PROVE DeliveryInv'
    BY <1>2, <2>3, AttemptKeeps
  <2> QED BY <1>2, <2>1, <2>2, <2>3 DEF WebhookNext
<1> QED BY <1>1, <1>2, PTL DEF WebhookSpec

-----------------------------------------------------------------------------
(* A goroutine of sendWithRetry that gives up has made its three requests,  *)
(* or two of them ran into their timeouts, and it ends within its thirty    *)
(* seconds, whatever the receivers answer and when.                         *)
THEOREM TriesMade == WebhookSpec => []WebhookGetsItsTries
<1>1. DeliveryInv => WebhookGetsItsTries
  BY DEF DeliveryInv, Bounded, WebhookGetsItsTries, MaxAttempts
<1> QED BY <1>1, DeliveryInvariance, PTL

-----------------------------------------------------------------------------
-----------------------------------------------------------------------------
(* The background as a whole. A step of MCBackground is a step of one       *)
(* service and a stutter of the others, and its fairness is theirs, so each *)
(* of its behaviours is a behaviour of every service.                       *)
THEOREM BackgroundIsItsServices ==
  MCSpec => DigestSpec /\ FollowUpSpec /\ WebhookSpec /\ EmbeddingsSpec
<1>1. MCInit => DigestInit /\ FollowUpInit /\ WebhookInit /\ EmbeddingsInit
  BY DEF MCInit
<1>2. [MCNext]_mcVars =>
        /\ [DigestNext]_digestVars /\ [FollowUpNext]_followUpVars
        /\ [WebhookNext]_webhookVars /\ [EmbeddingsNext]_embeddingsVars
  BY DEF MCNext, mcVars
<1> QED BY <1>1, <1>2, PTL DEF MCSpec, DigestSpec, FollowUpSpec, WebhookSpec, EmbeddingsSpec

(* BackgroundTypeOK, from the invariants of the digest and the follow-up.   *)
THEOREM BackgroundTypesHold == MCSpec => []BackgroundTypeOK
<1>1. DigestInv /\ ReminderInv => BackgroundTypeOK
  BY DEF DigestInv, RecordInv, ReminderInv, ListInv, BackgroundTypeOK
<1> QED BY <1>1, BackgroundIsItsServices, DigestInvariance, ReminderInvariance, PTL
=============================================================================
