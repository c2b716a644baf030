------------------------------ MODULE FollowUp ------------------------------
(***************************************************************************)
(* Follow-up reminders for one user: a tick every hour reads the           *)
(* applications that were sent at least seven days ago and have neither an *)
(* outcome nor a follow-up event, mails a reminder for each and then       *)
(* records follow_up_sent. The API gateway and a Lambda both run a         *)
(* scheduler. The user may dismiss a reminder or record an outcome         *)
(* meanwhile.                                                              *)
(***************************************************************************)
EXTENDS Naturals, FiniteSets

CONSTANTS
  Applied,       \* applications with status applied
  Reminders,     \* the schedulers
  NilClients,    \* those of them without a mail client
  MaxUnmarked,   \* bound on the marks that fail, per application
  FollowUpFaults \* mail, mark, crash

ASSUME FollowUpAssumption ==
  /\ IsFiniteSet(Applied) /\ IsFiniteSet(Reminders) /\ NilClients \subseteq Reminders
  /\ Applied \cap {"waiting", "mailing"} = {}
  /\ MaxUnmarked \in Nat /\ FollowUpFaults \subseteq {"mail", "mark", "crash"}

VARIABLES
  age,        \* age[a]: applied less than seven days ago, or more
  outcome,    \* outcome[a]: the user recorded an outcome
  events,     \* events[a]: follow-up events of the application
  reminder,   \* reminder[s]: waiting, mailing for the head of its list, or marking
  list,       \* list[s]: applications it read and has not dealt with
  reminded,   \* reminded[a]: mails sent (history)
  unmarked,   \* unmarked[a]: mails that were not recorded (history)
  settled     \* applications the user settled while no scheduler had them (history)

followUpVars == <<age, outcome, events, reminder, list, reminded, unmarked, settled>>

Event == {"follow_up_sent", "follow_up_dismissed"}
Held(a) == \E s \in Reminders : a \in list[s]

FollowUpInit ==
  /\ age = [a \in Applied |-> "recent"]
  /\ outcome = [a \in Applied |-> FALSE]
  /\ events = [a \in Applied |-> {}]
  /\ reminder = [s \in Reminders |-> "waiting"]
  /\ list = [s \in Reminders |-> {}]
  /\ reminded = [a \in Applied |-> 0] /\ unmarked = [a \in Applied |-> 0] /\ settled = {}

-----------------------------------------------------------------------------
SevenDaysPass(a) ==
  /\ age[a] = "recent" /\ age' = [age EXCEPT ![a] = "stale"]
  /\ UNCHANGED <<outcome, events, reminder, list, reminded, unmarked, settled>>

Settles(a) == settled' = IF Held(a) THEN settled ELSE settled \cup {a}

(* FollowUpService.DismissFollowUp (no route calls it yet).                 *)
DismissFollowUp(a) ==
  /\ "follow_up_dismissed" \notin events[a]
  /\ events' = [events EXCEPT ![a] = @ \cup {"follow_up_dismissed"}]
  /\ Settles(a)
  /\ UNCHANGED <<age, outcome, reminder, list, reminded, unmarked>>

RecordOutcome(a) ==
  /\ ~outcome[a] /\ outcome' = [outcome EXCEPT ![a] = TRUE]
  /\ Settles(a)
  /\ UNCHANGED <<age, events, reminder, list, reminded, unmarked>>

(* Mutant: the query forgets the dismissals.                                *)
NeedingFollowUpUndismissed ==
  {a \in Applied : age[a] = "stale" /\ ~outcome[a] /\ "follow_up_sent" \notin events[a]}

(* Mutant: the query forgets the reminders that were sent.                  *)
NeedingFollowUpAgain ==
  {a \in Applied : age[a] = "stale" /\ ~outcome[a] /\ "follow_up_dismissed" \notin events[a]}

(* GetApplicationsNeedingFollowUp.                                          *)
NeedingFollowUp == {a \in Applied : age[a] = "stale" /\ ~outcome[a] /\ events[a] = {}}

(* A tick whose queries fail, or find nothing, does nothing.                *)
FollowUpTick(s) ==
  /\ reminder[s] = "waiting" /\ NeedingFollowUp # {}
  /\ reminder' = [reminder EXCEPT ![s] = "mailing"]
  /\ list' = [list EXCEPT ![s] = NeedingFollowUp]
  /\ UNCHANGED <<age, outcome, events, reminded, unmarked, settled>>

(* Mutant: the tick does not end with its list.                             *)
DoneWithMailing(s, a) ==
  list' = [list EXCEPT ![s] = @ \ {a}] /\ reminder' = [reminder EXCEPT ![s] = "mailing"]

DoneWith(s, a) ==
  /\ list' = [list EXCEPT ![s] = @ \ {a}]
  /\ reminder' = [reminder EXCEPT ![s] = IF list[s] = {a} THEN "waiting" ELSE "mailing"]

(* The mail goes out; without a client nothing does, and that is no error.  *)
SendFollowUp(s, a) ==
  /\ reminder[s] = "mailing" /\ a \in list[s]
  /\ reminded' = IF s \in NilClients THEN reminded ELSE [reminded EXCEPT ![a] = @ + 1]
  /\ reminder' = [reminder EXCEPT ![s] = a]
  /\ UNCHANGED <<age, outcome, events, list, unmarked, settled>>

(* The mail fails: the next tick finds the application again.               *)
SendFollowUpFails(s, a) ==
  /\ "mail" \in FollowUpFaults /\ s \notin NilClients
  /\ reminder[s] = "mailing" /\ a \in list[s]
  /\ DoneWith(s, a)
  /\ UNCHANGED <<age, outcome, events, reminded, unmarked, settled>>

MarkFollowUpSent(s, a) ==
  /\ reminder[s] = a
  /\ events' = [events EXCEPT ![a] = @ \cup {"follow_up_sent"}]
  /\ DoneWith(s, a)
  /\ UNCHANGED <<age, outcome, reminded, unmarked, settled>>

(* The insert fails, which is logged.                                       *)
MarkFails(s, a) ==
  /\ "mark" \in FollowUpFaults /\ reminder[s] = a /\ unmarked[a] < MaxUnmarked
  /\ unmarked' = [unmarked EXCEPT ![a] = @ + 1]
  /\ DoneWith(s, a)
  /\ UNCHANGED <<age, outcome, events, reminded, settled>>

(* The process ends; a new one starts with a tick.                          *)
FollowUpCrash(s) ==
  /\ "crash" \in FollowUpFaults /\ reminder[s] # "waiting"
  /\ \A a \in Applied : reminder[s] = a => unmarked[a] < MaxUnmarked
  /\ unmarked' = [a \in Applied |-> IF reminder[s] = a THEN unmarked[a] + 1 ELSE unmarked[a]]
  /\ reminder' = [reminder EXCEPT ![s] = "waiting"] /\ list' = [list EXCEPT ![s] = {}]
  /\ UNCHANGED <<age, outcome, events, reminded, settled>>

FollowUpNext ==
  \/ \E a \in Applied : SevenDaysPass(a) \/ DismissFollowUp(a) \/ RecordOutcome(a)
  \/ \E s \in Reminders :
       \/ FollowUpTick(s) \/ FollowUpCrash(s)
       \/ \E a \in Applied : \/ SendFollowUp(s, a) \/ SendFollowUpFails(s, a)
                             \/ MarkFollowUpSent(s, a) \/ MarkFails(s, a)

(* A scheduler ticks every hour, and the mail service is not down for ever. *)
(* Marks that fail are bounded, so no application keeps the others waiting. *)
FollowUpFairness ==
  \A s \in Reminders :
    /\ WF_followUpVars(FollowUpTick(s))
    /\ SF_followUpVars(\E a \in Applied : SendFollowUp(s, a))
    /\ WF_followUpVars(\E a \in Applied : MarkFollowUpSent(s, a) \/ MarkFails(s, a))

FollowUpSpec == FollowUpInit /\ [][FollowUpNext]_followUpVars /\ FollowUpFairness

-----------------------------------------------------------------------------
FollowUpTypeOK ==
  /\ age \in [Applied -> {"recent", "stale"}] /\ outcome \in [Applied -> BOOLEAN]
  /\ events \in [Applied -> SUBSET Event]
  /\ reminder \in [Reminders -> {"waiting", "mailing"} \cup Applied]
  /\ list \in [Reminders -> SUBSET Applied]
  /\ \A s \in Reminders : list[s] = {} <=> reminder[s] = "waiting"
  /\ reminded \in [Applied -> Nat] /\ unmarked \in [Applied -> 0..MaxUnmarked]

(* An application is reminded of at most once per scheduler, and again for  *)
(* each mail that was not recorded: once it is recorded, only lists that    *)
(* were read before still hold it, one per scheduler.                       *)
RemindersBounded ==
  \A a \in Applied : reminded[a] <= Cardinality(Reminders) + unmarked[a]

(* After the user dismissed a reminder, or recorded an outcome, while no    *)
(* scheduler had read the application, no reminder goes out for it.         *)
DismissalFinal ==
  [][\A a \in Applied : a \in settled => reminded'[a] = reminded[a]]_followUpVars

(* Every stale application is dealt with in the end: a reminder is on       *)
(* record, or the user settled it, whatever fails meanwhile.                *)
StaleGetsReminder ==
  \A a \in Applied : age[a] = "stale" ~> events[a] # {} \/ outcome[a]
=============================================================================
