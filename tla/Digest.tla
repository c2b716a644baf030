------------------------------- MODULE Digest -------------------------------
(***************************************************************************)
(* The weekly digest: a goroutine of the apply engine that wakes up every  *)
(* hour and, in the hour after Monday 09:00 UTC, mails every active user.  *)
(* It remembers the last dispatch in memory and in a file of its machine.  *)
(*                                                                         *)
(* Time is the number of the week and whether it is that hour. Ticks are   *)
(* an hour apart, so each engine that is up has one in that hour.          *)
(***************************************************************************)
EXTENDS Naturals, FiniteSets

CONSTANTS
  Engines,       \* apply-engine processes
  Recipients,    \* active users
  MaxWeek,       \* bound on the weeks
  MaxLost,       \* bound on the restarts and the failed writes of a week
  DigestFaults   \* query, mail, write, kill, disk

ASSUME DigestAssumption ==
  /\ IsFiniteSet(Engines) /\ IsFiniteSet(Recipients)
  /\ MaxWeek \in Nat /\ MaxLost \in Nat
  /\ DigestFaults \subseteq {"query", "mail", "write", "kill", "disk"}

VARIABLES
  week,      \* the week; 0 is before the first
  window,    \* it is Monday between 09:00 and 10:00 UTC
  due,       \* due[e]: a tick, or the check at the start, is to come in this hour
  digest,    \* digest[e]: stopped, waiting, asking for the users, or sending to todo[e]
  todo,
  lastSent,  \* lastSent[e]: week of the last dispatch, in memory
  stateFile, \* stateFile[e]: the same on disk
  mails,     \* mails[u]: digests sent to u this week (history)
  missed,    \* users whose own mail failed this week (history)
  lost       \* records of a dispatch lost this week: a kill, a write, a disk (history)

digestVars == <<week, window, due, digest, todo, lastSent, stateFile, mails, missed, lost>>

Sending == {e \in Engines : digest[e] = "sending"}

DigestInit ==
  /\ week = 0 /\ window = FALSE
  /\ due = [e \in Engines |-> FALSE]
  /\ digest = [e \in Engines |-> "waiting"]
  /\ todo = [e \in Engines |-> {}]
  /\ lastSent = [e \in Engines |-> 0] /\ stateFile = [e \in Engines |-> 0]
  /\ mails = [u \in Recipients |-> 0] /\ missed = {} /\ lost = 0

-----------------------------------------------------------------------------
WindowOpens ==
  /\ ~window /\ week < MaxWeek /\ Sending = {}
  /\ window' = TRUE /\ week' = week + 1
  /\ due' = [e \in Engines |-> digest[e] # "stopped"]
  /\ mails' = [u \in Recipients |-> 0] /\ missed' = {} /\ lost' = 0
  /\ UNCHANGED <<digest, todo, lastSent, stateFile>>

WindowCloses ==
  /\ window /\ \A e \in Engines : due[e] => digest[e] = "sending"
  /\ window' = FALSE /\ due' = [e \in Engines |-> FALSE]
  /\ UNCHANGED <<week, digest, todo, lastSent, stateFile, mails, missed, lost>>

(* Guard of maybeDispatch: lastSent is not before the start of the window.  *)
SentInWindow(e) == lastSent[e] = week

MaybeDispatch(e) ==
  /\ digest[e] = "waiting" /\ due[e] /\ window
  /\ due' = [due EXCEPT ![e] = FALSE]
  /\ IF SentInWindow(e)
     THEN UNCHANGED <<digest, todo>>
     ELSE \/ digest' = [digest EXCEPT ![e] = "sending"] /\ todo' = [todo EXCEPT ![e] = Recipients]
          \/ "query" \in DigestFaults /\ UNCHANGED <<digest, todo>>
  /\ UNCHANGED <<week, window, lastSent, stateFile, mails, missed, lost>>

(* Mutant: the first failure ends the dispatch.                             *)
RestAfterAborting(e, u, ok) == IF ok THEN todo[e] \ {u} ELSE {}

RestAfter(e, u, ok) == todo[e] \ {u}

(* sendDigest for one user: the statistics, then the mail. A failure is     *)
(* logged and counted.                                                      *)
SendDigest(e, u, ok) ==
  /\ digest[e] = "sending" /\ u \in todo[e]
  /\ ok \/ "mail" \in DigestFaults
  /\ todo' = [todo EXCEPT ![e] = RestAfter(e, u, ok)]
  /\ mails' = IF ok THEN [mails EXCEPT ![u] = @ + 1] ELSE mails
  /\ missed' = IF ok THEN missed ELSE missed \cup {u}
  /\ UNCHANGED <<week, window, due, digest, lastSent, stateFile, lost>>

(* The engine is told to stop: the context fails the rest of the mails.     *)
StopSending(e) ==
  /\ digest[e] = "sending" /\ todo[e] # {}
  /\ todo' = [todo EXCEPT ![e] = {}]
  /\ missed' = missed \cup todo[e]
  /\ UNCHANGED <<week, window, due, digest, lastSent, stateFile, mails, lost>>

(* lastSent is set whatever failed, then persistLastSent writes the file.   *)
RecordSent(e, written) ==
  /\ digest[e] = "sending" /\ todo[e] = {}
  /\ digest' = [digest EXCEPT ![e] = "waiting"]
  /\ lastSent' = [lastSent EXCEPT ![e] = week]
  /\ \/ written /\ stateFile' = [stateFile EXCEPT ![e] = week] /\ UNCHANGED lost
     \/ ~written /\ "write" \in DigestFaults /\ lost < MaxLost /\ lost' = lost + 1
        /\ UNCHANGED stateFile
  /\ UNCHANGED <<week, window, due, todo, mails, missed>>

(* The process ends, in good order when it waits.                           *)
StopEngine(e) ==
  /\ digest[e] = "waiting" \/ (digest[e] = "sending" /\ "kill" \in DigestFaults /\ lost < MaxLost)
  /\ lost' = IF digest[e] = "sending" THEN lost + 1 ELSE lost
  /\ digest' = [digest EXCEPT ![e] = "stopped"]
  /\ todo' = [todo EXCEPT ![e] = {}] /\ due' = [due EXCEPT ![e] = FALSE]
  /\ UNCHANGED <<week, window, lastSent, stateFile, mails, missed>>

(* Mutant: the file is not read.                                            *)
LoadLastSentNever(e, keeps) == 0

LoadLastSent(e, keeps) == IF keeps THEN stateFile[e] ELSE 0

(* A new process, on the same machine or on one without the file, checks at *)
(* once.                                                                    *)
StartEngine(e, keeps) ==
  /\ digest[e] = "stopped"
  /\ keeps \/ ("disk" \in DigestFaults /\ lost < MaxLost)
  /\ lost' = IF keeps THEN lost ELSE lost + 1
  /\ digest' = [digest EXCEPT ![e] = "waiting"] /\ due' = [due EXCEPT ![e] = window]
  /\ lastSent' = [lastSent EXCEPT ![e] = LoadLastSent(e, keeps)]
  /\ stateFile' = [stateFile EXCEPT ![e] = LoadLastSent(e, keeps)]
  /\ UNCHANGED <<week, window, todo, mails, missed>>

DigestNext ==
  \/ WindowOpens \/ WindowCloses
  \/ \E e \in Engines :
       \/ MaybeDispatch(e) \/ StopSending(e) \/ StopEngine(e)
       \/ \E ok \in BOOLEAN : RecordSent(e, ok) \/ StartEngine(e, ok)
       \/ \E u \in Recipients, ok \in BOOLEAN : SendDigest(e, u, ok)

DigestSpec == DigestInit /\ [][DigestNext]_digestVars

-----------------------------------------------------------------------------
DigestTypeOK ==
  /\ week \in 0..MaxWeek /\ window \in BOOLEAN /\ due \in [Engines -> BOOLEAN]
  /\ digest \in [Engines -> {"stopped", "waiting", "sending"}]
  /\ todo \in [Engines -> SUBSET Recipients]
  /\ lastSent \in [Engines -> 0..MaxWeek] /\ stateFile \in [Engines -> 0..MaxWeek]
  /\ mails \in [Recipients -> Nat] /\ missed \subseteq Recipients /\ lost \in 0..MaxLost

(* A user gets the digest of a week once from each engine, and again only   *)
(* for each time that the record of a dispatch was lost: the process was    *)
(* killed before it, or the file was not written or not there (the comment  *)
(* on DigestScheduler promises no duplicates over restarts).                *)
DigestRepeatsNeedLoss == \A u \in Recipients : mails[u] <= Cardinality(Engines) + lost

(* When a dispatch is over and recorded, every user has the digest, but for *)
(* those whose own mail failed, and those the shutdown left over.           *)
DigestReachesAll ==
  \A e \in Engines :
    lastSent[e] = week /\ week > 0 =>
      \A u \in Recipients : mails[u] >= 1 \/ u \in missed
=============================================================================
