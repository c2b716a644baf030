------------------------------ MODULE KeyCache ------------------------------
(***************************************************************************)
(* The public keys a gateway validates tokens with. A token names its key; *)
(* a key that is not in the map makes the request fetch the key set of the *)
(* user pool, and requests that miss at the same time share one fetch      *)
(* (singleflight), which runs in the context of the first of them. Keys    *)
(* are added to the map and never removed.                                 *)
(***************************************************************************)
EXTENDS Naturals, FiniteSets

CONSTANTS
  Kids,        \* key ids the pool ever uses
  Clients,     \* clients, with one request at a time
  KeyFaults    \* fetch: the fetch fails;  leave: the client goes away

ASSUME KeyCacheAssumption ==
  /\ IsFiniteSet(Kids) /\ IsFiniteSet(Clients) /\ KeyFaults \subseteq {"fetch", "leave"}

VARIABLES
  published,  \* the pool's key set
  retired,    \* keys that were in it
  keys,       \* the map
  flight,     \* the fetch under way: its leader, and the set the pool answered with
  request,    \* request[c]: where it is and the key of its token
  steady,     \* requests whose key has been published since they came (history)
  cause       \* requests whose fetch failed, or was answered before they joined it (history)

keyVars == <<published, retired, keys, flight, request, steady, cause>>

Resting == {"none", "accepted", "refused"}
NoFlight == [on |-> FALSE, leader |-> "none", answered |-> FALSE, set |-> {}]
Members == {c \in Clients : request[c].at = "waiting"}

KeyCacheInit ==
  /\ published = {} /\ retired = {} /\ keys = {}
  /\ flight = NoFlight
  /\ request = [c \in Clients |-> [at |-> "none", kid |-> "none"]]
  /\ steady = {} /\ cause = {}

PublishKey(k) ==
  /\ k \notin published \cup retired
  /\ published' = published \cup {k}
  /\ UNCHANGED <<retired, keys, flight, request, steady, cause>>

RetireKey(k) ==
  /\ k \in published
  /\ published' = published \ {k} /\ retired' = retired \cup {k}
  /\ steady' = {c \in steady : request[c].kid # k}
  /\ UNCHANGED <<keys, flight, request, cause>>

(* ValidateToken of a token the pool has signed: the key is looked up under *)
(* the read lock.                                                           *)
LookUp(c, k) ==
  /\ request[c].at \in Resting /\ k \in published \cup retired
  /\ request' = [request EXCEPT ![c] = [at |-> IF k \in keys THEN "accepted" ELSE "missed", kid |-> k]]
  /\ steady' = IF k \in published THEN steady \cup {c} ELSE steady \ {c}
  /\ cause' = cause \ {c}
  /\ UNCHANGED <<published, retired, keys, flight>>

(* singleflight.Do: the first starts a fetch, the others wait for it.       *)
Join(c) ==
  /\ request[c].at = "missed"
  /\ request' = [request EXCEPT ![c].at = "waiting"]
  /\ flight' = IF flight.on THEN flight ELSE [NoFlight EXCEPT !.on = TRUE, !.leader = c]
  /\ cause' = IF flight.answered THEN cause \cup {c} ELSE cause
  /\ UNCHANGED <<published, retired, keys, steady>>

(* The pool answers with its set of that moment.                            *)
PoolAnswers ==
  /\ flight.on /\ ~flight.answered
  /\ flight' = [flight EXCEPT !.answered = TRUE, !.set = published]
  /\ UNCHANGED <<published, retired, keys, request, steady, cause>>

(* Mutant: singleflight does not forget the call.                           *)
ReleaseKeepingFlight(at) ==
  /\ request' = [c \in Clients |->
       IF c \in Members THEN [request[c] EXCEPT !.at = at] ELSE request[c]]
  /\ UNCHANGED flight

Release(at) ==
  /\ request' = [c \in Clients |->
       IF c \in Members THEN [request[c] EXCEPT !.at = at] ELSE request[c]]
  /\ flight' = NoFlight

(* Mutant: the keys are loaded once.                                        *)
RefreshKeysOnce ==
  /\ flight.answered
  /\ keys' = IF keys = {} THEN flight.set ELSE keys
  /\ Release("again")
  /\ UNCHANGED <<published, retired, steady, cause>>

RefreshKeys ==
  /\ flight.answered
  /\ keys' = keys \cup flight.set
  /\ Release("again")
  /\ UNCHANGED <<published, retired, steady, cause>>

(* An error of the fetch is everyone's error, also when it is no more than  *)
(* that the client of the leader went away.                                 *)
RefreshFails ==
  /\ flight.on /\ KeyFaults # {}
  /\ cause' = cause \cup Members
  /\ Release("refused")
  /\ UNCHANGED <<published, retired, keys, steady>>

LookAgain(c) ==
  /\ request[c].at = "again"
  /\ request' = [request EXCEPT ![c].at = IF request[c].kid \in keys
                                          THEN "accepted" ELSE "refused"]
  /\ UNCHANGED <<published, retired, keys, flight, steady, cause>>

KeyCacheNext ==
  \/ \E k \in Kids : PublishKey(k) \/ RetireKey(k) \/ \E c \in Clients : LookUp(c, k)
  \/ \E c \in Clients : Join(c) \/ LookAgain(c)
  \/ PoolAnswers \/ RefreshKeys \/ RefreshFails

KeyCacheSpec == KeyCacheInit /\ [][KeyCacheNext]_keyVars

-----------------------------------------------------------------------------
(* Types; whoever waits waits for a fetch, which its leader waits for.      *)
KeyCacheTypeOK ==
  /\ published \cup retired \cup keys \subseteq Kids /\ published \cap retired = {}
  /\ keys \subseteq published \cup retired
  /\ flight.on \in BOOLEAN /\ flight.answered \in BOOLEAN /\ flight.set \subseteq Kids
  /\ \A c \in Clients : /\ request[c].at \in Resting \cup {"missed", "waiting", "again"}
                        /\ request[c].kid \in Kids \cup {"none"}
  /\ flight.on => flight.leader \in Members
  /\ Members # {} => flight.on
  /\ steady \subseteq Clients /\ cause \subseteq Clients

(* A request whose key was in the pool's set from when it came until it was *)
(* answered is refused only when the fetch it waited for failed, or when it *)
(* joined a fetch that the pool had answered before: after a rotation of    *)
(* keys no other request with the new key is turned away.                   *)
KeyRefusedForCause ==
  \A c \in Clients : request[c].at = "refused" /\ c \in steady => c \in cause
=============================================================================
