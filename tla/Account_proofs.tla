--------------------------- MODULE Account_proofs ---------------------------
(***************************************************************************)
(* Proofs about the services of the account that share nothing: KeyCache,  *)
(* RateLimits and Salaries, and about MCAccount, whose behaviours are each *)
(* a behaviour of every one of them. The proofs about the resumes are in   *)
(* Resumes_proofs.                                                         *)
(***************************************************************************)
EXTENDS MCAccount, Resumes_proofs, SequenceTheorems, TLAPS

(***************************************************************************)
(* Proofs about KeyCache, for any keys and any number of clients.          *)
(*                                                                         *)
(* That a refusal has a cause is not inductive: it depends on what the     *)
(* shared fetch brings to whoever waits for it. CacheInv follows a request *)
(* whose key stays in the pool's set through the fetch and back.           *)
(***************************************************************************)

Places == Resting \cup {"missed", "waiting", "again"}

CacheTypes ==
  /\ published \subseteq Kids /\ retired \subseteq Kids /\ published \cap retired = {}
  /\ keys \subseteq published \cup retired
  /\ flight \in [on : BOOLEAN, leader : Clients \cup {"none"}, answered : BOOLEAN, set : SUBSET Kids]
  /\ flight.set \subseteq published \cup retired
  /\ request \in [Clients -> [at : Places, kid : Kids \cup {"none"}]]
  /\ steady \subseteq Clients /\ cause \subseteq Clients

(* A fetch has a leader who waits for it, and nobody waits without a fetch. *)
FlightInv ==
  /\ flight.on => flight.leader \in Members
  /\ Members # {} => flight.on
  /\ flight.answered => flight.on

(* Where the key of a steady request without a cause is: in the pool's set, *)
(* in the answer to the fetch it waits for, and then in the map.            *)
KeyInv ==
  \A c \in steady :
    /\ request[c].kid \in published
    /\ c \notin cause =>
         /\ request[c].at = "waiting" /\ flight.answered => request[c].kid \in flight.set
         /\ request[c].at = "again" => request[c].kid \in keys
         /\ request[c].at # "refused"

CacheInv == CacheTypes /\ FlightInv /\ KeyInv

-----------------------------------------------------------------------------
LEMMA CacheInvInit == KeyCacheInit => CacheInv
  BY DEF KeyCacheInit, CacheInv, CacheTypes, FlightInv, KeyInv, NoFlight, Members, Places, Resting

LEMMA PublishKeyKeeps ==
  ASSUME CacheInv, NEW k \in Kids, PublishKey(k) PROVE CacheInv'
  BY DEF PublishKey, CacheInv, CacheTypes, FlightInv, KeyInv, Members

LEMMA RetireKeyKeeps ==
  ASSUME CacheInv, NEW k \in Kids, RetireKey(k) PROVE CacheInv'
  BY DEF RetireKey, CacheInv, CacheTypes, FlightInv, KeyInv, Members

(* A new look-up is none of those who wait.                                 *)
LEMMA LookUpKeeps ==
  ASSUME CacheInv, NEW k \in Kids, NEW c \in Clients, LookUp(c, k) PROVE CacheInv'
<1>1. CacheTypes'
  BY DEF LookUp, CacheInv, CacheTypes, Places, Resting
<1>2. \A d \in Clients : d # c => request'[d] = request[d]
  BY DEF LookUp, CacheInv, CacheTypes
<1>3. /\ request[c].at \in Resting /\ request'[c].at \in {"accepted", "missed"}
      /\ request'[c].kid = k
  BY DEF LookUp, CacheInv, CacheTypes
<1>4. Members' = Members
  BY <1>2, <1>3 DEF Members, Resting
<1>5. FlightInv'
  BY <1>4 DEF FlightInv, LookUp, CacheInv
<1>6. KeyInv'
  BY <1>2, <1>3 DEF KeyInv, LookUp, CacheInv, CacheTypes
<1> QED BY <1>1, <1>5, <1>6 DEF CacheInv

(* Who joins a fetch that was answered has a cause from then on.            *)
LEMMA JoinKeeps ==
  ASSUME CacheInv, NEW c \in Clients, Join(c) PROVE CacheInv'
<1>1. CacheTypes'
  BY DEF Join, CacheInv, CacheTypes, Places, Resting, NoFlight
<1>2. \A d \in Clients : d # c => request'[d] = request[d]
  BY DEF Join, CacheInv, CacheTypes
<1>3. request'[c].at = "waiting" /\ request'[c].kid = request[c].kid
  BY DEF Join, CacheInv, CacheTypes
<1>4. Members' = Members \cup {c}
  BY <1>2, <1>3 DEF Members
<1>5. FlightInv'
  BY <1>4 DEF FlightInv, Join, CacheInv, CacheTypes, NoFlight
<1>6. KeyInv'
  BY <1>2, <1>3 DEF KeyInv, FlightInv, Join, CacheInv, CacheTypes, NoFlight
<1> QED BY <1>1, <1>5, <1>6 DEF CacheInv

(* The answer has every key that is published.                              *)
LEMMA PoolAnswersKeeps ==
  ASSUME CacheInv, PoolAnswers PROVE CacheInv'
<1>1. CacheTypes'
  BY DEF PoolAnswers, CacheInv, CacheTypes
<1>2. FlightInv'
  BY DEF FlightInv, PoolAnswers, CacheInv, CacheTypes, Members
<1>3. KeyInv'
  BY DEF KeyInv, PoolAnswers, CacheInv, CacheTypes
<1> QED BY <1>1, <1>2, <1>3 DEF CacheInv

(* After a release there is no fetch and nobody waits.                      *)
LEMMA Released ==
  ASSUME CacheInv, NEW to \in {"again", "refused"}, Release(to)
  PROVE  /\ request' \in [Clients -> [at : Places, kid : Kids \cup {"none"}]]
         /\ \A c \in Clients :
              /\ request'[c].kid = request[c].kid
              /\ request'[c].at = IF c \in Members THEN to ELSE request[c].at
         /\ FlightInv'
<1>1. /\ request' \in [Clients -> [at : Places, kid : Kids \cup {"none"}]]
      /\ \A c \in Clients :
           /\ request'[c].kid = request[c].kid
           /\ request'[c].at = IF c \in Members THEN to ELSE request[c].at
  BY DEF Release, CacheInv, CacheTypes, Places, Resting
<1>2. Members' = {}
  BY <1>1 DEF Members
<1>3. flight' = NoFlight
  BY DEF Release
<1> QED BY <1>1, <1>2, <1>3 DEF FlightInv, NoFlight

LEMMA RefreshKeysKeeps ==
  ASSUME CacheInv, RefreshKeys PROVE CacheInv'
<1> USE DEF RefreshKeys
<1>1. CacheTypes'
  BY Released DEF CacheInv, CacheTypes, Release, NoFlight
<1>2. KeyInv'
  BY Released DEF KeyInv, CacheInv, CacheTypes, Members, Release, NoFlight
<1> QED BY <1>1, <1>2, Released DEF CacheInv

LEMMA RefreshFailsKeeps ==
  ASSUME CacheInv, RefreshFails PROVE CacheInv'
<1> USE DEF RefreshFails
<1>1. CacheTypes'
  BY Released DEF CacheInv, CacheTypes, Release, NoFlight, Members
<1>2. KeyInv'
  BY Released DEF KeyInv, CacheInv, CacheTypes, Release, NoFlight
<1> QED BY <1>1, <1>2, Released DEF CacheInv

LEMMA LookAgainKeeps ==
  ASSUME CacheInv, NEW c \in Clients, LookAgain(c) PROVE CacheInv'
<1>1. CacheTypes'
  BY DEF LookAgain, CacheInv, CacheTypes, Places, Resting
<1>2. \A d \in Clients : d # c => request'[d] = request[d]
  BY DEF LookAgain, CacheInv, CacheTypes
<1>3. /\ request'[c].kid = request[c].kid /\ request[c].at = "again"
      /\ request'[c].at = IF request[c].kid \in keys THEN "accepted" ELSE "refused"
  BY DEF LookAgain, CacheInv, CacheTypes
<1>4. Members' = Members
  BY <1>2, <1>3 DEF Members
<1>5. FlightInv'
  BY <1>4 DEF FlightInv, LookAgain, CacheInv
<1>6. KeyInv'
  BY <1>2, <1>3 DEF KeyInv, LookAgain, CacheInv, CacheTypes
<1> QED BY <1>1, <1>5, <1>6 DEF CacheInv

(* CacheInv holds in every state.                                           *)
THEOREM CacheInvariance == KeyCacheSpec => []CacheInv
<1>1. ASSUME CacheInv, [KeyCacheNext]_keyVars PROVE CacheInv'
  <2>1. CASE UNCHANGED keyVars
    BY <1>1, <2>1 DEF keyVars, CacheInv, CacheTypes, FlightInv, KeyInv, Members
  <2>2. CASE KeyCacheNext
    BY <1>1, <2>2, PublishKeyKeeps, RetireKeyKeeps, LookUpKeeps, JoinKeeps, PoolAnswersKeeps,
       RefreshKeysKeeps, RefreshFailsKeeps, LookAgainKeeps DEF KeyCacheNext
  <2> QED BY <1>1, <2>1, <2>2
<1> QED BY <1>1, CacheInvInit, PTL DEF KeyCacheSpec

-----------------------------------------------------------------------------
(* The key cache keeps its types, and whoever waits in singleflight waits   *)
(* for a fetch that has a leader.                                           *)
THEOREM KeyCacheTypes == KeyCacheSpec => []KeyCacheTypeOK
<1>1. CacheInv => KeyCacheTypeOK
  BY DEF CacheInv, CacheTypes, FlightInv, KeyCacheTypeOK, Members, Places
<1> QED BY <1>1, CacheInvariance, PTL

(* ValidateToken turns away a token whose key stayed in the pool's set only *)
(* for a failed fetch, or one that had been answered before it joined, for  *)
(* any number of requests that share fetches and any rotation of the keys.  *)
THEOREM RefusedForCause == KeyCacheSpec => []KeyRefusedForCause
<1>1. CacheInv => KeyRefusedForCause
  BY DEF CacheInv, KeyInv, KeyRefusedForCause
<1> QED BY <1>1, CacheInvariance, PTL

-----------------------------------------------------------------------------
(***************************************************************************)
(* Proofs about RateLimits, for any limits, time zones, callers and time.  *)
(*                                                                         *)
(* That a date admits no more than its limit rests on the key of the date  *)
(* living as long as the date: DailyInv bounds from below the hour it      *)
(* expires, for as long as the user stays in one time zone.                *)
(***************************************************************************)

Keys == [count : Nat, expires : Nat]

LimitTypes ==
  /\ now \in 0..MaxHour /\ checked \subseteq Callers /\ moved \in BOOLEAN
  /\ settings \in [exists : BOOLEAN, limit : Limits \cup {DefaultLimit}, zone : Zones]
  /\ daily \in [Dates -> Keys] /\ boards \in [Dates -> Keys]
  /\ admitted \in [Dates -> Nat] /\ highest \in [Dates -> Nat]

(* The key of a date counts all that was admitted, and no more than a limit *)
(* that was in force. It was new at an hour of that date, so it lives past  *)
(* the date's last hour.                                                    *)
DailyInv ==
  ~moved => \A d \in Dates :
    /\ admitted[d] <= daily[d].count /\ daily[d].count <= highest[d]
    /\ daily[d].count > 0 => daily[d].expires > 0
    /\ daily[d].expires > 0 =>
         settings.exists /\ daily[d].expires + settings.zone > Day * d + Day

BoardInv == \A d \in Dates : boards[d].count <= BoardLimit

LimitInv == LimitTypes /\ DailyInv /\ BoardInv

-----------------------------------------------------------------------------
(* Every hour belongs to a date, in UTC and in the user's time zone.        *)
LEMMA DatesOfNow ==
  ASSUME LimitTypes
  PROVE  /\ now \in Nat /\ settings.zone \in 0..24
         /\ LocalDate \in Dates /\ now \div Day \in Dates
         /\ now + settings.zone < 24 * LocalDate + 24
         /\ 24 * LocalDate <= now + settings.zone
<1>1. now \in 0..MaxHour /\ settings.zone \in 0..24 /\ MaxHour \in Nat
  BY RateLimitsAssumption DEF LimitTypes, Day
<1> DEFINE n == now z == settings.zone
<1>2. ASSUME NEW h \in Nat PROVE h \div 24 \in Nat /\ 24 * (h \div 24) <= h /\ h < 24 * (h \div 24) + 24
  OBVIOUS
<1>3. ASSUME NEW h \in 0..(MaxHour + 24) PROVE h \div 24 \in Dates
  BY <1>1 DEF Dates, Day
<1>4. now + settings.zone \in 0..(MaxHour + 24) /\ now \in 0..(MaxHour + 24)
  BY <1>1
<1>5. LocalDate \in Dates /\ now \div Day \in Dates
  BY <1>3, <1>4 DEF LocalDate, Day
<1>6. now + settings.zone \in Nat
  BY <1>1
<1>7. now + settings.zone < 24 * LocalDate + 24 /\ 24 * LocalDate <= now + settings.zone
  BY <1>2, <1>6 DEF LocalDate, Day
<1> QED BY <1>1, <1>5, <1>7

LEMMA HoursPassKeeps == ASSUME LimitInv, HoursPass PROVE LimitInv'
  BY RateLimitsAssumption
  DEF HoursPass, dailyVars, LimitInv, LimitTypes, DailyInv, BoardInv, Keys

(* Preferences that are new find no date with a key; others keep the zone,  *)
(* or say that the user moved.                                              *)
LEMMA UpdatePreferencesKeeps ==
  ASSUME LimitInv, NEW limit \in Limits \cup {Omitted}, NEW zone \in Zones \cup {Omitted},
         UpdatePreferences(limit, zone)
  PROVE  LimitInv'
<1>1. LimitTypes'
  BY RateLimitsAssumption DEF UpdatePreferences, dailyVars, LimitInv, LimitTypes, Omitted
<1>2. ASSUME ~moved', NEW d \in Dates, daily[d].expires > 0
      PROVE  settings.exists /\ settings'.zone = settings.zone /\ settings'.exists /\ ~moved
  BY <1>2 DEF UpdatePreferences, LimitInv, LimitTypes, DailyInv
<1>3. moved' \/ ~moved
  BY DEF UpdatePreferences, LimitInv, LimitTypes
<1>5. DailyInv'
  BY <1>2, <1>3 DEF UpdatePreferences, dailyVars, LimitInv, DailyInv
<1>4. BoardInv'
  BY DEF UpdatePreferences, LimitInv, BoardInv
<1> QED BY <1>1, <1>4, <1>5 DEF LimitInv

(* A key that is new lives for an hour more than a day.                     *)
LEMMA CheckAndIncrementKeeps == ASSUME LimitInv, CheckAndIncrement PROVE LimitInv'
<1> DEFINE d == LocalDate  limit == IF settings.limit <= 0 THEN DefaultLimit ELSE settings.limit
<1>1. /\ d \in Dates /\ now \in Nat /\ settings.zone \in 0..24
      /\ now + settings.zone < 24 * d + 24 /\ 24 * d <= now + settings.zone
      /\ d \in Nat
  BY DatesOfNow DEF LimitInv, Dates
<1>2. limit \in Nat \ {0}
  <2>1. settings.limit \in Limits \cup {DefaultLimit}
    BY DEF LimitInv, LimitTypes
  <2>2. settings.limit \in Nat /\ DefaultLimit \in Nat \ {0}
    BY <2>1, RateLimitsAssumption
  <2> QED BY <2>2
<1>3. /\ daily[d] \in Keys /\ admitted[d] \in Nat /\ highest[d] \in Nat
      /\ daily[d].count \in Nat /\ daily[d].expires \in Nat
  BY <1>1 DEF LimitInv, LimitTypes, Keys
<1>4. /\ highest' = [highest EXCEPT ![d] = IF limit > @ THEN limit ELSE @]
      /\ highest' \in [Dates -> Nat] /\ highest'[d] >= limit
      /\ \A x \in Dates : highest'[x] >= highest[x]
  <2>1. highest' = [highest EXCEPT ![d] = IF limit > @ THEN limit ELSE @]
    BY DEF CheckAndIncrement
  <2> QED BY <2>1, <1>1, <1>2, <1>3 DEF LimitInv, LimitTypes
<1>5. UNCHANGED <<now, settings, moved, boards, checked>> /\ settings.exists
  BY DEF CheckAndIncrement
<1>6. CASE Count(daily[d]) < limit
  <2>1. /\ daily' = [daily EXCEPT ![d] = Incr(daily[d], 25)]
        /\ \/ admitted' = [admitted EXCEPT ![d] = admitted[d] + 1]
           \/ admitted' = admitted
    BY <1>6 DEF CheckAndIncrement, Today, Ttl
  <2>2. /\ Incr(daily[d], 25) \in Keys
        /\ now < daily[d].expires =>
             /\ Incr(daily[d], 25).count = daily[d].count + 1 /\ daily[d].count < limit
             /\ Incr(daily[d], 25).expires = daily[d].expires
        /\ now >= daily[d].expires =>
             Incr(daily[d], 25).count = 1 /\ Incr(daily[d], 25).expires = now + 25
    BY <1>1, <1>3, <1>6 DEF Incr, Count, Keys
  <2>3. /\ daily' \in [Dates -> Keys] /\ daily'[d] = Incr(daily[d], 25)
        /\ \A x \in Dates : x # d => daily'[x] = daily[x]
    BY <1>1, <2>1, <2>2 DEF LimitInv, LimitTypes
  <2>4. /\ admitted' \in [Dates -> Nat] /\ admitted'[d] <= admitted[d] + 1
        /\ \A x \in Dates : x # d => admitted'[x] = admitted[x]
    BY <1>1, <1>3, <2>1 DEF LimitInv, LimitTypes
  <2>5. LimitTypes'
    BY <1>4, <1>5, <2>3, <2>4 DEF LimitInv, LimitTypes
  <2>6. DailyInv'
    <3> SUFFICES ASSUME ~moved, NEW x \in Dates
                 PROVE  /\ admitted'[x] <= daily'[x].count /\ daily'[x].count <= highest'[x]
                        /\ daily'[x].count > 0 => daily'[x].expires > 0
                        /\ daily'[x].expires > 0 =>
                             daily'[x].expires + settings.zone > 24 * x + 24
      BY <1>5 DEF DailyInv, Day
    <3>1. /\ admitted[x] <= daily[x].count /\ daily[x].count <= highest[x]
          /\ daily[x].count > 0 => daily[x].expires > 0
          /\ daily[x].expires > 0 => daily[x].expires + settings.zone > 24 * x + 24
      BY DEF LimitInv, DailyInv, Day
    <3>2. /\ daily[x].count \in Nat /\ highest[x] \in Nat /\ admitted[x] \in Nat
          /\ highest'[x] \in Nat /\ admitted'[x] \in Nat
      BY <1>4, <2>4 DEF LimitInv, LimitTypes, Keys
    <3>3. CASE x # d
      BY <3>1, <3>2, <3>3, <1>4, <2>3, <2>4
    <3>4. CASE x = d
      <4>1. CASE now < daily[d].expires
        BY <3>1, <3>2, <3>4, <4>1, <1>1, <1>2, <1>3, <1>4, <2>2, <2>3, <2>4
      <4>2. CASE now >= daily[d].expires
        <5>1. daily[d].count = 0 /\ admitted[d] = 0
          BY <3>1, <3>2, <3>4, <4>2, <1>1, <1>3
        <5> QED BY <3>2, <3>4, <4>2, <5>1, <1>1, <1>2, <1>4, <2>2, <2>3, <2>4
      <4> QED BY <4>1, <4>2, <1>1, <1>3
    <3> QED BY <3>3, <3>4
  <2> QED BY <1>5, <2>5, <2>6 DEF LimitInv, BoardInv
<1>7. CASE ~(Count(daily[d]) < limit)
  <2>1. daily' = daily /\ admitted' = admitted
    BY <1>7 DEF CheckAndIncrement, Today
  <2>2. \A x \in Dates : daily[x].count \in Nat /\ highest[x] \in Nat /\ highest'[x] \in Nat
    BY <1>4 DEF LimitInv, LimitTypes, Keys
  <2> QED BY <1>4, <1>5, <2>1, <2>2 DEF LimitInv, LimitTypes, DailyInv, BoardInv
<1> QED BY <1>6, <1>7

LEMMA CheckKeeps == ASSUME LimitInv, NEW c \in Callers, Check(c) PROVE LimitInv'
  BY DEF Check, dailyVars, LimitInv, LimitTypes, DailyInv, BoardInv

(* The script checks again, whatever the caller was told.                   *)
LEMMA IncrementKeeps == ASSUME LimitInv, NEW c \in Callers, Increment(c) PROVE LimitInv'
<1> DEFINE d == now \div Day  ttl == (Day - (now % Day)) + 1
<1>1. d \in Dates /\ now \in Nat
  BY DatesOfNow DEF LimitInv
<1>2. ttl \in Nat
  BY <1>1 DEF Day
<1>3. boards[d] \in Keys /\ boards[d].count \in Nat /\ boards[d].expires \in Nat
  BY <1>1 DEF LimitInv, LimitTypes, Keys
<1>4. /\ checked' \subseteq Callers
      /\ UNCHANGED <<now, settings, daily, admitted, highest, moved>>
  BY DEF Increment, dailyVars, LimitInv, LimitTypes
<1>5. CASE Count(boards[d]) < BoardLimit
  <2>1. boards' = [boards EXCEPT ![d] = Incr(boards[d], ttl)]
    BY <1>5 DEF Increment
  <2>2. Incr(boards[d], ttl) \in Keys /\ Incr(boards[d], ttl).count <= BoardLimit
    <3> HIDE DEF ttl
    <3> QED BY <1>1, <1>2, <1>3, <1>5, RateLimitsAssumption DEF Incr, Count, Keys
  <2>3. boards' \in [Dates -> Keys] /\ BoardInv'
    BY <1>1, <2>1, <2>2 DEF LimitInv, LimitTypes, BoardInv
  <2> QED BY <1>4, <2>3 DEF LimitInv, LimitTypes, DailyInv
<1>6. CASE ~(Count(boards[d]) < BoardLimit)
  <2>1. boards' = boards
    BY <1>6 DEF Increment
  <2> QED BY <1>4, <2>1 DEF LimitInv, LimitTypes, DailyInv, BoardInv
<1> QED BY <1>5, <1>6

LEMMA IncrementFailsKeeps == ASSUME LimitInv, NEW c \in Callers, IncrementFails(c) PROVE LimitInv'
  BY DEF IncrementFails, dailyVars, LimitInv, LimitTypes, DailyInv, BoardInv

LEMMA LimitInvInit == LimitsInit => LimitInv
<1>1. LimitsInit => LimitTypes
  <2>1. 0 \in 0..MaxHour /\ 0 \in Zones
    BY RateLimitsAssumption
  <2>2. NoKey \in Keys
    BY DEF NoKey, Keys
  <2> SUFFICES ASSUME LimitsInit PROVE LimitTypes
    OBVIOUS
  <2>3. settings \in [exists : BOOLEAN, limit : Limits \cup {DefaultLimit}, zone : Zones]
    BY <2>1 DEF LimitsInit
  <2>4. daily \in [Dates -> Keys] /\ boards \in [Dates -> Keys]
    BY <2>2 DEF LimitsInit
  <2> QED BY <2>1, <2>3, <2>4 DEF LimitsInit, LimitTypes
<1>2. LimitsInit => DailyInv /\ BoardInv
  BY RateLimitsAssumption DEF LimitsInit, DailyInv, BoardInv, NoKey
<1> QED BY <1>1, <1>2 DEF LimitInv

LEMMA LimitInvNext == LimitInv /\ [LimitsNext]_limitVars => LimitInv'
<1> SUFFICES ASSUME LimitInv, [LimitsNext]_limitVars PROVE LimitInv'
  OBVIOUS
<1>1. CASE HoursPass
  BY <1>1, HoursPassKeeps
<1>2. CASE CheckAndIncrement
  BY <1>2, CheckAndIncrementKeeps
<1>3. ASSUME NEW limit \in Limits \cup {Omitted}, NEW zone \in Zones \cup {Omitted},
             UpdatePreferences(limit, zone)
      PROVE  LimitInv'
  BY <1>3, UpdatePreferencesKeeps
<1>4. ASSUME NEW c \in Callers, Check(c) \/ Increment(c) \/ IncrementFails(c)
      PROVE  LimitInv'
  BY <1>4, CheckKeeps, IncrementKeeps, IncrementFailsKeeps
<1>5. CASE UNCHANGED limitVars
  BY <1>5 DEF limitVars, dailyVars, LimitInv, LimitTypes, DailyInv, BoardInv
<1> QED BY <1>1, <1>2, <1>3, <1>4, <1>5 DEF LimitsNext, DailyNext, BoardNext

(* The types, the daily keys and the board's keys hold in every behaviour.  *)
THEOREM LimitInvariance == LimitsSpec => []LimitInv
  BY LimitInvInit, LimitInvNext, PTL DEF LimitsSpec

(* LimitHeld: whatever the limits and the time zone, a local date admits no *)
(* more submissions than the highest limit that was in force on it while    *)
(* the user stays in one zone, although settings change, answers are lost   *)
(* and the key expires; and any number of callers together stay within the  *)
(* board's limit.                                                           *)
THEOREM LimitsAreHeld == LimitsSpec => []LimitHeld
<1>1. LimitInv => LimitHeld
  <2> SUFFICES ASSUME LimitInv PROVE LimitHeld
    OBVIOUS
  <2>1. ASSUME ~moved, NEW d \in Dates PROVE admitted[d] <= highest[d]
    <3>1. admitted[d] \in Nat /\ highest[d] \in Nat /\ daily[d].count \in Nat
      BY DEF LimitInv, LimitTypes, Keys
    <3>2. admitted[d] <= daily[d].count /\ daily[d].count <= highest[d]
      BY <2>1 DEF LimitInv, DailyInv
    <3> QED BY <3>1, <3>2
  <2> QED BY <2>1 DEF LimitInv, BoardInv, LimitHeld
<1> QED BY <1>1, LimitInvariance, PTL

-----------------------------------------------------------------------------
(***************************************************************************)
(* Proofs about Salaries, for any rows, currencies, offers and number of   *)
(* readers.                                                                *)
(*                                                                         *)
(* That an answer is stale by a day at most depends on the copy in Redis,  *)
(* and that on the request that writes it: between its read of the row and *)
(* its write of the copy no hour passes, so a row that was replaced        *)
(* meanwhile was replaced in this hour.                                    *)
(***************************************************************************)

Positions == {"above", "at", "below", "unknown"}

ReaderState ==
  [at : {"none", "cache", "db", "set", "answered"}, offer : Offers, version : Nat,
   position : Positions, stale : Int]

SalaryTypes ==
  /\ hour \in 0..LastHour
  /\ stored \in Seq(Samples) /\ Len(stored) <= MaxRows
  /\ replaced \in Seq(Int) /\ Len(replaced) = Len(stored)
  /\ copy \in [version : Nat, expires : Nat]
  /\ copy.version <= Len(stored) /\ copy.expires <= hour + CacheTTL
  /\ reader \in [Readers -> ReaderState]

(* A version is a row of the table, or was replaced in the past.            *)
VersionInv == \A v \in 1..Len(stored) : Stands(v) \/ replaced[v] \in 0..hour

(* A copy c rests on enough samples, and is gone a day after its version    *)
(* was replaced.                                                            *)
CopyIsFresh(c) ==
  c.version \in 1..Len(stored) =>
    /\ stored[c.version].count >= MinSamples
    /\ Stands(c.version) \/ c.expires <= replaced[c.version] + CacheTTL

CopyInv == CopyIsFresh(copy)

ReaderInv(s) ==
  /\ s.version <= Len(stored)
  /\ s.version # 0 => stored[s.version].count >= MinSamples
  /\ s.at = "set" => s.version # 0 /\ (Stands(s.version) \/ replaced[s.version] = hour)
  /\ s.at = "answered" => /\ s.position = CompareToMarket(s.offer, s.version)
                          /\ s.stale <= 24

SalaryInv == SalaryTypes /\ VersionInv /\ CopyInv /\ \A q \in Readers : ReaderInv(reader[q])

-----------------------------------------------------------------------------
(* A version of the row is one of the samples, and stays what it is when    *)
(* the row is replaced.                                                     *)
LEMMA VersionIsSample ==
  ASSUME SalaryTypes, NEW v \in 1..Len(stored)
  PROVE  /\ stored[v] \in Samples /\ stored[v].count \in Nat /\ stored[v].median \in Nat
<1>1. stored[v] \in Samples
  BY DEF SalaryTypes
<1> QED BY <1>1, SalariesAssumption

LEMMA Compared ==
  ASSUME SalaryTypes, NEW offer \in Offers, NEW v \in 0..Len(stored)
  PROVE  /\ CompareToMarket(offer, v) \in Positions
         /\ v # 0 => CompareToMarket(offer, v) \in {"above", "at", "below"}
<1>1. CompareToMarket(offer, 0) = "unknown"
  BY DEF CompareToMarket
<1>2. ASSUME v # 0 PROVE CompareToMarket(offer, v) \in {"above", "at", "below"}
  <2> DEFINE median == stored[v].median  mid == (offer.min + offer.max) \div 2
             threshold == median \div 10
  <2>1. CompareToMarket(offer, v) = IF mid > median + threshold THEN "above"
                                    ELSE IF mid < median - threshold THEN "below" ELSE "at"
    BY <1>2 DEF CompareToMarket
  <2> HIDE DEF median, mid, threshold
  <2> QED BY <2>1
<1> QED BY <1>1, <1>2 DEF Positions

(* The higher of two ranges is not placed lower: half of a sum and the      *)
(* thresholds of one median.                                                *)
Rank(p) == IF p = "below" THEN 1 ELSE IF p = "at" THEN 2 ELSE 3

LEMMA HigherNotLower ==
  ASSUME SalaryTypes, NEW a \in Offers, NEW b \in Offers, NEW v \in 1..Len(stored),
         a.min + a.max <= b.min + b.max
  PROVE  Rank(CompareToMarket(a, v)) <= Rank(CompareToMarket(b, v))
<1> DEFINE median == stored[v].median  threshold == median \div 10
           m == (a.min + a.max) \div 2  n == (b.min + b.max) \div 2
<1>1. a.min \in Nat /\ a.max \in Nat /\ b.min \in Nat /\ b.max \in Nat /\ median \in Nat
  BY SalariesAssumption, VersionIsSample
<1>2. m \in Int /\ n \in Int /\ threshold \in Int /\ m <= n
  <2>1. \A x \in Int, y \in Int : x <= y => x \div 2 \in Int /\ y \div 2 \in Int /\ x \div 2 <= y \div 2
    OBVIOUS
  <2>2. a.min + a.max \in Int /\ b.min + b.max \in Int
    BY <1>1
  <2>3. m \in Int /\ n \in Int /\ m <= n
    BY <2>1, <2>2
  <2>4. threshold \in Int
    BY <1>1
  <2> QED BY <2>3, <2>4
<1>3. v # 0
  BY DEF SalaryTypes
<1>4. /\ CompareToMarket(a, v) = IF m > median + threshold THEN "above"
                                 ELSE IF m < median - threshold THEN "below" ELSE "at"
      /\ CompareToMarket(b, v) = IF n > median + threshold THEN "above"
                                 ELSE IF n < median - threshold THEN "below" ELSE "at"
  BY <1>3 DEF CompareToMarket
<1> HIDE DEF median, threshold, m, n
<1>5. m > median + threshold => n > median + threshold
  BY <1>1, <1>2
<1>6. n < median - threshold => m < median - threshold
  BY <1>1, <1>2
<1> QED BY <1>4, <1>5, <1>6 DEF Rank

-----------------------------------------------------------------------------
(* A step of one request, of the row, or of time.                           *)
LEMMA ReaderMoves ==
  ASSUME SalaryInv, NEW q \in Readers, NEW s \in ReaderState, ReaderInv(s),
         reader' = [reader EXCEPT ![q] = s], UNCHANGED <<hour, stored, replaced>>,
         copy' \in [version : Nat, expires : Nat],
         copy'.version <= Len(stored), copy'.expires <= hour + CacheTTL,
         CopyIsFresh(copy')
  PROVE  SalaryInv'
<1>1. SalaryTypes'
  BY DEF SalaryInv, SalaryTypes
<1>2. \A p \in Readers : ReaderInv(reader'[p])
  BY DEF SalaryInv, SalaryTypes
<1>3. \A p \in Readers : ReaderInv(reader[p])'
  BY <1>2 DEF ReaderInv, CompareToMarket, Stands
<1>4. VersionInv' /\ CopyInv'
  BY DEF SalaryInv, VersionInv, CopyInv, CopyIsFresh, Stands
<1> QED BY <1>1, <1>3, <1>4 DEF SalaryInv

(* Answer with a version that is not stale for more than a day.             *)
LEMMA AnswerKeeps ==
  ASSUME SalaryInv, NEW q \in Readers, NEW v \in 0..Len(stored), Answer(q, v),
         v # 0 => /\ stored[v].count >= MinSamples
                  /\ Stands(v) \/ hour - replaced[v] <= 24,
         UNCHANGED <<hour, stored, replaced>>,
         copy' \in [version : Nat, expires : Nat],
         copy'.version <= Len(stored), copy'.expires <= hour + CacheTTL,
         CopyIsFresh(copy')
  PROVE  SalaryInv'
<1> DEFINE stale == IF v = 0 \/ Stands(v) THEN 0 ELSE hour - replaced[v]
           position == CompareToMarket(reader[q].offer, v)
           s == [reader[q] EXCEPT !.at = "answered", !.version = v, !.position = position,
                        !.stale = stale]
<1>1. /\ SalaryTypes /\ reader[q] \in ReaderState /\ reader[q].offer \in Offers
      /\ v # 0 => replaced[v] \in Int
      /\ hour \in Nat /\ Len(stored) \in Nat /\ v \in Nat
  <2>1. /\ SalaryTypes /\ reader[q] \in ReaderState /\ replaced \in Seq(Int)
        /\ stored \in Seq(Samples) /\ Len(replaced) = Len(stored)
    BY DEF SalaryInv, SalaryTypes
  <2>2. hour \in Nat
    BY SalariesAssumption DEF SalaryInv, SalaryTypes
  <2>3. Len(stored) \in Nat /\ v \in Nat /\ (v # 0 => replaced[v] \in Int)
    BY <2>1
  <2> QED BY <2>1, <2>2, <2>3 DEF ReaderState
<1>2. stale \in Int /\ stale <= 24
  BY <1>1
<1>3. position \in Positions
  BY <1>1, Compared
<1>4. reader' = [reader EXCEPT ![q] = s]
  BY <1>1 DEF Answer, SalaryTypes
<1> HIDE DEF stale, position
<1>5. /\ s \in ReaderState /\ s.at = "answered" /\ s.version = v /\ s.offer = reader[q].offer
      /\ s.position = position /\ s.stale = stale
  BY <1>1, <1>2, <1>3 DEF ReaderState
<1> HIDE DEF s
<1>6. ReaderInv(s)
  BY <1>1, <1>2, <1>5 DEF ReaderInv, position
<1> QED BY <1>4, <1>5, <1>6, ReaderMoves

LEMMA CopyAsItIs ==
  ASSUME SalaryInv
  PROVE  /\ copy \in [version : Nat, expires : Nat]
         /\ copy.version <= Len(stored) /\ copy.expires <= hour + CacheTTL
         /\ CopyIsFresh(copy)
  BY DEF SalaryInv, SalaryTypes, CopyInv

LEMMA GetBenchmarkKeeps ==
  ASSUME SalaryInv, NEW q \in Readers, NEW offer \in Offers, GetBenchmark(q, offer) PROVE SalaryInv'
<1> DEFINE s == Request("cache", offer)
<1>1. s \in ReaderState /\ s.at = "cache" /\ s.version = 0
  BY DEF Request, ReaderState, Positions
<1>2. ReaderInv(s)
  BY <1>1 DEF ReaderInv, SalaryInv, SalaryTypes
<1>3. /\ reader' = [reader EXCEPT ![q] = s]
      /\ UNCHANGED <<hour, stored, replaced, copy>>
  BY DEF GetBenchmark
<1> HIDE DEF s
<1> QED BY <1>1, <1>2, <1>3, CopyAsItIs, ReaderMoves

LEMMA ReadCopyKeeps ==
  ASSUME SalaryInv, NEW q \in Readers, ReadCopy(q) PROVE SalaryInv'
<1>1. /\ UNCHANGED <<hour, stored, replaced, copy>> /\ reader[q].at = "cache"
      /\ \/ hour < copy.expires /\ Answer(q, copy.version)
         \/ reader' = [reader EXCEPT ![q].at = "db"]
  BY DEF ReadCopy, Hit
<1>2. CASE hour < copy.expires /\ Answer(q, copy.version)
  <2>1. /\ copy.version \in 0..Len(stored) /\ hour \in Nat /\ copy.expires \in Nat
        /\ replaced \in Seq(Int) /\ Len(replaced) = Len(stored) /\ Len(stored) \in Nat
    BY SalariesAssumption DEF SalaryInv, SalaryTypes
  <2>2. copy.version # 0 => /\ stored[copy.version].count >= MinSamples
                            /\ Stands(copy.version) \/ hour - replaced[copy.version] <= 24
    BY <1>2, <2>1 DEF SalaryInv, CopyInv, CopyIsFresh, CacheTTL
  <2> QED BY <1>1, <1>2, <2>1, <2>2, CopyAsItIs, AnswerKeeps
<1>3. CASE reader' = [reader EXCEPT ![q].at = "db"]
  <2> DEFINE s == [reader[q] EXCEPT !.at = "db"]
  <2>1. reader[q] \in ReaderState /\ ReaderInv(reader[q]) /\ reader' = [reader EXCEPT ![q] = s]
    BY <1>3 DEF SalaryInv, SalaryTypes
  <2>2. s \in ReaderState /\ s.at = "db" /\ s.version = reader[q].version
    BY <2>1 DEF ReaderState
  <2> HIDE DEF s
  <2>3. ReaderInv(s)
    BY <2>1, <2>2 DEF ReaderInv
  <2> QED BY <1>1, <2>1, <2>2, <2>3, CopyAsItIs, ReaderMoves
<1> QED BY <1>1, <1>2, <1>3

LEMMA ReadRowKeeps ==
  ASSUME SalaryInv, NEW q \in Readers, ReadRow(q) PROVE SalaryInv'
<1>1. /\ UNCHANGED <<hour, stored, replaced, copy>>
      /\ \/ Answer(q, 0)
         \/ \E v \in DOMAIN stored :
              /\ Stands(v) /\ stored[v].count >= MinSamples
              /\ reader' = [reader EXCEPT ![q].at = "set", ![q].version = v]
  BY DEF ReadRow
<1>2. /\ reader[q] \in ReaderState /\ reader \in [Readers -> ReaderState] /\ 0 \in 0..Len(stored)
      /\ stored \in Seq(Samples)
  BY DEF SalaryInv, SalaryTypes
<1>3. CASE Answer(q, 0)
  BY <1>1, <1>2, <1>3, CopyAsItIs, AnswerKeeps
<1>4. ASSUME NEW v \in DOMAIN stored, Stands(v), stored[v].count >= MinSamples,
             reader' = [reader EXCEPT ![q].at = "set", ![q].version = v]
      PROVE  SalaryInv'
  <2> DEFINE s == [reader[q] EXCEPT !.at = "set", !.version = v]
  <2>1. v \in Nat /\ v # 0 /\ v <= Len(stored)
    BY <1>2
  <2>2. /\ s \in ReaderState /\ s.at = "set" /\ s.version = v
        /\ reader' = [reader EXCEPT ![q] = s]
    BY <1>2, <1>4, <2>1 DEF ReaderState
  <2> HIDE DEF s
  <2>3. ReaderInv(s)
    BY <1>4, <2>1, <2>2 DEF ReaderInv
  <2> QED BY <1>1, <2>2, <2>3, CopyAsItIs, ReaderMoves
<1> QED BY <1>1, <1>3, <1>4

LEMMA ReadRowFailsKeeps ==
  ASSUME SalaryInv, NEW q \in Readers, ReadRowFails(q) PROVE SalaryInv'
<1> DEFINE s == [reader[q] EXCEPT !.at = "none"]
<1>1. reader[q] \in ReaderState /\ ReaderInv(reader[q]) /\ reader' = [reader EXCEPT ![q] = s]
      /\ UNCHANGED <<hour, stored, replaced, copy>>
  BY DEF SalaryInv, SalaryTypes, ReadRowFails
<1>2. s \in ReaderState /\ s.at = "none" /\ s.version = reader[q].version
  BY <1>1 DEF ReaderState
<1> HIDE DEF s
<1>3. ReaderInv(s)
  BY <1>1, <1>2 DEF ReaderInv
<1> QED BY <1>1, <1>2, <1>3, CopyAsItIs, ReaderMoves

LEMMA SetCopyKeeps ==
  ASSUME SalaryInv, NEW q \in Readers, SetCopy(q) PROVE SalaryInv'
<1> DEFINE v == reader[q].version
           fresh == [version |-> v, expires |-> hour + CacheTTL]
<1>1. /\ UNCHANGED <<hour, stored, replaced>> /\ Answer(q, v)
      /\ copy' = fresh \/ copy' = copy
  BY DEF SetCopy
<1>2. /\ v \in Nat /\ v <= Len(stored) /\ hour \in Nat /\ Len(stored) \in Nat
      /\ v # 0 /\ stored[v].count >= MinSamples /\ (Stands(v) \/ replaced[v] = hour)
  BY SalariesAssumption DEF SetCopy, SalaryInv, SalaryTypes, ReaderState, ReaderInv
<1>3. v \in 0..Len(stored) /\ (Stands(v) \/ hour - replaced[v] <= 24)
  BY <1>2
<1>4. /\ fresh \in [version : Nat, expires : Nat]
      /\ fresh.version <= Len(stored) /\ fresh.expires <= hour + CacheTTL
      /\ CopyIsFresh(fresh)
  BY <1>2 DEF CacheTTL, CopyIsFresh
<1> HIDE DEF v, fresh
<1> QED BY <1>1, <1>2, <1>3, <1>4, CopyAsItIs, AnswerKeeps

(* A new row changes no version, and the one it replaces stood until this   *)
(* hour: what was read or copied of it is no more than a day old by then.   *)
LEMMA WriteRowKeeps ==
  ASSUME SalaryInv, NEW row \in Samples, WriteRow(row) PROVE SalaryInv'
<1> DEFINE n == Len(stored)
           taken(v) == Stands(v) /\ stored[v].currency = row.currency
           ends == [v \in DOMAIN stored |-> IF taken(v) THEN hour ELSE replaced[v]]
<1>1. /\ stored \in Seq(Samples) /\ n \in Nat /\ n < MaxRows /\ MaxRows \in Nat
      /\ replaced \in Seq(Int) /\ Len(replaced) = n
      /\ hour \in Nat /\ hour \in 0..LastHour
      /\ UNCHANGED <<hour, copy, reader>>
      /\ stored' = Append(stored, row) /\ replaced' = Append(ends, Standing)
  BY SalariesAssumption DEF WriteRow, SalaryInv, SalaryTypes
<1>2. /\ stored' \in Seq(Samples) /\ Len(stored') = n + 1
      /\ \A v \in 1..n : stored'[v] = stored[v]
  BY <1>1, AppendProperties
<1>3. /\ ends \in Seq(Int) /\ Len(ends) = n
      /\ \A v \in 1..n : ends[v] = IF taken(v) THEN hour ELSE replaced[v]
  <2>1. DOMAIN stored = 1..n /\ \A v \in 1..n : replaced[v] \in Int
    BY <1>1
  <2>2. ends \in [1..n -> Int] /\ \A v \in 1..n : ends[v] = IF taken(v) THEN hour ELSE replaced[v]
    BY <1>1, <2>1
  <2> HIDE DEF ends, taken
  <2>3. \A f \in [1..n -> Int] : f \in Seq(Int) /\ Len(f) = n
    BY <1>1
  <2> QED BY <2>2, <2>3
<1> HIDE DEF ends
<1>4. /\ replaced' \in Seq(Int) /\ Len(replaced') = n + 1 /\ replaced'[n + 1] = Standing
      /\ \A v \in 1..n : replaced'[v] = ends[v]
  BY <1>1, <1>3, AppendProperties DEF Standing
<1>5. \A v \in 1..n : replaced'[v] = replaced[v] \/ (replaced'[v] = hour /\ Stands(v))
  BY <1>3, <1>4
<1>6. SalaryTypes'
  BY <1>1, <1>2, <1>4 DEF SalaryInv, SalaryTypes
<1>7. VersionInv'
  <2> SUFFICES ASSUME NEW v \in 1..(n + 1) PROVE replaced'[v] = Standing \/ replaced'[v] \in 0..hour
    BY <1>1, <1>2 DEF VersionInv, Stands, Standing
  <2>1. CASE v = n + 1
    BY <1>4, <2>1
  <2>2. CASE v # n + 1
    <3>1. v \in 1..n /\ (Stands(v) \/ replaced[v] \in 0..hour)
      BY <1>1, <2>2 DEF SalaryInv, VersionInv
    <3>2. hour \in 0..hour
      BY <1>1
    <3>3. replaced'[v] = replaced[v] \/ replaced'[v] = hour
      BY <1>5, <3>1
    <3> QED BY <3>1, <3>2, <3>3 DEF Stands
  <2> QED BY <2>1, <2>2
<1>8. CopyInv'
  <2>1. copy.version \in Nat /\ copy.version <= n /\ copy.expires <= hour + CacheTTL
    BY <1>1 DEF SalaryInv, SalaryTypes
  <2>2. CASE copy.version = 0
    BY <1>1, <2>2 DEF CopyInv, CopyIsFresh
  <2>3. CASE copy.version # 0
    <3>1. copy.version \in 1..n /\ CopyIsFresh(copy)
      BY <1>1, <2>1, <2>3 DEF SalaryInv, CopyInv
    <3>2. stored'[copy.version].count >= MinSamples
      BY <1>2, <3>1 DEF CopyIsFresh
    <3>3. \/ replaced'[copy.version] = Standing
          \/ copy.expires <= replaced'[copy.version] + CacheTTL
      BY <1>1, <1>5, <2>1, <3>1 DEF CopyIsFresh, Stands
    <3> QED BY <1>1, <3>2, <3>3 DEF CopyInv, CopyIsFresh, Stands, Standing, CacheTTL
  <2> QED BY <2>2, <2>3
<1>9. ASSUME NEW q \in Readers PROVE ReaderInv(reader[q])'
  <2> DEFINE s == reader[q]
  <2>1. s \in ReaderState /\ ReaderInv(s) /\ s.version \in Nat /\ s.version <= n
    BY DEF SalaryInv, SalaryTypes, ReaderState, ReaderInv
  <2>2. s.version # 0 => s.version \in 1..n
    BY <1>1, <2>1
  <2>3. CompareToMarket(s.offer, s.version)' = CompareToMarket(s.offer, s.version)
    BY <1>1, <1>2, <2>2 DEF CompareToMarket
  <2> HIDE DEF s
  <2>4. reader'[q] = s /\ hour' = hour
    BY <1>1 DEF s
  <2>5. s.version <= Len(stored') /\ (s.version # 0 => stored'[s.version].count >= MinSamples)
    BY <1>1, <1>2, <2>1, <2>2 DEF ReaderInv
  <2>6. s.at = "set" => s.version # 0 /\ (replaced'[s.version] = Standing \/ replaced'[s.version] = hour)
    BY <1>5, <2>1, <2>2 DEF ReaderInv, Stands
  <2>7. s.at = "answered" => /\ s.position = CompareToMarket(s.offer, s.version)'
                             /\ s.stale <= 24
    BY <2>1, <2>3 DEF ReaderInv
  <2> QED BY <2>4, <2>5, <2>6, <2>7 DEF ReaderInv, Stands, Standing, CompareToMarket, s
<1> QED BY <1>6, <1>7, <1>8, <1>9 DEF SalaryInv

LEMMA TimePassesKeeps ==
  ASSUME SalaryInv, TimePasses PROVE SalaryInv'
<1>1. /\ hour \in Nat /\ hour' = hour + HourStride /\ hour' \in 0..LastHour /\ hour <= hour'
      /\ UNCHANGED <<stored, replaced, copy, reader>>
      /\ copy.expires \in Nat
  BY SalariesAssumption DEF TimePasses, SalaryInv, SalaryTypes
<1>2. SalaryTypes'
  BY <1>1 DEF SalaryInv, SalaryTypes, CacheTTL
<1>3. VersionInv' /\ CopyInv'
  BY <1>1 DEF SalaryInv, VersionInv, CopyInv, CopyIsFresh, Stands
<1>4. \A q \in Readers : reader[q].at # "set"
  BY DEF TimePasses, Asking
<1>5. \A q \in Readers : ReaderInv(reader[q])'
  BY <1>1, <1>4 DEF SalaryInv, ReaderInv, CompareToMarket, Stands
<1> QED BY <1>2, <1>3, <1>5 DEF SalaryInv

LEMMA SalaryInvInit == SalariesInit => SalaryInv
<1> SUFFICES ASSUME SalariesInit PROVE SalaryInv
  OBVIOUS
<1>1. PICK offer \in Offers : reader = [q \in Readers |-> Request("none", offer)]
  BY DEF SalariesInit
<1>2. Request("none", offer) \in ReaderState
  BY DEF Request, ReaderState, Positions
<1>3. /\ hour = 0 /\ stored = <<>> /\ replaced = <<>>
      /\ copy = [version |-> 0, expires |-> 0] /\ MaxRows \in Nat /\ LastHour \in Nat
  BY SalariesAssumption DEF SalariesInit
<1>4. SalaryTypes
  <2>1. stored \in Seq(Samples) /\ replaced \in Seq(Int) /\ Len(stored) = 0 /\ Len(replaced) = 0
    BY <1>3
  <2>2. reader \in [Readers -> ReaderState]
    BY <1>1, <1>2
  <2>3. /\ hour \in 0..LastHour
        /\ copy \in [version : Nat, expires : Nat] /\ copy.version = 0 /\ copy.expires = 0
    <3>1. hour \in 0..LastHour
      BY <1>3
    <3>2. copy \in [version : Nat, expires : Nat] /\ copy.version = 0 /\ copy.expires = 0
      BY <1>3
    <3> QED BY <1>3, <3>1, <3>2
  <2>4. copy.version <= Len(stored) /\ copy.expires <= hour + CacheTTL /\ Len(stored) <= MaxRows
    <3>1. CacheTTL = 24 /\ hour = 0
      BY <1>3 DEF CacheTTL
    <3>2. copy.version <= Len(stored) /\ Len(stored) <= MaxRows
      BY <1>3, <2>1, <2>3
    <3> QED BY <2>3, <3>1, <3>2
  <2> QED BY <1>3, <2>1, <2>2, <2>3, <2>4 DEF SalaryTypes
<1>5. VersionInv /\ CopyInv
  BY <1>3 DEF VersionInv, CopyInv, CopyIsFresh
<1>6. \A q \in Readers : ReaderInv(reader[q])
  BY <1>1, <1>3 DEF ReaderInv, Request
<1> QED BY <1>4, <1>5, <1>6 DEF SalaryInv

LEMMA SalaryInvNext == SalaryInv /\ [SalariesNext]_salaryVars => SalaryInv'
<1> SUFFICES ASSUME SalaryInv, [SalariesNext]_salaryVars PROVE SalaryInv'
  OBVIOUS
<1>1. CASE UNCHANGED salaryVars
  BY <1>1 DEF salaryVars, SalaryInv, SalaryTypes, VersionInv, CopyInv, CopyIsFresh, ReaderInv,
    CompareToMarket, Stands
<1> QED BY <1>1, GetBenchmarkKeeps, ReadCopyKeeps, ReadRowKeeps, ReadRowFailsKeeps, SetCopyKeeps,
           WriteRowKeeps, TimePassesKeeps DEF SalariesNext

THEOREM SalaryInvariance == SalariesSpec => []SalaryInv
  BY SalaryInvInit, SalaryInvNext, PTL DEF SalariesSpec

(* SalariesTypeOK.                                                          *)
THEOREM SalaryTypesHold == SalariesSpec => []SalariesTypeOK
<1>1. SalaryInv => SalariesTypeOK
  <2> SUFFICES ASSUME SalaryInv PROVE SalariesTypeOK
    OBVIOUS
  <2>1. copy.version \in 0..Len(stored) /\ copy.expires \in 0..(LastHour + CacheTTL)
    BY SalariesAssumption DEF SalaryInv, SalaryTypes, CacheTTL
  <2>2. ASSUME NEW q \in Readers
        PROVE  /\ reader[q].at \in {"none", "cache", "db", "set", "answered"}
               /\ reader[q].version \in 0..Len(stored) /\ reader[q].offer \in Offers
               /\ reader[q].position \in {"above", "at", "below", "unknown"}
    BY DEF SalaryInv, SalaryTypes, ReaderInv, ReaderState, Positions
  <2>3. \A v \in DOMAIN stored : Stands(v) \/ replaced[v] \in 0..hour
    BY DEF SalaryInv, SalaryTypes, VersionInv
  <2> QED BY <2>1, <2>2, <2>3 DEF SalariesTypeOK, SalaryInv, SalaryTypes
<1> QED BY <1>1, SalaryInvariance, PTL

(* BenchmarkAnswers: whichever requests overlap with each other and with    *)
(* writes of rows, whichever row they read, and whatever Redis loses, no    *)
(* answer is stale by more than a day or rests on too few samples, and      *)
(* answers from one benchmark agree.                                        *)
THEOREM AnswersAreFreshAndOrdered == SalariesSpec => []BenchmarkAnswers
<1>1. SalaryInv => BenchmarkAnswers
  <2> SUFFICES ASSUME SalaryInv PROVE BenchmarkAnswers
    OBVIOUS
  <2> DEFINE rank == [p \in {"below", "at", "above"} |->
                        IF p = "below" THEN 1 ELSE IF p = "at" THEN 2 ELSE 3]
             answered == {q \in Readers : reader[q].at = "answered" /\ reader[q].version # 0}
             mid(q) == reader[q].offer.min + reader[q].offer.max
  <2>1. ASSUME NEW q \in answered
        PROVE  /\ reader[q].version \in 1..Len(stored) /\ reader[q].offer \in Offers
               /\ reader[q].position = CompareToMarket(reader[q].offer, reader[q].version)
               /\ reader[q].stale <= 24
    BY <2>1 DEF SalaryInv, SalaryTypes, ReaderState, ReaderInv
  <2>2. ASSUME NEW q \in answered
        PROVE  reader[q].stale <= 24 /\ stored[reader[q].version].count >= MinSamples
    BY <2>1, <2>2 DEF SalaryInv, ReaderInv
  <2>3. ASSUME NEW q \in answered
        PROVE  /\ reader[q].position \in {"above", "at", "below"}
               /\ rank[reader[q].position] = Rank(reader[q].position)
    <3>1. reader[q].version \in 0..Len(stored) /\ reader[q].version # 0 /\ SalaryTypes
      BY <2>1 DEF SalaryInv, SalaryTypes
    <3>2. reader[q].position \in {"above", "at", "below"}
      BY <2>1, <3>1, Compared
    <3> QED BY <3>2 DEF Rank
  <2>4. ASSUME NEW p \in answered, NEW q \in answered,
               reader[p].version = reader[q].version, mid(p) <= mid(q)
        PROVE  rank[reader[p].position] <= rank[reader[q].position]
    <3>1. Rank(reader[p].position) <= Rank(reader[q].position)
      BY <2>1, <2>4, HigherNotLower DEF SalaryInv
    <3> HIDE DEF rank
    <3> QED BY <2>3, <3>1
  <2> QED BY <2>2, <2>4 DEF BenchmarkAnswers
<1> QED BY <1>1, SalaryInvariance, PTL

-----------------------------------------------------------------------------
-----------------------------------------------------------------------------
(* The account as a whole. A step of MCAccount is a step of one service and *)
(* a stutter of the others, so each of its behaviours is a behaviour of     *)
(* every service, and what is proved of a service is true of the account.   *)
THEOREM AccountIsItsServices ==
  MCSpec => ResumesSpec /\ LimitsSpec /\ KeyCacheSpec /\ SalariesSpec
<1>1. MCInit => ResumesInit /\ LimitsInit /\ KeyCacheInit /\ SalariesInit
  BY DEF MCInit
<1>2. [MCNext]_<<focus, resumeVars, limitVars, keyVars, salaryVars>> =>
        /\ [ResumesNext]_resumeVars /\ [LimitsNext]_limitVars
        /\ [KeyCacheNext]_keyVars /\ [SalariesNext]_salaryVars
  BY DEF MCNext, LimitsNext
<1> QED BY <1>1, <1>2, PTL DEF MCSpec, ResumesSpec, LimitsSpec, KeyCacheSpec, SalariesSpec

(* AccountTypeOK, from the invariant of each service.                       *)
THEOREM AccountTypesHold == MCSpec => []AccountTypeOK
<1>1. LimitInv => LimitsTypeOK
  BY RateLimitsAssumption DEF LimitInv, LimitTypes, LimitsTypeOK, Keys
<1>2. ResumesTypeOK /\ LimitsTypeOK /\ KeyCacheTypeOK /\ SalariesTypeOK => AccountTypeOK
  BY DEF AccountTypeOK
<1> QED BY <1>1, <1>2, AccountIsItsServices, ResumeTypesHold, LimitInvariance, KeyCacheTypes,
           SalaryTypesHold, PTL
=============================================================================
