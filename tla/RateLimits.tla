----------------------------- MODULE RateLimits -----------------------------
(***************************************************************************)
(* The two daily limits kept in Redis: applications per user and date in   *)
(* the user's time zone (RateLimiter, which Service.Submit consults), and  *)
(* applications per user, board and UTC date (ratelimit.Limiter). Neither  *)
(* is wired into a process. A key holds the count of its date and expires; *)
(* time is in hours.                                                       *)
(***************************************************************************)
EXTENDS Integers

CONSTANTS
  Zones,         \* offsets of the time zones the user may choose, in hours
  Limits,        \* daily_application_limit values the user may choose
  DefaultLimit,  \* 10 in the code
  BoardLimit,    \* BoardLimits of the board
  Callers,       \* callers of the board limiter
  Stride,        \* the hours that pass at a time
  MaxHour,       \* bound on the time
  LimiterFaults  \* redis: it cannot be reached;  reply: its answer is lost

Omitted == -1
Day == 24

ASSUME RateLimitsAssumption ==
  /\ Zones \subseteq 0..Day /\ 0 \in Zones /\ Limits \subseteq Nat /\ MaxHour \in Nat
  /\ Stride \in Nat \ {0}
  /\ DefaultLimit \in Nat \ {0} /\ BoardLimit \in Nat \ {0}
  /\ LimiterFaults \subseteq {"redis", "reply"}

Dates == 0..((MaxHour + Day) \div Day + 1)

VARIABLES
  now,        \* the hour
  settings,   \* user_preferences: exists, limit, zone
  daily,      \* daily[d]: the key of local date d: count and the hour it expires
  admitted,   \* admitted[d]: submissions Redis admitted on local date d (history)
  highest,    \* highest[d]: the highest limit that was in force on it (history)
  moved,      \* the time zone was changed (history)
  boards,     \* boards[d]: the board's key of UTC date d
  checked     \* callers whose Check allowed an application

limitVars == <<now, settings, daily, admitted, highest, moved, boards, checked>>
dailyVars == <<daily, admitted, highest>>

NoKey == [count |-> 0, expires |-> 0]
Count(key) == IF now < key.expires THEN key.count ELSE 0

(* INCR, and EXPIRE for a key that is new.                                  *)
Incr(key, ttl) ==
  IF now < key.expires THEN [key EXCEPT !.count = @ + 1]
                       ELSE [count |-> 1, expires |-> now + ttl]

LimitsInit ==
  /\ now = 0
  /\ settings = [exists |-> FALSE, limit |-> DefaultLimit, zone |-> 0]
  /\ daily = [d \in Dates |-> NoKey] /\ boards = [d \in Dates |-> NoKey]
  /\ admitted = [d \in Dates |-> 0] /\ highest = [d \in Dates |-> 0]
  /\ moved = FALSE /\ checked = {}

HoursPass ==
  /\ now + Stride <= MaxHour /\ now' = now + Stride
  /\ UNCHANGED <<settings, dailyVars, moved, boards, checked>>

(* UpsertPreferences: a limit that is omitted keeps its value, a time zone  *)
(* that is omitted becomes UTC.                                             *)
UpdatePreferences(limit, zone) ==
  /\ settings' = [exists |-> TRUE,
                  limit |-> IF limit = Omitted THEN settings.limit ELSE limit,
                  zone |-> IF zone = Omitted THEN 0 ELSE zone]
  /\ moved' = (moved \/ (settings.exists /\ settings'.zone # settings.zone))
  /\ UNCHANGED <<now, dailyVars, boards, checked>>

LocalDate == (now + settings.zone) \div Day

(* Mutant: the date in UTC.                                                 *)
TodayUTC == now \div Day

(* The date in the key.                                                     *)
Today == LocalDate

Ttl == 25

(* Submit: without preferences there is no limit, and one that is not       *)
(* positive is the default. An error of Redis admits the submission; when   *)
(* the script did not run, nothing here changes.                            *)
CheckAndIncrement ==
  /\ settings.exists
  /\ LET limit == IF settings.limit <= 0 THEN DefaultLimit ELSE settings.limit
     IN  /\ highest' = [highest EXCEPT ![LocalDate] = IF limit > @ THEN limit ELSE @]
         /\ IF Count(daily[Today]) < limit
            THEN /\ daily' = [daily EXCEPT ![Today] = Incr(@, Ttl)]
                 /\ \/ admitted' = [admitted EXCEPT ![LocalDate] = @ + 1]
                    \/ "reply" \in LimiterFaults /\ UNCHANGED admitted
            ELSE UNCHANGED <<daily, admitted>>
  /\ UNCHANGED <<now, settings, moved, boards, checked>>

-----------------------------------------------------------------------------
(* Limiter.Check, then Limiter.Increment.                                   *)
Check(c) ==
  /\ c \notin checked /\ Count(boards[now \div Day]) < BoardLimit
  /\ checked' = checked \cup {c}
  /\ UNCHANGED <<now, settings, dailyVars, moved, boards>>

(* The script checks again. The key lives to the end of the day and an hour *)
(* more.                                                                    *)
Increment(c) ==
  /\ c \in checked /\ checked' = checked \ {c}
  /\ boards' = IF Count(boards[now \div Day]) < BoardLimit
               THEN [boards EXCEPT ![now \div Day] = Incr(@, (Day - (now % Day)) + 1)]
               ELSE boards
  /\ UNCHANGED <<now, settings, dailyVars, moved>>

IncrementFails(c) ==
  /\ "redis" \in LimiterFaults /\ c \in checked /\ checked' = checked \ {c}
  /\ UNCHANGED <<now, settings, dailyVars, moved, boards>>

DailyNext ==
  \/ HoursPass \/ CheckAndIncrement
  \/ \E limit \in Limits \cup {Omitted}, zone \in Zones \cup {Omitted} :
       UpdatePreferences(limit, zone)

BoardNext == HoursPass \/ \E c \in Callers : Check(c) \/ Increment(c) \/ IncrementFails(c)

LimitsNext == DailyNext \/ BoardNext

LimitsSpec == LimitsInit /\ [][LimitsNext]_limitVars

-----------------------------------------------------------------------------
LimitsTypeOK ==
  /\ now \in 0..MaxHour /\ checked \subseteq Callers /\ moved \in BOOLEAN
  /\ settings \in [exists : BOOLEAN, limit : Limits \cup {DefaultLimit}, zone : Zones]
  /\ \A d \in Dates : /\ daily[d] \in [count : Nat, expires : Nat]
                      /\ boards[d] \in [count : Nat, expires : Nat]
                      /\ admitted[d] \in Nat /\ highest[d] \in Nat

(* No local date admits more than the highest limit that was in force on    *)
(* it, although a key expires and limits change; only a user who moves      *)
(* between time zones can meet a date again after its key has expired. And  *)
(* callers that were all told there is room do not together exceed the      *)
(* board's limit.                                                           *)
LimitHeld ==
  /\ \A d \in Dates : boards[d].count <= BoardLimit
  /\ ~moved => \A d \in Dates : admitted[d] <= highest[d]
=============================================================================
