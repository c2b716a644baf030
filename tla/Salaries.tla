------------------------------ MODULE Salaries ------------------------------
(***************************************************************************)
(* Salary benchmarks of one title and location: a row for each currency, a *)
(* copy of one of them in Redis that lives for a day, and the requests     *)
(* that read the copy or else a row (salary.Service). Time is in hours,    *)
(* and a request takes less than its unit: it ends or fails within the     *)
(* gateway's timeout of a minute.                                          *)
(*                                                                         *)
(* The rows are written from outside. RebuildBenchmarks, which nothing     *)
(* calls, was to write them from the jobs table, but its upsert selects    *)
(* salary_currency beside aggregates without a GROUP BY: PostgreSQL        *)
(* refuses the statement for the first pair of title and location, and     *)
(* RebuildBenchmarks returns the error with no row changed.                *)
(***************************************************************************)
EXTENDS Integers, Sequences, FiniteSets

CONSTANTS
  Currencies,
  Samples,      \* the rows there may be: the currency, the number of samples and their median
  Offers,       \* the salary ranges, not negative, a request may ask to compare
  Readers,      \* requests at a time
  MaxRows,      \* bound on the rows written
  LastHour,     \* bound on the time
  HourStride,   \* the hours that pass at a time
  SalaryFaults  \* redis: Redis fails;  db: a query fails

MinSamples == 5
CacheTTL == 24

ASSUME SalariesAssumption ==
  /\ Samples \subseteq [currency : Currencies, count : Nat, median : Nat]
  /\ Offers \subseteq [min : Nat, max : Nat] /\ IsFiniteSet(Readers) /\ MaxRows \in Nat
  /\ LastHour \in Nat /\ HourStride \in Nat \ {0} /\ SalaryFaults \subseteq {"redis", "db"}

VARIABLES
  hour,      \* the hour
  stored,    \* salary_benchmarks: the rows in all their versions
  replaced,  \* replaced[v]: the hour another version took the place of v, or Standing
  copy,      \* Redis: the version that was cached, 0 for none, and the hour it expires
  reader     \* reader[q]: where it is, the range it compares, the version it read, the
             \*   position it answered, and how many hours before that was replaced

salaryVars == <<hour, stored, replaced, copy, reader>>

(* The versions that are the rows of the table.                             *)
Standing == -1
Stands(v) == replaced[v] = Standing

Request(at, offer) ==
  [at |-> at, offer |-> offer, version |-> 0, position |-> "unknown", stale |-> 0]
Asking(q) == reader[q].at \in {"cache", "db", "set"}

SalariesInit ==
  /\ hour = 0 /\ stored = <<>> /\ replaced = <<>>
  /\ copy = [version |-> 0, expires |-> 0]
  /\ \E offer \in Offers : reader = [q \in Readers |-> Request("none", offer)]

-----------------------------------------------------------------------------
(* At most a tenth of the median, rounded down, is at the market.           *)
CompareToMarket(offer, version) ==
  LET median == stored[version].median
      threshold == median \div 10
      mid == (offer.min + offer.max) \div 2
  IN  IF version = 0 THEN "unknown"
      ELSE IF mid > median + threshold THEN "above"
      ELSE IF mid < median - threshold THEN "below" ELSE "at"

Answer(q, version) ==
  reader' = [reader EXCEPT ![q].at = "answered", ![q].version = version,
    ![q].position = CompareToMarket(reader[q].offer, version),
    ![q].stale = IF version = 0 \/ Stands(version) THEN 0 ELSE hour - replaced[version]]

GetBenchmark(q, offer) ==
  /\ ~Asking(q)
  /\ reader' = [reader EXCEPT ![q] = Request("cache", offer)]
  /\ UNCHANGED <<hour, stored, replaced, copy>>

(* Mutant: a hit makes the copy live for another day.                       *)
HitSliding == [copy EXCEPT !.expires = hour + CacheTTL]

(* What a hit leaves in Redis.                                              *)
Hit == copy

ReadCopy(q) ==
  /\ reader[q].at = "cache"
  /\ \/ /\ hour < copy.expires
        /\ Answer(q, copy.version) /\ copy' = Hit
     \/ /\ hour >= copy.expires \/ "redis" \in SalaryFaults
        /\ reader' = [reader EXCEPT ![q].at = "db"]
        /\ UNCHANGED copy
  /\ UNCHANGED <<hour, stored, replaced>>

(* The row of some currency, whichever LIMIT 1 returns. That there is none, *)
(* or that it rests on too few samples, is answered, but not cached.        *)
ReadRow(q) ==
  /\ reader[q].at = "db"
  /\ LET rows == {v \in DOMAIN stored : Stands(v)}
     IN  \/ /\ rows = {} \/ \E v \in rows : stored[v].count < MinSamples
            /\ Answer(q, 0)
         \/ \E v \in rows :
              /\ stored[v].count >= MinSamples
              /\ reader' = [reader EXCEPT ![q].at = "set", ![q].version = v]
  /\ UNCHANGED <<hour, stored, replaced, copy>>

ReadRowFails(q) ==
  /\ "db" \in SalaryFaults /\ reader[q].at = "db"
  /\ reader' = [reader EXCEPT ![q].at = "none"]
  /\ UNCHANGED <<hour, stored, replaced, copy>>

SetCopy(q) ==
  /\ reader[q].at = "set"
  /\ copy' \in {[version |-> reader[q].version, expires |-> hour + CacheTTL]}
               \cup (IF "redis" \in SalaryFaults THEN {copy} ELSE {})
  /\ Answer(q, reader[q].version)
  /\ UNCHANGED <<hour, stored, replaced>>

-----------------------------------------------------------------------------
(* A row is written from outside, in place of the one of its currency.      *)
WriteRow(row) ==
  /\ Len(stored) < MaxRows
  /\ stored' = Append(stored, row)
  /\ replaced' = Append([v \in DOMAIN stored |->
       IF Stands(v) /\ stored[v].currency = row.currency THEN hour ELSE replaced[v]], Standing)
  /\ UNCHANGED <<hour, copy, reader>>

TimePasses ==
  /\ hour + HourStride <= LastHour /\ \A q \in Readers : ~Asking(q)
  /\ hour' = hour + HourStride
  /\ UNCHANGED <<stored, replaced, copy, reader>>

SalariesNext ==
  \/ \E q \in Readers :
       \/ ReadCopy(q) \/ ReadRow(q) \/ ReadRowFails(q) \/ SetCopy(q)
       \/ \E offer \in Offers : GetBenchmark(q, offer)
  \/ \E row \in Samples : WriteRow(row)
  \/ TimePasses

SalariesSpec == SalariesInit /\ [][SalariesNext]_salaryVars

-----------------------------------------------------------------------------
SalariesTypeOK ==
  /\ hour \in 0..LastHour
  /\ stored \in Seq(Samples) /\ Len(stored) <= MaxRows
  /\ Len(replaced) = Len(stored)
  /\ \A v \in DOMAIN stored : Stands(v) \/ replaced[v] \in 0..hour
  /\ copy.version \in 0..Len(stored) /\ copy.expires \in 0..(LastHour + CacheTTL)
  /\ \A q \in Readers :
       /\ reader[q].at \in {"none", "cache", "db", "set", "answered"}
       /\ reader[q].version \in 0..Len(stored) /\ reader[q].offer \in Offers
       /\ reader[q].position \in {"above", "at", "below", "unknown"}

(* A request never answers with a benchmark that was replaced more than a   *)
(* day before, although a slow request may cache what it read before the    *)
(* row was replaced over what another cached after it; it rests on enough   *)
(* samples, although a row of another currency may rest on too few; and of  *)
(* two requests that compare with the same benchmark the higher range is    *)
(* not placed lower.                                                        *)
BenchmarkAnswers ==
  LET rank == [p \in {"below", "at", "above"} |->
                 IF p = "below" THEN 1 ELSE IF p = "at" THEN 2 ELSE 3]
      answered == {q \in Readers : reader[q].at = "answered" /\ reader[q].version # 0}
      mid(q) == reader[q].offer.min + reader[q].offer.max
  IN  /\ \A q \in answered :
           reader[q].stale <= 24 /\ stored[reader[q].version].count >= MinSamples
      /\ \A p, q \in answered :
           reader[p].version = reader[q].version /\ mid(p) <= mid(q)
             => rank[reader[p].position] <= rank[reader[q].position]
=============================================================================
