------------------------------ MODULE MCAccount ------------------------------
(***************************************************************************)
(* The account for TLC: the resumes, the limits in Redis, the public keys  *)
(* and the salary benchmarks. They share nothing, so a behaviour moves one *)
(* of them, chosen at the start, and the others rest in an initial state.  *)
(***************************************************************************)
EXTENDS Resumes, RateLimits, KeyCache, Salaries

VARIABLE focus

(* One sample too few, and just enough, in two currencies.                  *)
MCSamples ==
  {[currency |-> "USD", count |-> 5, median |-> 95], [currency |-> "EUR", count |-> 4, median |-> 85],
   [currency |-> "EUR", count |-> 5, median |-> 85]}

(* The higher one is at the market's upper edge.                            *)
MCOffers == {[min |-> 80, max |-> 90], [min |-> 90, max |-> 119]}

MCInit ==
  /\ focus \in {"resumes", "daily", "board", "keys", "salaries"}
  /\ ResumesInit /\ LimitsInit /\ KeyCacheInit /\ SalariesInit
  /\ \A q \in Readers : reader[q].offer.min = 80

MCNext ==
  /\ UNCHANGED focus
  /\ \/ focus = "resumes" /\ ResumesNext /\ UNCHANGED <<limitVars, keyVars, salaryVars>>
     \/ focus = "daily" /\ DailyNext /\ UNCHANGED <<resumeVars, keyVars, salaryVars>>
     \/ focus = "board" /\ BoardNext /\ UNCHANGED <<resumeVars, keyVars, salaryVars>>
     \/ focus = "keys" /\ KeyCacheNext /\ UNCHANGED <<resumeVars, limitVars, salaryVars>>
     \/ focus = "salaries" /\ SalariesNext /\ UNCHANGED <<resumeVars, limitVars, keyVars>>

MCSpec == MCInit /\ [][MCNext]_<<focus, resumeVars, limitVars, keyVars, salaryVars>>

AccountTypeOK == ResumesTypeOK /\ LimitsTypeOK /\ KeyCacheTypeOK /\ SalariesTypeOK
=============================================================================
