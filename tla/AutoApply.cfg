\* One engine, a batch as large as the daily limit, every fault, any number of restarts.
SPECIFICATION FairSpec
CONSTANTS
  Matches = {1, 2, 3}
  Strong = {1, 2}
  Schedulers = {s1}
  DailyLimit = 2
  MaxPerRun = 2
  Faults = {"db", "insert", "restart"}
INVARIANTS TypeOK AutoWithinLimit AppliedHasApplication
PROPERTIES OnlyDecidedMatchesSubmitted ApprovedGetsSubmitted
