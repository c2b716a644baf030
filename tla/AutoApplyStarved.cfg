\* Nothing fails and nothing restarts.
SPECIFICATION FairSpec
CONSTANTS
  Matches = {1, 2, 3}
  Strong = {1, 2}
  Schedulers = {s1}
  DailyLimit = 2
  MaxPerRun = 2
  Faults = {}
PROPERTY ApprovedIsPickedUp
