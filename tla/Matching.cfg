SPECIFICATION MCSpec
CONSTANTS
  Jobs = {1, 2}
  Times = {1, 2}
  PostingOf <- MCPostingOf
  Cosine <- MCCosine
  Profiles <- MCProfiles
  Settings <- MCSettings
  MatchRuns = {lambda, http}
  Approvers = {service}
  MinMatchScore = 3500
  MaxJobsPerRun = 2
  MatchBatch = 2
  BulkLimit = 2
  MaxMoves = 2
  MatchFaults = {"read", "db", "ack"}
SYMMETRY MCRuns
INVARIANTS MatchingTypeOK DeadlocksNeedTies RejectionStands AutoApprovalWarranted
  CandidatesStored IllegalOnlyByRepetition
