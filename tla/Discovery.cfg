\* Two overlapping runs of one board, of two pages and of one, with every fault.
\* A run may be over and no other come.
SPECIFICATION DiscoverySpec
CONSTANTS
  Http = http
  Lambda = lambda
  Runs = {http, lambda}
  Boards = {"indeed", "ziprecruiter", "linkedin", "glassdoor"}
  Ids = {"a", "b"}
  Signals <- MCSignals
  Pages <- MCPages
  RequestPages <- MCRequestPages
  Buffer = 1
  BatchSize = 2
  RunFaults = {"page", "ctx", "db", "ack"}
INVARIANTS DiscoveryTypeOK NothingLostQuietly NewCountedOnce
PROPERTIES RunEnds GoroutineEndsOrBlocks
CHECK_DEADLOCK FALSE
