\* Two requests at a time for two resumes and an application; two days of submissions in
\* two time zones; two keys and three clients; two readers and three rows written in 36 hours.
\* The bounded components come to rest.
SPECIFICATION MCSpec
CONSTANTS
  ResumeIds = {r1, r2}
  Requests = {q1, q2}
  Submissions = {a1}
  Outcomes = {"viewed", "interview"}
  MaxCount = 2
  ResumeFaults = {"s3", "db", "crash"}
  Zones = {0, 9}
  Limits = {0, 1}
  DefaultLimit = 2
  BoardLimit = 2
  Callers = {c1, c2}
  Stride = 6
  MaxHour = 48
  LimiterFaults = {"redis", "reply"}
  Kids = {k1, k2}
  Clients = {client1, client2, client3}
  KeyFaults = {"fetch", "leave"}
  Currencies = {"EUR", "USD"}
  Samples <- MCSamples
  Offers <- MCOffers
  Readers = {reader1, reader2}
  MaxRows = 3
  LastHour = 36
  HourStride = 12
  SalaryFaults = {"redis", "db"}
INVARIANTS AccountTypeOK PrimaryKept CountersTrue ApplicationHasFile LimitHeld BenchmarkAnswers KeyRefusedForCause
CHECK_DEADLOCK FALSE
