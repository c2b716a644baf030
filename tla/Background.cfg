\* Each component in turn: one engine in two weeks, two follow-up schedulers and two
\* applications, two URLs, and two embedders with two jobs.
SPECIFICATION MCSpec
CONSTANTS
  Engines = {engine}
  Recipients = {u1, u2}
  MaxWeek = 2
  MaxLost = 2
  DigestFaults = {"query", "mail", "write", "kill", "disk"}
  Applied = {a1, a2}
  Reminders = {gateway, lambda}
  NilClients = {}
  MaxUnmarked = 1
  FollowUpFaults = {"mail", "mark", "crash"}
  Urls = {slack, discord}
  MaxSends = 2
  Jobs = {j1, j2}
  Wordings = {"text"}
  Embedders = {ticker, lambda}
  EmbedLimit = 1
INVARIANTS BackgroundTypeOK DigestRepeatsNeedLoss DigestReachesAll RemindersBounded WebhookGetsItsTries
PROPERTIES DismissalFinal StaleGetsReminder DescribedGetsEmbedded
CHECK_DEADLOCK FALSE
