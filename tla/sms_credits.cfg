\* One call with two recipients, sent or as a campaign, or one reminder, with its retries.
\* CHECK_DEADLOCK FALSE: once every row is settled nothing more has to happen.
SPECIFICATION FairSpec
CONSTANTS
  m1 = m1
  m2 = m2
  m3 = m3
  b1 = b1
  b2 = b2
  Messages = {m1, m2, m3}
  Batches = {b1, b2}
  Recipients <- PairAndReminder
  Workloads <- OneOfThem
  Segments <- SecondLong
  Opening = 2
  Included = 2
  Retriers = {"cron", "officer"}
  MaxRetries <- SecondOnce
  MaxTries <- SecondOnce
  MaxChanges = 1
  Faults = {"crash", "answer_lost", "write_lost", "settle_lost"}
  MaxFaults = 1
INVARIANTS TypeOK NotOverspent EarmarksExact AcceptedIsCharged DeliveredOnce
PROPERTY EarmarkEnds
CHECK_DEADLOCK FALSE
