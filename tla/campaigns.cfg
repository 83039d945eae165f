\* Two withdrawals of one campaign by different offices, which change hands twice, while
\* donations come in, invocations die and no watchdog runs.
SPECIFICATION Spec
CONSTANTS
  r1 = r1
  r2 = r2
  r3 = r3
  o1 = o1
  o2 = o2
  o3 = o3
  o4 = o4
  b1 = b1
  c1 = c1
  g1 = g1
  g2 = g2
  d1 = d1
  d2 = d2
  Rows = {r1, r2}
  Officers = {o1, o2, o3, o4}
  Banks = {}
  Campaigns = {c1}
  Destinations = {d1, d2}
  Receipts = {g1, g2}
  Input <- TwoWithdrawals
  BankBy <- CreatedByFirst
  Gift <- TwoGifts
  FirstOffice <- FourMembers
  Opening = 1
  Fee = 1
  MaxDeliveries = 2
  MaxMoves = 2
  Charts = {"complete", "missing"}
  Faults = {"crash", "trigger_error"}
  Qstash = FALSE
INVARIANTS ThreeOfficesSigned CampaignNotOverdrawn RaisedIsDonated PaidWhereReviewed
PROPERTY KeepsPromise
\* Once every request is settled nothing more has to happen.
CHECK_DEADLOCK FALSE
