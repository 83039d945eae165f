\* The watchdog times out a withdrawal that Safaricom may have paid, then the next one is
\* requested.
SPECIFICATION Spec
CONSTANTS
  r1 = r1
  r2 = r2
  r3 = r3
  o1 = o1
  o2 = o2
  o3 = o3
  o4 = o4
  b1 = b1
  c1 = c1
  g1 = g1
  g2 = g2
  d1 = d1
  d2 = d2
  Rows = {r1, r2}
  Officers = {o1, o2, o3}
  Banks = {}
  Campaigns = {c1}
  Destinations = {d1, d2}
  Receipts = {g1, g2}
  Input <- TwoWithdrawals
  BankBy <- CreatedByFirst
  Gift <- TwoGifts
  FirstOffice <- ThreeOfficers
  Opening = 1
  Fee = 1
  MaxDeliveries = 1
  MaxMoves = 0
  Charts = {"complete", "missing"}
  Faults = {}
  Qstash = TRUE
INVARIANT CampaignNotOverdrawn
\* A settled withdrawal leaves nothing to do.
CHECK_DEADLOCK FALSE
