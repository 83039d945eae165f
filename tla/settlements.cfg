\* Two sweeps and a vendor payment compete for one account, with answers and writes that
\* are lost after the POST, the watchdog armed.
SPECIFICATION FairSpec
CONSTANTS
  r1 = r1
  r2 = r2
  r3 = r3
  o1 = o1
  o2 = o2
  o3 = o3
  o4 = o4
  b1 = b1
  c1 = c1
  g1 = g1
  g2 = g2
  d1 = d1
  d2 = d2
  Rows = {r1, r2, r3}
  Officers = {o1, o2}
  Banks = {b1}
  Campaigns = {}
  Destinations = {}
  Receipts = {}
  Input <- TwoSweepsAndVendor
  BankBy <- CreatedByFirst
  Gift <- NoGifts
  FirstOffice <- TwoMembers
  Opening = 4
  Fee = 1
  MaxDeliveries = 2
  MaxMoves = 0
  Charts = {"complete", "no_fee_account"}
  Faults = {"lost_response", "record_error"}
  Qstash = TRUE
INVARIANTS TypeOK HoldExact OnlyFeesOverdraw SecondOfficerAgreed PostedOnce
PROPERTIES SettledIsFinal InFlightEnds
\* Once every request is settled nothing more has to happen.
CHECK_DEADLOCK FALSE
