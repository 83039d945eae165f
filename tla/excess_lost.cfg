\* A suspended member pays more than the instalments that are due.
SPECIFICATION FairSpec
CONSTANTS
  t1 = t1
  t2 = t2
  Receipts = {t1, t2}
  Amount <- Three
  Scenarios <- Obligations
  Debt = 2
  Step = 2
  MaxDeliveries = 1
  MaxKills = 0
  Faults = {}
PROPERTY EveryPaymentPlaced
\* Once every payment is placed nothing more has to happen.
CHECK_DEADLOCK FALSE
