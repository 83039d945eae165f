\* Every kind of payment that is placed, with duplicates, replays and kills.
SPECIFICATION FairSpec
CONSTANTS
  t1 = t1
  t2 = t2
  Receipts = {t1, t2}
  Amount <- Three
  Scenarios <- Everyday
  Debt = 4
  Step = 2
  MaxDeliveries = 2
  MaxKills = 1
  Faults = {"unlogged", "unmarked"}
INVARIANTS TypeOK CreditedOnce SpineTellsTruth KeyedOnce
PROPERTIES DecisionsStand 
\* Once every payment is placed nothing more has to happen.
CHECK_DEADLOCK FALSE
