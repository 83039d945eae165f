\* A loan payout without approval and a plain one with, the watchdog armed, while officers
\* settle the loan by hand.
SPECIFICATION FairSpec
CONSTANTS
  k1 = k1
  k2 = k2
  k3 = k3
  o1 = o1
  o2 = o2
  m1 = m1
  l1 = l1
  Keys = {k1, k2}
  Officers = {o1, o2}
  Members = {m1}
  Loans = {l1}
  Input <- LoanAndPlain
  Opening <- FiveEach
  Savings <- SavedFive
  Principal <- LentTwo
  Fee = 1
  Threshold = 2
  MaxDeliveries = 2
  Charts = {"complete"}
  Faults = {}
  Qstash = TRUE
INVARIANT HoldMatchesStatus
PROPERTY InFlightEnds
\* Once every request is settled nothing more has to happen.
CHECK_DEADLOCK FALSE
