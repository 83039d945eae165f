\* The success result of a loan payout.
SPECIFICATION Spec
CONSTANTS
  k1 = k1
  k2 = k2
  k3 = k3
  o1 = o1
  o2 = o2
  m1 = m1
  l1 = l1
  Keys = {k1}
  Officers = {o1, o2}
  Members = {m1}
  Loans = {l1}
  Input <- OneLoanPayout
  Opening <- FiveEach
  Savings <- SavedFive
  Principal <- LentTwo
  Fee = 0
  Threshold = 2
  MaxDeliveries = 1
  Charts = {"complete"}
  Faults = {}
  Qstash = FALSE
PROPERTY SuccessCompletes
\* Once every request is settled nothing more has to happen.
CHECK_DEADLOCK FALSE
