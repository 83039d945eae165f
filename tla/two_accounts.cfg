\* Two withdrawals of one member paid from different accounts.
SPECIFICATION Spec
CONSTANTS
  k1 = k1
  k2 = k2
  k3 = k3
  o1 = o1
  o2 = o2
  m1 = m1
  l1 = l1
  Keys = {k1, k2}
  Officers = {o1, o2}
  Members = {m1}
  Loans = {}
  Input <- TwoChannels
  Opening <- FiveEach
  Savings <- SavedFive
  Principal <- NoLoans
  Fee = 0
  Threshold = 2
  MaxDeliveries = 1
  Charts = {"complete"}
  Faults = {}
  Qstash = FALSE
INVARIANT SavingsNotOverdrawn
\* Once every request is settled nothing more has to happen.
CHECK_DEADLOCK FALSE
