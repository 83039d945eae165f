\* Every failure of the dispatching invocation, on every chart of accounts, with repair.
SPECIFICATION Spec
CONSTANTS
  k1 = k1
  k2 = k2
  k3 = k3
  o1 = o1
  o2 = o2
  m1 = m1
  l1 = l1
  Keys = {k1, k2}
  Officers = {o1, o2}
  Members = {m1}
  Loans = {}
  Input <- PlainAndWithdrawal
  Opening <- FiveEach
  Savings <- SavedTen
  Principal <- NoLoans
  Fee = 1
  Threshold = 2
  MaxDeliveries = 2
  Charts = {"complete", "no_fee_account", "missing"}
  Faults = {"crash", "lost_response", "record_error", "audit_error", "trigger_error"}
  Qstash = TRUE
INVARIANT JournalledOnce
PROPERTY SettledIsFinal
\* Once every request is settled nothing more has to happen.
CHECK_DEADLOCK FALSE
