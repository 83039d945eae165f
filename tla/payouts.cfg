\* Three payouts compete for the savings of one member and for one cash account, from which a
\* teller may disburse a loan by hand meanwhile.
SPECIFICATION Spec
CONSTANTS
  k1 = k1
  k2 = k2
  k3 = k3
  o1 = o1
  o2 = o2
  m1 = m1
  l1 = l1
  Keys = {k1, k2, k3}
  Officers = {o1, o2}
  Members = {m1}
  Loans = {l1}
  Input <- TwoWithdrawalsAndPlain
  Opening <- SixEach
  Savings <- SavedFive
  Principal <- LentTwo
  Fee = 1
  Threshold = 2
  MaxDeliveries = 2
  Charts = {"complete", "no_fee_account"}
  Faults = {"crash"}
  Qstash = FALSE
INVARIANTS TypeOK SavingsNotOverdrawn OnlyFeesAndTellers PaidWasAuthorised LedgersSettleTogether
PROPERTY KeepsPromise
\* Once every request is settled nothing more has to happen.
CHECK_DEADLOCK FALSE
