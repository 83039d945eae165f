--------------------------- MODULE MCDisbursements ---------------------------
(* Small instances of Disbursements for TLC. *)
EXTENDS Disbursements, TLC

CONSTANTS k1, k2, k3, o1, o2, m1, l1

\* A savings withdrawal of m1, initiated by o1.
Withdrawal(amount, method) ==
  [kind |-> "member", amount |-> amount, method |-> method, loan |-> None,
   member |-> m1, savings |-> TRUE, by |-> o1]

LoanPayout(amount) ==
  [kind |-> "loan", amount |-> amount, method |-> "mpesa", loan |-> l1,
   member |-> None, savings |-> FALSE, by |-> o1]

Plain(amount) ==
  [kind |-> "plain", amount |-> amount, method |-> "mpesa", loan |-> None,
   member |-> None, savings |-> FALSE, by |-> o1]

\* Two withdrawals of one member from one account, together more than was saved, and a
\* plain payout that the account cannot cover next to one of them.
TwoWithdrawalsAndPlain ==
  k1 :> Withdrawal(3, "mpesa") @@ k2 :> Withdrawal(3, "cash") @@ k3 :> Plain(4)
\* Two withdrawals together more than was saved, paid from different accounts.
TwoChannels == k1 :> Withdrawal(3, "mpesa") @@ k2 :> Withdrawal(3, "bank_transfer")
\* A loan payout under the approval threshold and a plain one above it.
LoanAndPlain == k1 :> LoanPayout(2) @@ k2 :> Plain(3)
\* A plain payout under the threshold and a withdrawal from the same account.
PlainAndWithdrawal == k1 :> Plain(2) @@ k2 :> Withdrawal(2, "mpesa")
OneLoanPayout == k1 :> LoanPayout(2)

FiveEach == "1001" :> 5 @@ "1002" :> 5
SixEach == "1001" :> 6 @@ "1002" :> 6
SavedFive == m1 :> 5
SavedTen == m1 :> 10
LentTwo == l1 :> 2
NoLoans == [l \in {} |-> 0]
=============================================================================
