---------------------------- MODULE MCSettlements ----------------------------
(* Small instances of Settlements for TLC. *)
EXTENDS Settlements, TLC

CONSTANTS r1, r2, r3, o1, o2, o3, o4, b1, c1, g1, g2, d1, d2

Sweep(amount) ==
  [kind |-> "settlement", amount |-> amount, by |-> o1, bank |-> b1, campaign |-> None]
Vendor(amount) ==
  [kind |-> "vendor", amount |-> amount, by |-> o2, bank |-> None, campaign |-> None]
Withdrawal(amount, o) ==
  [kind |-> "campaign", amount |-> amount, by |-> o, bank |-> None, campaign |-> c1]

\* Two sweeps and a vendor payment; of 4 the account covers two of them, but not their fees
\* as well, or the third.
TwoSweepsAndVendor == r1 :> Sweep(2) @@ r2 :> Vendor(2) @@ r3 :> Sweep(3)
\* Two withdrawals of one campaign, together more than it raises.
TwoWithdrawals == r1 :> Withdrawal(2, o1) @@ r2 :> Withdrawal(2, o2)

CreatedByFirst == [b \in Banks |-> o1]
\* Two donations; either alone covers one withdrawal.
TwoGifts == g1 :> [campaign |-> c1, amount |-> 2] @@ g2 :> [campaign |-> c1, amount |-> 1]
NoGifts == [g \in {} |-> 0]

TwoMembers == o1 :> "chairperson" @@ o2 :> "treasurer"
ThreeOfficers == o1 :> "chairperson" @@ o2 :> "treasurer" @@ o3 :> "secretary"
\* o4 holds no office at the start.
FourMembers == ThreeOfficers @@ o4 :> None
=============================================================================
