-------------------------- MODULE SmsAccountProofs --------------------------
(***************************************************************************)
(* What is proved of the credit account of SmsCredits for every number of  *)
(* messages, calls, retriers and faults: its counters cover every open     *)
(* earmark and hold nothing besides, and neither credits nor allowance are *)
(* promised twice.                                                         *)
(*                                                                         *)
(* What is open is a sum over rows, tickets and stamps.  Each step either  *)
(* leaves that sum and the account alone, earmarks, settles or moves an    *)
(* earmark from one place to another; Moved lists the four.                *)
(***************************************************************************)
EXTENDS SmsCreditsProofs, SumTheorems

-----------------------------------------------------------------------------
(* The shares of a batch: the allowance is spent down row by row.          *)

\* The first n rows get all of the allowance, or all they cost.
LEMMA SharesAddUp ==
  ASSUME NEW N \in Nat, NEW F \in Nat, NEW seg, \A i \in 1..N : seg[i] \in Nat, NEW share,
         \A i \in 1..N :
           share[i] = AtMost(AtLeast(F - SumFunctionOnSet(seg, 1..(i - 1)), 0), seg[i])
  PROVE  SumFunctionOnSet(share, 1..N) = AtMost(F, SumFunctionOnSet(seg, 1..N))
  <1> DEFINE B(n) == SumFunctionOnSet(seg, 1..n)
             G(n) == SumFunctionOnSet(share, 1..n)
             Wrong == {n \in 0..N : G(n) # AtMost(F, B(n))}
  <1>1. \A n \in 0..N : B(n) \in Nat
    <2> SUFFICES ASSUME NEW n \in 0..N PROVE B(n) \in Nat
      OBVIOUS
    <2>1. IsFiniteSet(1..n) /\ \A i \in 1..n : seg[i] \in Nat  BY FS_Interval
    <2> QED BY <2>1, SumIsNat
  <1>2. \A i \in 1..N : i - 1 \in 0..N /\ share[i] = AtMost(AtLeast(F - B(i - 1), 0), seg[i])
    OBVIOUS
  <1>3. \A i \in 1..N : share[i] \in Nat
    <2> SUFFICES ASSUME NEW i \in 1..N PROVE share[i] \in Nat
      OBVIOUS
    <2>1. B(i - 1) \in Nat /\ share[i] = AtMost(AtLeast(F - B(i - 1), 0), seg[i])  BY <1>1, <1>2
    <2> HIDE DEF B
    <2> QED BY <2>1 DEF AtMost, AtLeast
  <1>4. ASSUME Wrong # {} PROVE FALSE
    <2>1. Wrong \in SUBSET Nat  OBVIOUS
    <2>2. PICK n \in Wrong : \A k \in Wrong : n <= k
      <3> HIDE DEF Wrong
      <3> QED BY <1>4, <2>1, SmallestNumber
    <2>3. n # 0
      <3>1. 1..0 = {}  OBVIOUS
      <3>2. B(0) = 0 /\ G(0) = 0  BY <3>1, SumOfNothing
      <3>3. G(0) = AtMost(F, B(0))  BY <3>2 DEF AtMost
      <3> QED BY <3>3
    <2>4. PICK k \in Nat : n = k + 1 /\ k \in 0..N /\ k + 1 \in 1..N
      <3>1. n - 1 \in Nat /\ n = (n - 1) + 1 /\ n - 1 \in 0..N  BY <2>3
      <3> QED BY <3>1
    <2>5. G(k) = AtMost(F, B(k))
      <3>1. k \notin Wrong  BY <2>2, <2>4
      <3> QED BY <2>4, <3>1
    <2>6. B(k + 1) = seg[k + 1] + B(k)
      <3>1. \A i \in 1..(k + 1) : seg[i] \in Int  BY <2>4
      <3> QED BY <3>1, SumToNext
    <2>7. G(k + 1) = share[k + 1] + G(k)
      <3>1. \A i \in 1..(k + 1) : share[i] \in Int  BY <1>3, <2>4
      <3> QED BY <3>1, SumToNext
    <2>8. share[k + 1] = AtMost(AtLeast(F - B(k), 0), seg[k + 1])
      <3>1. (k + 1) - 1 = k  OBVIOUS
      <3> QED BY <1>2, <2>4, <3>1
    <2>9. B(k) \in Nat /\ seg[k + 1] \in Nat  BY <1>1, <2>4
    <2>10. G(n) # AtMost(F, B(n))  OBVIOUS
    <2> HIDE DEF B, G, Wrong
    <2>11. G(k + 1) = AtMost(F, B(k + 1))
      BY <2>5, <2>6, <2>7, <2>8, <2>9 DEF AtMost, AtLeast
    <2> QED BY <2>4, <2>10, <2>11
  <1>5. N \notin Wrong  BY <1>4
  <1> QED BY <1>5

\* A call costs what its rows cost.
LEMMA CostInOrder ==
  ASSUME NEW b \in Batches
  PROVE  /\ Cost(b) \in Nat
         /\ Cost(b) = SumFunctionOnSet([j \in DOMAIN Recipients[b] |-> Segments[Recipients[b][j]]],
                                       1..Len(Recipients[b]))
  <1> DEFINE seg == [j \in DOMAIN Recipients[b] |-> Segments[Recipients[b][j]]]
             N == 1..Len(Recipients[b])
  <1>1. DOMAIN Recipients[b] = N /\ \A i \in N : Recipients[b][i] \in Messages
    BY RecipientTypes
  <1>2. IsFiniteSet(N)  BY FS_Interval, RecipientTypes
  <1>3. \A i, j \in N : Recipients[b][i] = Recipients[b][j] => i = j  BY <1>1, BatchAssumption
  <1>4. \A i \in N : seg[i] = Segments[Recipients[b][i]] /\ seg[i] \in Nat
    BY <1>1, AmountAssumption
  <1>5. To(b) = {Recipients[b][i] : i \in N}  BY <1>1 DEF To
  <1> HIDE DEF seg, N
  <1>6. SumFunctionOnSet(Segments, {Recipients[b][i] : i \in N}) = SumFunctionOnSet(seg, N)
    BY <1>2, <1>3, <1>4, SumRenamed
  <1>7. SumFunctionOnSet(seg, N) \in Nat  BY <1>2, <1>4, SumIsNat
  <1> QED BY <1>5, <1>6, <1>7 DEF Cost, seg, N

LEMMA ShareTypes ==
  ASSUME NEW n \in Nat, account \in [credits : Nat, reserved : Nat, used : Nat, held : Nat]
  PROVE  FromAllowance(n) \in 0..n
  BY AmountAssumption DEF FromAllowance, AllowanceLeft, AtMost, AtLeast

\* What Queue writes on the rows of a call is the part of the earmark the allowance pays.
LEMMA QueuedShares ==
  ASSUME NEW b \in Batches,
         account \in [credits : Nat, reserved : Nat, used : Nat, held : Nat],
         NEW share,
         \A m \in To(b) :
           share[m] = ShareOf(b, CHOOSE i \in DOMAIN Recipients[b] : Recipients[b][i] = m)
  PROVE  /\ SumFunctionOnSet(share, To(b)) = FromAllowance(Cost(b))
         /\ \A m \in To(b) : share[m] \in 0..Segments[m]
  <1> DEFINE seg == [j \in DOMAIN Recipients[b] |-> Segments[Recipients[b][j]]]
             own == [i \in DOMAIN Recipients[b] |-> ShareOf(b, i)]
             N == Len(Recipients[b])
             F == FromAllowance(Cost(b))
  <1>1. N \in Nat /\ DOMAIN Recipients[b] = 1..N /\ \A i \in 1..N : Recipients[b][i] \in Messages
    BY RecipientTypes
  <1>2. F \in 0..Cost(b) /\ Cost(b) \in Nat  BY CostInOrder, ShareTypes
  <1>3. \A i \in 1..N : seg[i] \in Nat /\ seg[i] = Segments[Recipients[b][i]]
    BY <1>1, AmountAssumption
  <1>4. \A i \in 1..N :
          own[i] = AtMost(AtLeast(F - SumFunctionOnSet(seg, 1..(i - 1)), 0), seg[i])
    BY <1>1, <1>3 DEF ShareOf, Before
  <1>5. \A i \in 1..N : own[i] \in 0..seg[i]
    <2> SUFFICES ASSUME NEW i \in 1..N PROVE own[i] \in 0..seg[i]
      OBVIOUS
    <2>1. SumFunctionOnSet(seg, 1..(i - 1)) \in Nat
      <3>0. \A j \in 1..(i - 1) : j \in 1..N
        <4> HIDE DEF N
        <4> QED BY <1>1
      <3>1. \A j \in 1..(i - 1) : seg[j] \in Nat  BY <3>0, <1>3
      <3>2. IsFiniteSet(1..(i - 1))  BY FS_Interval
      <3> HIDE DEF seg
      <3> QED BY <3>1, <3>2, SumIsNat
    <2> HIDE DEF seg, own, F
    <2> QED BY <1>2, <1>3, <1>4, <2>1 DEF AtMost, AtLeast
  <1>6. \A i \in 1..N : share[Recipients[b][i]] = own[i]
    <2> SUFFICES ASSUME NEW i \in 1..N PROVE share[Recipients[b][i]] = own[i]
      OBVIOUS
    <2>1. i \in DOMAIN Recipients[b] /\ Recipients[b][i] \in To(b)  BY <1>1 DEF To
    <2>2. (CHOOSE j \in DOMAIN Recipients[b] : Recipients[b][j] = Recipients[b][i]) = i
      BY <2>1, BatchAssumption
    <2> QED BY <2>1, <2>2
  <1>7. SumFunctionOnSet(own, 1..N) = AtMost(F, SumFunctionOnSet(seg, 1..N))
    <2> HIDE DEF seg, own, F, N
    <2> QED BY <1>1, <1>2, <1>3, <1>4, SharesAddUp
  <1>8. SumFunctionOnSet(own, 1..N) = F
    <2>1. SumFunctionOnSet(seg, 1..N) = Cost(b)  BY CostInOrder
    <2> HIDE DEF F
    <2> QED BY <1>2, <1>7, <2>1 DEF AtMost
  <1>9. SumFunctionOnSet(share, {Recipients[b][i] : i \in 1..N}) = SumFunctionOnSet(own, 1..N)
    <2>1. IsFiniteSet(1..N)
      <3> HIDE DEF N
      <3> QED BY <1>1, FS_Interval
    <2>2. \A i, j \in 1..N : Recipients[b][i] = Recipients[b][j] => i = j
      BY <1>1, BatchAssumption
    <2>3. \A i \in 1..N : own[i] = share[Recipients[b][i]] /\ own[i] \in Int
      <3> HIDE DEF own, N, seg
      <3> QED BY <1>3, <1>5, <1>6
    <2> DEFINE I == 1..N
    <2>4. /\ IsFiniteSet(I)
          /\ \A i, j \in I : Recipients[b][i] = Recipients[b][j] => i = j
          /\ \A i \in I : own[i] = share[Recipients[b][i]] /\ own[i] \in Int
      BY <2>1, <2>2, <2>3
    <2> HIDE DEF own, I
    <2>5. SumFunctionOnSet(share, {Recipients[b][i] : i \in I}) = SumFunctionOnSet(own, I)
      BY <2>4, SumRenamed
    <2> QED BY <2>5 DEF I
  <1>10. To(b) = {Recipients[b][i] : i \in 1..N}  BY <1>1 DEF To
  <1>11. \A m \in To(b) : share[m] \in 0..Segments[m]
    <2> SUFFICES ASSUME NEW i \in 1..N
                 PROVE  share[Recipients[b][i]] \in 0..Segments[Recipients[b][i]]
      BY <1>10
    <2> QED BY <1>3, <1>5, <1>6
  <1> QED BY <1>8, <1>9, <1>10, <1>11

-----------------------------------------------------------------------------
(* What is open, as sums over whole tables.                                *)

Account == [credits : Nat, reserved : Nat, used : Nat, held : Nat]

RowPaid == [m \in Messages |-> log[m].amount - bundled[m]]
CallPaid == [b \in Batches |-> IF At(b, "ticket") THEN Cost(b) - pending[b] ELSE 0]
RetryPaid == [r \in Retriers |-> IF RetryAt(r, "stamp") THEN Segments[Msg(r)] - pending[r] ELSE 0]

CallBundled == [b \in Batches |-> IF At(b, "ticket") THEN pending[b] ELSE 0]
RetryBundled == [r \in Retriers |-> IF RetryAt(r, "stamp") THEN pending[r] ELSE 0]

RowsPaid == SumFunctionOnSet(RowPaid, Messages)
RowsBundled == SumFunctionOnSet(bundled, Messages)
CallsPaid == SumFunctionOnSet(CallPaid, Batches)
CallsBundled == SumFunctionOnSet(CallBundled, Batches)
RetriesPaid == SumFunctionOnSet(RetryPaid, Retriers)
RetriesBundled == SumFunctionOnSet(RetryBundled, Retriers)

Paid == RowsPaid + CallsPaid + RetriesPaid
Bundled == RowsBundled + CallsBundled + RetriesBundled

\* The types of the money, and which part of an earmark the allowance can pay.
RowPurse ==
  /\ bundled \in [Messages -> Nat]
  /\ \A m \in Messages :
       bundled[m] <= log[m].amount /\ (~Reserved(m) => log[m].amount = 0)

CallPurse ==
  \A b \in Batches : At(b, "ticket") => kind[b] = "notify" /\ pending[b] <= Cost(b)

RetryPurse ==
  \A r \in Retriers : RetryAt(r, "stamp") => pending[r] <= Segments[Msg(r)]

Purse ==
  /\ account \in Account /\ pending \in [Batches \cup Retriers -> Nat] /\ strayed \in BOOLEAN
  /\ RowPurse /\ CallPurse /\ RetryPurse

\* The rows of a call come with the call.
Unborn ==
  \A b \in Batches : batch[b].at \in {"idle", "ticket"} =>
    \A m \in To(b) : log[m] = NoRow /\ failures[m] = <<>>

Exact ==
  /\ Paid <= account.reserved /\ Bundled <= account.held
  /\ ~strayed => Paid = account.reserved /\ Bundled = account.held

\* The four things a step does to the account and to what is open.
Leaves ==
  /\ Paid' = Paid /\ Bundled' = Bundled /\ strayed' = strayed
  /\ account' \in {account, [account EXCEPT !.credits = @ + 1], [account EXCEPT !.used = 0]}
Earmarks ==
  \E n \in Nat :
    /\ Affordable(n) /\ account' = Earmarked(n) /\ strayed' = strayed
    /\ Paid' = Paid + (n - FromAllowance(n)) /\ Bundled' = Bundled + FromAllowance(n)
Settles ==
  \E p, q \in Nat :
    /\ Paid' = Paid - p /\ Bundled' = Bundled - q /\ strayed' = strayed
    /\ account' \in
         {[account EXCEPT !.reserved = AtLeast(@ - p, 0), !.held = AtLeast(@ - q, 0)],
          [account EXCEPT !.reserved = AtLeast(@ - p, 0), !.credits = AtLeast(@ - p, 0),
                          !.held = AtLeast(@ - q, 0), !.used = @ + q]}
Loses == Paid' <= Paid /\ Bundled' <= Bundled /\ strayed' = TRUE /\ account' = account

Moved == Leaves \/ Earmarks \/ Settles \/ Loses

LEMMA RetriersFinite == IsFiniteSet(Retriers)
  <1>1. IsFiniteSet({"cron", "officer"})
    <2>1. IsFiniteSet({"cron"})  BY FS_Singleton
    <2>2. {"cron", "officer"} = {"cron"} \cup {"officer"}  OBVIOUS
    <2> QED BY <2>1, <2>2, FS_AddElement
  <1> QED BY <1>1, FS_Subset, AmountAssumption DEF AllRetriers

\* The parts of an open earmark are natural numbers.
LEMMA PartTypes ==
  ASSUME Shape, Purse
  PROVE  /\ \A m \in Messages : RowPaid[m] \in Nat /\ bundled[m] \in Nat
         /\ \A b \in Batches : CallPaid[b] \in Nat /\ CallBundled[b] \in Nat
         /\ \A r \in Retriers : RetryPaid[r] \in Nat /\ RetryBundled[r] \in Nat
  <1>1. ASSUME NEW m \in Messages PROVE RowPaid[m] \in Nat /\ bundled[m] \in Nat
    <2>1. log[m].amount \in Nat /\ bundled[m] \in Nat /\ bundled[m] <= log[m].amount
      BY DEF Shape, Purse, RowPurse, Row
    <2> QED BY <2>1 DEF RowPaid
  <1>2. ASSUME NEW b \in Batches PROVE CallPaid[b] \in Nat /\ CallBundled[b] \in Nat
    <2>1. Cost(b) \in Nat /\ pending[b] \in Nat  BY CostInOrder DEF Purse
    <2>2. At(b, "ticket") => pending[b] <= Cost(b)  BY DEF Purse, CallPurse
    <2> QED BY <2>1, <2>2 DEF CallPaid, CallBundled
  <1>3. ASSUME NEW r \in Retriers PROVE RetryPaid[r] \in Nat /\ RetryBundled[r] \in Nat
    <2>1. pending[r] \in Nat  BY DEF Purse
    <2>2. RetryAt(r, "stamp") => Segments[Msg(r)] \in Nat /\ pending[r] <= Segments[Msg(r)]
      BY AmountAssumption DEF Purse, RetryPurse, Shape, RetryAt
    <2> QED BY <2>1, <2>2 DEF RetryPaid, RetryBundled
  <1> QED BY <1>1, <1>2, <1>3

LEMMA PartsSummable ==
  ASSUME Shape, Purse
  PROVE  /\ Summable(RowPaid, Messages) /\ Summable(bundled, Messages)
         /\ Summable(CallPaid, Batches) /\ Summable(CallBundled, Batches)
         /\ Summable(RetryPaid, Retriers) /\ Summable(RetryBundled, Retriers)
  BY PartTypes, RetriersFinite, TableAssumption DEF Summable

LEMMA SumTypes ==
  ASSUME Shape, Purse
  PROVE  /\ RowsPaid \in Nat
         /\ RowsBundled \in Nat
         /\ CallsPaid \in Nat
         /\ CallsBundled \in Nat
         /\ RetriesPaid \in Nat
         /\ RetriesBundled \in Nat
         /\ Paid \in Nat /\ Bundled \in Nat
  <1>1. /\ RowsPaid \in Nat
        /\ RowsBundled \in Nat
        /\ CallsPaid \in Nat
        /\ CallsBundled \in Nat
        /\ RetriesPaid \in Nat
        /\ RetriesBundled \in Nat
    BY PartTypes, RetriersFinite, TableAssumption, SumIsNat
    DEF RowsPaid, RowsBundled, CallsPaid, CallsBundled, RetriesPaid, RetriesBundled
  <1> QED BY <1>1 DEF Paid, Bundled

LEMMA SumTypesNext == Shape' /\ Purse' => Paid' \in Nat /\ Bundled' \in Nat
  <1>1. Shape /\ Purse => Paid \in Nat /\ Bundled \in Nat  BY SumTypes
  <1>2. (Shape /\ Purse => Paid \in Nat /\ Bundled \in Nat)'  BY <1>1, PTL
  <1> QED BY <1>2

LEMMA TicketedIsOpen ==
  ASSUME Shape, Purse
  PROVE  Ticketed.paid = Paid /\ Ticketed.bundled = Bundled
  <1>1. PaidOf(Messages) = SumFunctionOnSet(RowPaid, Messages)  BY DEF PaidOf, RowPaid
  <1> DEFINE cp == [b \in Batches |-> Cost(b) - pending[b]]
             rp == [r \in Retriers |-> Segments[Msg(r)] - pending[r]]
  <1>2. Tickets \in SUBSET Batches /\ Stamps \in SUBSET Retriers  BY DEF Tickets, Stamps
  <1>3. /\ \A b \in Batches : pending[b] \in Int /\ Cost(b) \in Int
        /\ \A r \in Retriers : pending[r] \in Int
        /\ \A r \in Stamps : Segments[Msg(r)] \in Int
    <2>1. \A b \in Batches : pending[b] \in Nat /\ Cost(b) \in Nat  BY CostInOrder DEF Purse
    <2>2. \A r \in Retriers : pending[r] \in Nat  BY DEF Purse
    <2>3. \A r \in Stamps : Msg(r) \in Messages  BY DEF Stamps, Shape, RetryAt
    <2>4. \A r \in Stamps : Segments[Msg(r)] \in Nat  BY <2>3, AmountAssumption
    <2> QED BY <2>1, <2>2, <2>4
  <1>4. SumFunctionOnSet(cp, Tickets) = SumFunctionOnSet(CallPaid, Batches)
    <2>1. Summable(cp, Batches)  BY <1>3, TableAssumption DEF Summable
    <2>2. \A b \in Batches : CallPaid[b] = IF b \in Tickets THEN cp[b] ELSE 0
      BY DEF CallPaid, Tickets
    <2> HIDE DEF cp
    <2> QED BY <1>2, <2>1, <2>2, SumZeroed
  <1>5. SumFunctionOnSet(pending, Tickets) = SumFunctionOnSet(CallBundled, Batches)
    <2>1. Summable(pending, Batches)  BY <1>3, TableAssumption DEF Summable
    <2>2. \A b \in Batches : CallBundled[b] = IF b \in Tickets THEN pending[b] ELSE 0
      BY DEF CallBundled, Tickets
    <2> QED BY <1>2, <2>1, <2>2, SumZeroed
  <1>6. SumFunctionOnSet(rp, Stamps) = SumFunctionOnSet(RetryPaid, Retriers)
    <2> DEFINE sp == [r \in Retriers |-> IF r \in Stamps THEN rp[r] ELSE 0]
    <2>1. Summable(sp, Retriers)  BY <1>3, RetriersFinite DEF Summable
    <2>2. \A r \in Retriers : RetryPaid[r] = IF r \in Stamps THEN sp[r] ELSE 0
      BY DEF RetryPaid, Stamps
    <2>3. \A r \in Stamps : rp[r] = sp[r]  BY <1>2
    <2>4. IsFiniteSet(Stamps)  BY <1>2, RetriersFinite, FS_Subset
    <2> HIDE DEF rp, sp
    <2>5. SumFunctionOnSet(RetryPaid, Retriers) = SumFunctionOnSet(sp, Stamps)
      BY <1>2, <2>1, <2>2, SumZeroed
    <2>6. SumFunctionOnSet(rp, Stamps) = SumFunctionOnSet(sp, Stamps)
      BY <2>3, <2>4, SumSame
    <2> QED BY <2>5, <2>6
  <1>7. SumFunctionOnSet(pending, Stamps) = SumFunctionOnSet(RetryBundled, Retriers)
    <2>1. Summable(pending, Retriers)  BY <1>3, RetriersFinite DEF Summable
    <2>2. \A r \in Retriers : RetryBundled[r] = IF r \in Stamps THEN pending[r] ELSE 0
      BY DEF RetryBundled, Stamps
    <2> QED BY <1>2, <2>1, <2>2, SumZeroed
  <1>8. AllowanceOf(Messages) = SumFunctionOnSet(bundled, Messages)  BY DEF AllowanceOf
  <1> QED BY <1>1, <1>4, <1>5, <1>6, <1>7, <1>8
         DEF Ticketed, Paid, Bundled, RowsPaid, RowsBundled, CallsPaid, CallsBundled, RetriesPaid,
             RetriesBundled

\* Whatever a step does of the four, the counters go on to cover what is open, and nothing
\* is promised that is not there.
LEMMA MovedHolds ==
  ASSUME Shape, Shape', Purse, Purse', Exact, NotOverspent, Moved
  PROVE  Exact' /\ NotOverspent'
  <1>1. /\ account.credits \in Nat /\ account.reserved \in Nat
        /\ account.used \in Nat /\ account.held \in Nat
        /\ account = [credits |-> account.credits, reserved |-> account.reserved,
                      used |-> account.used, held |-> account.held]
        /\ Paid \in Nat /\ Bundled \in Nat /\ Included \in Nat
        /\ Paid' \in Nat /\ Bundled' \in Nat
    BY SumTypes, SumTypesNext, AmountAssumption DEF Purse, Account
  <1> DEFINE c == account.credits
             h == account.held
             u == account.used
             v == account.reserved
  <1>2. /\ v <= c /\ u + h <= Included /\ Paid <= v /\ Bundled <= h
        /\ ~strayed => Paid = v /\ Bundled = h
    BY DEF NotOverspent, Exact
  <1>3. CASE Leaves
    <2>1. /\ account'.reserved = v /\ account'.held = h
          /\ account'.credits \in {c, c + 1} /\ account'.used \in {u, 0}
      BY <1>1, <1>3 DEF Leaves
    <2>2. Paid' = Paid /\ Bundled' = Bundled /\ strayed' = strayed  BY <1>3 DEF Leaves
    <2> HIDE DEF c, h, u, v
    <2> QED BY <1>1, <1>2, <2>1, <2>2 DEF Exact, NotOverspent, c, h, u, v
  <1>4. CASE Earmarks
    <2>1. PICK n \in Nat :
            /\ Affordable(n) /\ account' = Earmarked(n) /\ strayed' = strayed
            /\ Paid' = Paid + (n - FromAllowance(n)) /\ Bundled' = Bundled + FromAllowance(n)
      BY <1>4 DEF Earmarks
    <2> DEFINE f == FromAllowance(n)
    <2>2. f \in 0..n /\ (f = 0 \/ u + h + f <= Included)
      <3>1. f = AtMost(AtLeast(Included - u - h, 0), n)  BY DEF FromAllowance, AllowanceLeft
      <3> HIDE DEF f, u, h
      <3> QED BY <1>1, <1>2, <3>1 DEF AtMost, AtLeast, u, h
    <2>3. n - f <= c - v  BY <2>1 DEF Affordable, Available
    <2>4. /\ account'.reserved = v + n - f /\ account'.held = h + f
          /\ account'.credits = c /\ account'.used = u
      BY <1>1, <2>1 DEF Earmarked
    <2>5. Paid' = Paid + (n - f) /\ Bundled' = Bundled + f /\ strayed' = strayed  BY <2>1
    <2> HIDE DEF c, h, u, v, f
    <2>6. /\ c \in Nat /\ v \in Nat /\ u \in Nat /\ h \in Nat  BY <1>1 DEF c, h, u, v
    <2> QED BY <1>1, <1>2, <2>2, <2>3, <2>4, <2>5, <2>6 DEF Exact, NotOverspent
  <1>5. CASE Settles
    <2>1. PICK p \in Nat, q \in Nat :
            /\ Paid' = Paid - p /\ Bundled' = Bundled - q /\ strayed' = strayed
            /\ account' \in
                 {[account EXCEPT !.reserved = AtLeast(@ - p, 0), !.held = AtLeast(@ - q, 0)],
                  [account EXCEPT !.reserved = AtLeast(@ - p, 0), !.credits = AtLeast(@ - p, 0),
                                  !.held = AtLeast(@ - q, 0), !.used = @ + q]}
      BY <1>5 DEF Settles
    <2>2. /\ account'.reserved = AtLeast(v - p, 0) /\ account'.held = AtLeast(h - q, 0)
          /\ \/ account'.credits = c /\ account'.used = u
             \/ account'.credits = AtLeast(c - p, 0) /\ account'.used = u + q
      BY <1>1, <2>1
    <2> HIDE DEF c, h, u, v
    <2>3. /\ c \in Nat /\ v \in Nat /\ u \in Nat /\ h \in Nat  BY <1>1 DEF c, h, u, v
    <2>4. p <= Paid /\ q <= Bundled  BY <1>1, <2>1
    <2>5. p <= v /\ q <= h /\ p <= c  BY <1>1, <1>2, <2>3, <2>4
    <2>6. /\ account'.reserved = v - p /\ account'.held = h - q
          /\ \/ account'.credits = c /\ account'.used = u
             \/ account'.credits = c - p /\ account'.used = u + q
      BY <2>2, <2>3, <2>5 DEF AtLeast
    <2> QED BY <1>1, <1>2, <2>1, <2>3, <2>6 DEF Exact, NotOverspent
  <1>6. CASE Loses
    <2>1. /\ account'.reserved = v /\ account'.held = h
          /\ account'.credits = c /\ account'.used = u
          /\ Paid' <= Paid /\ Bundled' <= Bundled /\ strayed'
      BY <1>6 DEF Loses
    <2> HIDE DEF c, h, u, v
    <2>2. /\ c \in Nat /\ v \in Nat /\ u \in Nat /\ h \in Nat  BY <1>1 DEF c, h, u, v
    <2>3. Paid' <= v /\ Bundled' <= h  BY <1>1, <1>2, <2>1, <2>2
    <2> QED BY <1>1, <1>2, <2>1, <2>3 DEF Exact, NotOverspent, c, h, u, v
  <1> QED BY <1>3, <1>4, <1>5, <1>6 DEF Moved

-----------------------------------------------------------------------------
(* What a step leaves alone.                                               *)

RowsStay ==
  UNCHANGED bundled
    /\ \A m \in Messages : log'[m].amount = log[m].amount /\ log'[m].billing = log[m].billing
CallsStay ==
  UNCHANGED kind
    /\ \A b \in Batches : (At(b, "ticket")' <=> At(b, "ticket")) /\ pending'[b] = pending[b]
RetriesStay ==
  \A r \in Retriers :
    /\ (RetryAt(r, "stamp")' <=> RetryAt(r, "stamp")) /\ pending'[r] = pending[r]
    /\ RetryAt(r, "stamp") => Msg(r)' = Msg(r)

LEMMA RowsUnmoved ==
  ASSUME RowPurse, RowsStay
  PROVE  RowPurse' /\ RowsPaid' = RowsPaid /\ RowsBundled' = RowsBundled
  <1>1. RowPurse'  BY DEF RowPurse, RowsStay, Reserved
  <1>2. \A m \in Messages : RowPaid'[m] = RowPaid[m]  BY DEF RowPaid, RowsStay
  <1>3. RowsPaid' = RowsPaid  BY <1>2, TableAssumption, SumSame DEF RowsPaid
  <1> QED BY <1>1, <1>3 DEF RowsBundled, RowsStay

LEMMA CallsUnmoved ==
  ASSUME CallPurse, CallsStay
  PROVE  CallPurse' /\ CallsPaid' = CallsPaid /\ CallsBundled' = CallsBundled
  <1>1. CallPurse'  BY DEF CallPurse, CallsStay, Cost
  <1>2. \A b \in Batches : CallPaid'[b] = CallPaid[b] /\ CallBundled'[b] = CallBundled[b]
    BY DEF CallPaid, CallBundled, CallsStay, Cost
  <1> QED BY <1>1, <1>2, TableAssumption, SumSame DEF CallsPaid, CallsBundled

LEMMA RetriesUnmoved ==
  ASSUME RetryPurse, RetriesStay
  PROVE  RetryPurse' /\ RetriesPaid' = RetriesPaid /\ RetriesBundled' = RetriesBundled
  <1>1. RetryPurse'  BY DEF RetryPurse, RetriesStay
  <1>2. \A r \in Retriers : RetryPaid'[r] = RetryPaid[r] /\ RetryBundled'[r] = RetryBundled[r]
    BY DEF RetryPaid, RetryBundled, RetriesStay
  <1> QED BY <1>1, <1>2, RetriersFinite, SumSame DEF RetriesPaid, RetriesBundled

\* A step that only writes verdicts, failures and answers.
LEMMA Quiet ==
  ASSUME Purse, RowsStay, CallsStay, RetriesStay, UNCHANGED <<account, pending, strayed>>
  PROVE  Purse' /\ Moved
  BY RowsUnmoved, CallsUnmoved, RetriesUnmoved DEF Purse, Moved, Leaves, Paid, Bundled

\* The settlement of some rows, or the loss of the call that settles them.
LEMMA SettleRows ==
  ASSUME Shape, Purse, NEW ids \in SUBSET Messages, NEW outcome \in {"consume", "release"},
         Settle(ids, outcome)
  PROVE  /\ RowPurse' /\ account' \in Account
         /\ \E p, q \in Nat :
              /\ RowsPaid' = RowsPaid - p /\ RowsBundled' = RowsBundled - q
              /\ account' \in
                 {[account EXCEPT !.reserved = AtLeast(@ - p, 0), !.held = AtLeast(@ - q, 0)],
                  [account EXCEPT !.reserved = AtLeast(@ - p, 0), !.credits = AtLeast(@ - p, 0),
                                  !.held = AtLeast(@ - q, 0), !.used = @ + q]}
  <1> DEFINE S == {m \in ids : Reserved(m)}
             p == SumFunctionOnSet(RowPaid, S)
             q == SumFunctionOnSet(bundled, S)
  <1>1. S \in SUBSET Messages /\ IsFiniteSet(S)  BY TableAssumption, FS_Subset
  <1>2. p \in Nat /\ q \in Nat
    <2>1. \A m \in S : RowPaid[m] \in Nat /\ bundled[m] \in Nat  BY <1>1, PartTypes
    <2> HIDE DEF S
    <2> QED BY <1>1, <2>1, SumIsNat
  <1>3. /\ log' = [m \in Messages |->
             IF m \in S
             THEN [log[m] EXCEPT !.billing = IF outcome = "consume" THEN "consumed"
                                             ELSE "released",
                                 !.amount = 0]
             ELSE log[m]]
        /\ bundled' = [m \in Messages |-> IF m \in S THEN 0 ELSE bundled[m]]
    BY DEF Settle
  <1>4. \A m \in Messages :
          IF m \in S THEN bundled'[m] = 0 /\ log'[m].amount = 0 /\ log'[m].billing # "reserved"
          ELSE bundled'[m] = bundled[m] /\ log'[m] = log[m]
    BY <1>3 DEF Shape, Row
  <1>5. RowPurse'
    <2>1. bundled' \in [Messages -> Nat]  BY <1>3 DEF Purse, RowPurse
    <2> QED BY <1>4, <2>1 DEF Purse, RowPurse, Reserved
  <1>6. \A m \in Messages : RowPaid'[m] = IF m \in S THEN 0 ELSE RowPaid[m]
    BY <1>4 DEF RowPaid
  <1>7. RowsPaid' = RowsPaid - p /\ RowsBundled' = RowsBundled - q
    <2>1. \A m \in Messages : bundled'[m] = IF m \in S THEN 0 ELSE bundled[m]  BY <1>4
    <2> HIDE DEF S
    <2> QED BY <1>1, <1>6, <2>1, PartsSummable, SumCleared DEF RowsPaid, RowsBundled
  <1>8. PaidOf(S) = p /\ AllowanceOf(S) = q  BY DEF PaidOf, AllowanceOf, RowPaid
  <1>9. account' = [account EXCEPT
          !.reserved = AtLeast(@ - p, 0),
          !.credits  = IF outcome = "consume" THEN AtLeast(@ - p, 0) ELSE @,
          !.held     = AtLeast(@ - q, 0),
          !.used     = IF outcome = "consume" THEN @ + q ELSE @]
    BY <1>8 DEF Settle
  <1> HIDE DEF p, q
  <1>10. account' \in
           {[account EXCEPT !.reserved = AtLeast(@ - p, 0), !.held = AtLeast(@ - q, 0)],
            [account EXCEPT !.reserved = AtLeast(@ - p, 0), !.credits = AtLeast(@ - p, 0),
                            !.held = AtLeast(@ - q, 0), !.used = @ + q]}
    BY <1>9 DEF Purse, Account
  <1>11. account' \in Account
    <2>1. account \in Account  BY DEF Purse
    <2>2. \A n \in Nat : AtLeast(n - p, 0) \in Nat /\ AtLeast(n - q, 0) \in Nat /\ n + q \in Nat
      BY <1>2 DEF AtLeast
    <2> QED BY <1>9, <2>1, <2>2 DEF Account
  <1> QED BY <1>2, <1>5, <1>7, <1>10, <1>11

LEMMA SettledMoves ==
  ASSUME Shape, Purse, NEW ids \in SUBSET Messages, NEW outcome \in {"consume", "release"},
         Settled(ids, outcome), CallsStay, RetriesStay, UNCHANGED <<pending, strayed>>
  PROVE  Purse' /\ Moved
  <1>1. CASE Settle(ids, outcome)
    <2>1. /\ CallPurse' /\ CallsPaid' = CallsPaid /\ CallsBundled' = CallsBundled
          /\ RetryPurse' /\ RetriesPaid' = RetriesPaid /\ RetriesBundled' = RetriesBundled
      BY CallsUnmoved, RetriesUnmoved DEF Purse
    <2>2. RowPurse' /\ account' \in Account  BY <1>1, SettleRows
    <2>3. PICK p \in Nat, q \in Nat :
            /\ RowsPaid' = RowsPaid - p /\ RowsBundled' = RowsBundled - q
            /\ account' \in
                 {[account EXCEPT !.reserved = AtLeast(@ - p, 0), !.held = AtLeast(@ - q, 0)],
                  [account EXCEPT !.reserved = AtLeast(@ - p, 0), !.credits = AtLeast(@ - p, 0),
                                  !.held = AtLeast(@ - q, 0), !.used = @ + q]}
      BY <1>1, SettleRows
    <2>4. Paid' = Paid - p /\ Bundled' = Bundled - q
      BY <2>1, <2>3, SumTypes DEF Paid, Bundled
    <2>5. Settles  BY <2>3, <2>4 DEF Settles
    <2>6. Purse'  BY <2>1, <2>2 DEF Purse
    <2> QED BY <2>5, <2>6 DEF Moved
  <1>2. CASE UNCHANGED <<account, bundled, log, charged>>
    BY <1>2, Quiet DEF RowsStay
  <1> QED BY <1>1, <1>2 DEF Settled

-----------------------------------------------------------------------------
(* Earmarks.                                                               *)

LEMMA EarmarkedTypes ==
  ASSUME account \in Account, NEW n \in Nat, account' = Earmarked(n)
  PROVE  account' \in Account /\ FromAllowance(n) \in 0..n
  <1>1. FromAllowance(n) \in 0..n  BY ShareTypes DEF Account
  <1> DEFINE f == FromAllowance(n)
  <1>2. account' = [account EXCEPT !.reserved = @ + n - f, !.held = @ + f]  BY DEF Earmarked
  <1> HIDE DEF f
  <1>3. \A k \in Nat : k + n - f \in Nat /\ k + f \in Nat  BY <1>1 DEF f
  <1> QED BY <1>1, <1>2, <1>3 DEF Account

LEMMA QueueMoves ==
  ASSUME Shape, Purse, Unborn, NEW b \in Batches, Queue(b)
  PROVE  Purse' /\ Moved
  <1> DEFINE n == Cost(b)
             f == FromAllowance(n)
             own == [m \in Messages |-> Segments[m] - bundled'[m]]
  <1>1. /\ Affordable(n) /\ account' = Earmarked(n) /\ log' = Inserted(b)
        /\ bundled' = [m \in Messages |->
             IF m \in To(b)
             THEN ShareOf(b, CHOOSE i \in DOMAIN Recipients[b] : Recipients[b][i] = m)
             ELSE bundled[m]]
        /\ At(b, "idle") /\ Goto(b, "dispatch") /\ UNCHANGED <<pending, kind, retry, strayed>>
    BY DEF Queue, ghosts
  <1>2. n \in Nat /\ To(b) \in SUBSET Messages /\ IsFiniteSet(To(b))
    BY CostInOrder, RecipientTypes, TableAssumption, FS_Subset
  <1>3. account' \in Account /\ f \in 0..n
    <2>1. account \in Account  BY DEF Purse
    <2> HIDE DEF n
    <2> QED BY <1>1, <1>2, <2>1, EarmarkedTypes
  <1>4. /\ SumFunctionOnSet(bundled', To(b)) = f
        /\ \A m \in To(b) : bundled'[m] \in 0..Segments[m]
    <2>1. \A m \in To(b) :
            bundled'[m] = ShareOf(b, CHOOSE i \in DOMAIN Recipients[b] : Recipients[b][i] = m)
      BY <1>1, <1>2
    <2>2. account \in [credits : Nat, reserved : Nat, used : Nat, held : Nat]
      BY DEF Purse, Account
    <2> QED BY <2>1, <2>2, QueuedShares
  <1>5. \A m \in To(b) : log[m] = NoRow /\ bundled[m] = 0 /\ RowPaid[m] = 0
    <2> SUFFICES ASSUME NEW m \in To(b) PROVE log[m] = NoRow /\ bundled[m] = 0 /\ RowPaid[m] = 0
      OBVIOUS
    <2>1. log[m] = NoRow  BY <1>1 DEF Unborn, At
    <2>2. m \in Messages /\ bundled[m] \in Nat /\ bundled[m] <= log[m].amount
      BY <1>2 DEF Purse, RowPurse
    <2>3. bundled[m] = 0  BY <2>1, <2>2 DEF NoRow
    <2> QED BY <2>1, <2>2, <2>3 DEF RowPaid, NoRow
  <1>6. \A m \in Messages :
          IF m \in To(b) THEN log'[m].amount = Segments[m] /\ log'[m].billing = "reserved"
          ELSE log'[m] = log[m]
    BY <1>1 DEF Inserted, NewRow
  <1>7. RowPurse'
    <2>1. ASSUME NEW m \in Messages
          PROVE  bundled'[m] \in Nat /\ bundled'[m] <= log'[m].amount
                   /\ (~Reserved(m)' => log'[m].amount = 0)
      <3>1. CASE m \in To(b)
        <4>1. bundled'[m] \in 0..Segments[m] /\ Segments[m] \in Nat  BY <1>4, <3>1, AmountAssumption
        <4> QED BY <1>6, <3>1, <4>1 DEF Reserved
      <3>2. CASE m \notin To(b)
        <4>1. bundled'[m] = bundled[m] /\ log'[m] = log[m]  BY <1>1, <1>6, <3>2
        <4> QED BY <4>1 DEF Purse, RowPurse, Reserved
      <3> QED BY <3>1, <3>2
    <2>2. bundled' \in [Messages -> Nat]  BY <1>1, <2>1
    <2> QED BY <2>1, <2>2 DEF RowPurse
  <1>8. RowsBundled' = RowsBundled + f
    <2>1. \A m \in Messages : bundled'[m] = IF m \in To(b) THEN bundled'[m] ELSE bundled[m]
      BY <1>1
    <2>2. Summable(bundled', To(b))  BY <1>2, <1>7 DEF RowPurse, Summable
    <2> QED BY <1>2, <1>4, <1>5, <2>1, <2>2, PartsSummable, SumFilled DEF RowsBundled
  <1>9. SumFunctionOnSet(own, To(b)) = n - f
    <2>1. Summable(own, To(b)) /\ Summable(bundled', To(b))
      BY <1>2, <1>7, AmountAssumption DEF RowPurse, Summable
    <2>2. \A m \in To(b) : Segments[m] = own[m] + bundled'[m]
      BY <1>2, <1>7, AmountAssumption DEF RowPurse
    <2> HIDE DEF own
    <2>3. n = SumFunctionOnSet(own, To(b)) + SumFunctionOnSet(bundled', To(b))
      BY <2>1, <2>2, SumOfSums DEF Cost
    <2>4. SumFunctionOnSet(own, To(b)) \in Int  BY <2>1, SumIsInt
    <2> HIDE DEF n, f
    <2> QED BY <1>2, <1>3, <1>4, <2>3, <2>4
  <1>10. RowsPaid' = RowsPaid + (n - f)
    <2>1. \A m \in Messages : RowPaid'[m] = IF m \in To(b) THEN own[m] ELSE RowPaid[m]
      BY <1>1, <1>6 DEF RowPaid
    <2>2. Summable(own, To(b))  BY <1>2, <1>7, AmountAssumption DEF RowPurse, Summable
    <2> HIDE DEF own, n, f
    <2> QED BY <1>2, <1>5, <1>9, <2>1, <2>2, PartsSummable, SumFilled DEF RowsPaid
  <1>11. /\ CallPurse' /\ CallsPaid' = CallsPaid /\ CallsBundled' = CallsBundled
         /\ RetryPurse' /\ RetriesPaid' = RetriesPaid /\ RetriesBundled' = RetriesBundled
    <2>1. CallsStay  BY <1>1 DEF CallsStay, At, Goto, Shape
    <2>2. RetriesStay  BY <1>1 DEF RetriesStay, RetryAt, Msg
    <2> QED BY <2>1, <2>2, CallsUnmoved, RetriesUnmoved DEF Purse
  <1>12. Earmarks
    <2>1. Paid' = Paid + (n - f) /\ Bundled' = Bundled + f
      <3> HIDE DEF n, f
      <3> QED BY <1>2, <1>3, <1>8, <1>10, <1>11, SumTypes DEF Paid, Bundled
    <2> QED BY <1>1, <1>2, <2>1 DEF Earmarks
  <1>13. Purse'  BY <1>1, <1>3, <1>7, <1>11 DEF Purse
  <1> QED BY <1>12, <1>13 DEF Moved

-----------------------------------------------------------------------------
(* One earmark comes, goes or changes its place.                           *)

LEMMA OneRowMoves ==
  ASSUME Shape, Purse, NEW m \in Messages, RowPaid'[m] \in Int, bundled'[m] \in Int,
         \A n \in Messages \ {m} : bundled'[n] = bundled[n] /\ log'[n] = log[n]
  PROVE  /\ RowsPaid' = RowsPaid - RowPaid[m] + RowPaid'[m]
         /\ RowsBundled' = RowsBundled - bundled[m] + bundled'[m]
  <1>1. \A n \in Messages \ {m} : RowPaid[n] = RowPaid'[n] /\ bundled[n] = bundled'[n]
    BY DEF RowPaid
  <1>2. Summable(RowPaid, Messages) /\ Summable(bundled, Messages)  BY PartsSummable
  <1>3. Summable(RowPaid', Messages) /\ Summable(bundled', Messages)
    BY <1>1, <1>2 DEF Summable
  <1> QED BY <1>1, <1>2, <1>3, SumUpdated DEF RowsPaid, RowsBundled

LEMMA OneCallMoves ==
  ASSUME Shape, Purse, NEW b \in Batches, CallPaid'[b] \in Int, CallBundled'[b] \in Int,
         \A c \in Batches \ {b} : batch'[c] = batch[c] /\ pending'[c] = pending[c]
  PROVE  /\ CallsPaid' = CallsPaid - CallPaid[b] + CallPaid'[b]
         /\ CallsBundled' = CallsBundled - CallBundled[b] + CallBundled'[b]
  <1>1. \A c \in Batches \ {b} : CallPaid[c] = CallPaid'[c] /\ CallBundled[c] = CallBundled'[c]
    BY DEF CallPaid, CallBundled, At, Cost
  <1>2. Summable(CallPaid, Batches) /\ Summable(CallBundled, Batches)  BY PartsSummable
  <1>3. Summable(CallPaid', Batches) /\ Summable(CallBundled', Batches)
    BY <1>1, <1>2 DEF Summable
  <1> QED BY <1>1, <1>2, <1>3, SumUpdated DEF CallsPaid, CallsBundled

LEMMA OneRetryMoves ==
  ASSUME Shape, Purse, NEW r \in Retriers, RetryPaid'[r] \in Int, RetryBundled'[r] \in Int,
         \A q \in Retriers \ {r} : retry'[q] = retry[q] /\ pending'[q] = pending[q]
  PROVE  /\ RetriesPaid' = RetriesPaid - RetryPaid[r] + RetryPaid'[r]
         /\ RetriesBundled' = RetriesBundled - RetryBundled[r] + RetryBundled'[r]
  <1>1. \A q \in Retriers \ {r} :
          RetryPaid[q] = RetryPaid'[q] /\ RetryBundled[q] = RetryBundled'[q]
    BY DEF RetryPaid, RetryBundled, RetryAt, Msg
  <1>2. Summable(RetryPaid, Retriers) /\ Summable(RetryBundled, Retriers)  BY PartsSummable
  <1>3. Summable(RetryPaid', Retriers) /\ Summable(RetryBundled', Retriers)
    BY <1>1, <1>2 DEF Summable
  <1> QED BY <1>1, <1>2, <1>3, SumUpdated DEF RetriesPaid, RetriesBundled

LEMMA ReserveNoticeMoves ==
  ASSUME Shape, Purse, NEW b \in Batches, ReserveNotice(b)
  PROVE  Purse' /\ Moved
  <1> DEFINE n == Cost(b)
             f == FromAllowance(n)
  <1>1. /\ Affordable(n) /\ account' = Earmarked(n) /\ pending' = [pending EXCEPT ![b] = f]
        /\ At(b, "idle") /\ kind[b] = "notify" /\ Goto(b, "ticket")
        /\ UNCHANGED <<bundled, log, kind, retry, strayed>>
    BY DEF ReserveNotice, ghosts
  <1>2. n \in Nat /\ account \in Account  BY CostInOrder DEF Purse
  <1>3. account' \in Account /\ f \in 0..n
    <2> HIDE DEF n
    <2> QED BY <1>1, <1>2, EarmarkedTypes
  <1>4. /\ pending' \in [Batches \cup Retriers -> Nat] /\ pending'[b] = f
        /\ \A c \in (Batches \cup Retriers) \ {b} : pending'[c] = pending[c]
    <2> HIDE DEF f, n
    <2> QED BY <1>1, <1>3 DEF Purse
  <1>5. /\ batch'[b].at = "ticket" /\ \A c \in Batches \ {b} : batch'[c] = batch[c]
        /\ batch[b].at = "idle"
    BY <1>1 DEF Goto, At, Shape
  <1>6. CallPaid[b] = 0 /\ CallBundled[b] = 0 /\ CallPaid'[b] = n - f /\ CallBundled'[b] = f
    BY <1>4, <1>5 DEF CallPaid, CallBundled, At, Cost
  <1>7. CallsPaid' = CallsPaid + (n - f) /\ CallsBundled' = CallsBundled + f
    <2>1. CallPaid'[b] \in Int /\ CallBundled'[b] \in Int  BY <1>2, <1>3, <1>6
    <2>2. \A c \in Batches \ {b} : batch'[c] = batch[c] /\ pending'[c] = pending[c]
      BY <1>4, <1>5
    <2>3. /\ CallsPaid' = CallsPaid - CallPaid[b] + CallPaid'[b]
          /\ CallsBundled' = CallsBundled - CallBundled[b] + CallBundled'[b]
      BY <2>1, <2>2, OneCallMoves
    <2> HIDE DEF n, f
    <2> QED BY <1>2, <1>3, <1>6, <2>3, SumTypes
  <1>8. CallPurse'
    <2> HIDE DEF f
    <2> QED BY <1>1, <1>2, <1>3, <1>4, <1>5 DEF CallPurse, Purse, At, Cost
  <1>9. RowPurse' /\ RowsPaid' = RowsPaid /\ RowsBundled' = RowsBundled
    <2>1. RowsStay  BY <1>1 DEF RowsStay
    <2> QED BY <2>1, RowsUnmoved DEF Purse
  <1>10. RetryPurse' /\ RetriesPaid' = RetriesPaid /\ RetriesBundled' = RetriesBundled
    <2>1. RetriesStay  BY <1>1, <1>4, TableAssumption DEF RetriesStay, RetryAt, Msg
    <2> QED BY <2>1, RetriesUnmoved DEF Purse
  <1>11. Earmarks
    <2>1. Paid' = Paid + (n - f) /\ Bundled' = Bundled + f
      <3> HIDE DEF n, f
      <3> QED BY <1>2, <1>3, <1>7, <1>9, <1>10, SumTypes DEF Paid, Bundled
    <2> QED BY <1>1, <1>2, <2>1 DEF Earmarks
  <1> QED BY <1>1, <1>3, <1>4, <1>8, <1>9, <1>10, <1>11 DEF Purse, Moved

\* A reminder has one recipient, so its earmark is that of the row.
LEMMA InsertNoticeMoves ==
  ASSUME Shape, Purse, Unborn, NEW b \in Batches, InsertNotice(b)
  PROVE  Purse' /\ Moved
  <1>1. /\ At(b, "ticket") /\ log' = Inserted(b) /\ Goto(b, "dispatch")
        /\ bundled' = [m \in Messages |-> IF m \in To(b) THEN pending[b] ELSE bundled[m]]
        /\ UNCHANGED <<account, pending, kind, retry, strayed>>
    BY DEF InsertNotice, ghosts
  <1>2. kind[b] = "notify" /\ pending[b] <= Cost(b) /\ pending[b] \in Nat /\ Cost(b) \in Nat
    BY <1>1, CostInOrder DEF Purse, CallPurse
  <1>3. PICK m \in Messages : To(b) = {m} /\ Cost(b) = Segments[m]
    <2>1. Len(Recipients[b]) = 1  BY <1>2, BatchAssumption DEF Shape
    <2>2. DOMAIN Recipients[b] = {1}  BY <2>1, RecipientTypes
    <2>3. To(b) = {Recipients[b][1]} /\ Recipients[b][1] \in Messages
      BY <2>2, RecipientTypes DEF To
    <2> DEFINE x == Recipients[b][1]
    <2>4. Cost(b) = Segments[x]
      <3>1. Segments[x] \in Nat  BY <2>3, AmountAssumption
      <3> HIDE DEF x
      <3>2. SumFunctionOnSet(Segments, {x}) = Segments[x]  BY <3>1, SumOfOne
      <3> QED BY <2>3, <3>2 DEF Cost, x
    <2> QED BY <2>3, <2>4
  <1>4. log[m] = NoRow /\ bundled[m] = 0 /\ RowPaid[m] = 0
    <2>1. log[m] = NoRow  BY <1>1, <1>3 DEF Unborn, At
    <2>2. bundled[m] = 0  BY <2>1 DEF Purse, RowPurse, NoRow
    <2> QED BY <2>1, <2>2 DEF RowPaid, NoRow
  <1>5. /\ log'[m].amount = Cost(b) /\ log'[m].billing = "reserved" /\ bundled'[m] = pending[b]
        /\ \A n \in Messages \ {m} : bundled'[n] = bundled[n] /\ log'[n] = log[n]
    BY <1>1, <1>3 DEF Inserted, NewRow
  <1>6. RowPaid'[m] = Cost(b) - pending[b]  BY <1>5 DEF RowPaid
  <1>7. /\ RowsPaid' = RowsPaid + (Cost(b) - pending[b])
        /\ RowsBundled' = RowsBundled + pending[b]
    <2>1. RowPaid'[m] \in Int /\ bundled'[m] \in Int  BY <1>2, <1>5, <1>6
    <2>2. /\ RowsPaid' = RowsPaid - RowPaid[m] + RowPaid'[m]
          /\ RowsBundled' = RowsBundled - bundled[m] + bundled'[m]
      BY <1>5, <2>1, OneRowMoves
    <2> QED BY <1>2, <1>4, <1>5, <1>6, <2>2, SumTypes
  <1>8. RowPurse'
    <2>1. bundled' \in [Messages -> Nat]  BY <1>1, <1>2 DEF Purse, RowPurse
    <2> QED BY <1>2, <1>5, <2>1 DEF Purse, RowPurse, Reserved
  <1>9. /\ batch'[b].at = "dispatch" /\ \A c \in Batches \ {b} : batch'[c] = batch[c]
        /\ batch[b].at = "ticket"
    BY <1>1 DEF Goto, At, Shape
  <1>10. /\ CallPaid[b] = Cost(b) - pending[b] /\ CallBundled[b] = pending[b]
         /\ CallPaid'[b] = 0 /\ CallBundled'[b] = 0
    BY <1>9 DEF CallPaid, CallBundled, At
  <1>11. /\ CallsPaid' = CallsPaid - (Cost(b) - pending[b])
         /\ CallsBundled' = CallsBundled - pending[b]
    <2>1. CallPaid'[b] \in Int /\ CallBundled'[b] \in Int  BY <1>10
    <2>2. /\ CallsPaid' = CallsPaid - CallPaid[b] + CallPaid'[b]
          /\ CallsBundled' = CallsBundled - CallBundled[b] + CallBundled'[b]
      BY <1>1, <1>9, <2>1, OneCallMoves
    <2> QED BY <1>2, <1>10, <2>2, SumTypes
  <1>12. CallPurse'  BY <1>1, <1>9 DEF CallPurse, Purse, At, Cost
  <1>13. RetryPurse' /\ RetriesPaid' = RetriesPaid /\ RetriesBundled' = RetriesBundled
    <2>1. RetriesStay  BY <1>1 DEF RetriesStay, RetryAt, Msg
    <2> QED BY <2>1, RetriesUnmoved DEF Purse
  <1>14. Paid' = Paid /\ Bundled' = Bundled
    BY <1>2, <1>7, <1>11, <1>13, SumTypes DEF Paid, Bundled
  <1> QED BY <1>1, <1>8, <1>12, <1>13, <1>14 DEF Purse, Moved, Leaves

\* The earmark of a reminder is handed back because its row could not be written.
LEMMA NoticeUnrecordedMoves ==
  ASSUME Shape, Purse, NEW b \in Batches, NoticeUnrecorded(b)
  PROVE  Purse' /\ Moved
  <1> DEFINE p == Cost(b) - pending[b]
             q == pending[b]
  <1>1. /\ At(b, "ticket") /\ Goto(b, "dispatch")
        /\ \/ account' = Unmarked(Cost(b), pending[b]) /\ strayed' = strayed
           \/ account' = account /\ strayed' = TRUE
        /\ UNCHANGED <<bundled, pending, log, kind, retry>>
    BY DEF NoticeUnrecorded
  <1>2. p \in Nat /\ q \in Nat
    <2>1. pending[b] <= Cost(b) /\ pending[b] \in Nat /\ Cost(b) \in Nat
      BY <1>1, CostInOrder DEF Purse, CallPurse
    <2> QED BY <2>1
  <1>3. \/ /\ strayed' = strayed
           /\ account' =
                [account EXCEPT !.reserved = AtLeast(@ - p, 0), !.held = AtLeast(@ - q, 0)]
        \/ account' = account /\ strayed' = TRUE
    BY <1>1 DEF Unmarked
  <1>4. account' \in Account
    <2>1. account \in Account  BY DEF Purse
    <2> HIDE DEF p, q
    <2>2. \A n \in Nat : AtLeast(n - p, 0) \in Nat /\ AtLeast(n - q, 0) \in Nat
      BY <1>2 DEF AtLeast
    <2> QED BY <1>3, <2>1, <2>2 DEF Account
  <1>5. /\ batch'[b].at = "dispatch" /\ \A c \in Batches \ {b} : batch'[c] = batch[c]
        /\ batch[b].at = "ticket"
    BY <1>1 DEF Goto, At, Shape
  <1>6. /\ CallPaid[b] = p /\ CallBundled[b] = q /\ CallPaid'[b] = 0 /\ CallBundled'[b] = 0
    BY <1>5 DEF CallPaid, CallBundled, At
  <1>7. CallsPaid' = CallsPaid - p /\ CallsBundled' = CallsBundled - q
    <2>1. CallPaid'[b] \in Int /\ CallBundled'[b] \in Int  BY <1>6
    <2>2. /\ CallsPaid' = CallsPaid - CallPaid[b] + CallPaid'[b]
          /\ CallsBundled' = CallsBundled - CallBundled[b] + CallBundled'[b]
      BY <1>1, <1>5, <2>1, OneCallMoves
    <2> HIDE DEF p, q
    <2> QED BY <1>2, <1>6, <2>2, SumTypes
  <1>8. CallPurse'  BY <1>1, <1>5 DEF CallPurse, Purse, At, Cost
  <1>9. RowPurse' /\ RowsPaid' = RowsPaid /\ RowsBundled' = RowsBundled
    <2>1. RowsStay  BY <1>1 DEF RowsStay
    <2> QED BY <2>1, RowsUnmoved DEF Purse
  <1>10. RetryPurse' /\ RetriesPaid' = RetriesPaid /\ RetriesBundled' = RetriesBundled
    <2>1. RetriesStay  BY <1>1 DEF RetriesStay, RetryAt, Msg
    <2> QED BY <2>1, RetriesUnmoved DEF Purse
  <1>11. Paid' = Paid - p /\ Bundled' = Bundled - q
    <2> HIDE DEF p, q
    <2> QED BY <1>2, <1>7, <1>9, <1>10, SumTypes DEF Paid, Bundled
  <1>12. Settles \/ Loses
    <2> HIDE DEF p, q
    <2>1. Paid \in Int /\ Bundled \in Int  BY SumTypes DEF Paid, Bundled
    <2>2. Paid - p <= Paid /\ Bundled - q <= Bundled  BY <1>2, <2>1
    <2>3. CASE account' = account /\ strayed' = TRUE
      BY <1>11, <2>2, <2>3 DEF Loses
    <2>4. CASE /\ strayed' = strayed
               /\ account' =
                    [account EXCEPT !.reserved = AtLeast(@ - p, 0), !.held = AtLeast(@ - q, 0)]
      BY <1>2, <1>11, <2>4 DEF Settles
    <2> QED BY <1>3, <2>3, <2>4
  <1> QED BY <1>1, <1>4, <1>8, <1>9, <1>10, <1>12 DEF Purse, Moved

\* A call dies; between its two commits, the earmark is lost.
LEMMA BatchDiesMoves ==
  ASSUME Shape, Purse, NEW b \in Batches, BatchDies(b)
  PROVE  Purse' /\ Moved
  <1>1. /\ Goto(b, "done") /\ strayed' = (strayed \/ At(b, "ticket"))
        /\ UNCHANGED <<money, log, kind, retry>>
    BY DEF BatchDies
  <1>2. /\ batch'[b].at = "done" /\ \A c \in Batches \ {b} : batch'[c] = batch[c]
    BY <1>1 DEF Goto, Shape
  <1>3. RowsStay /\ RetriesStay
    BY <1>1 DEF RowsStay, RetriesStay, money, RetryAt, Msg
  <1>4. CASE ~At(b, "ticket")
    <2>1. CallsStay  BY <1>1, <1>2, <1>4 DEF CallsStay, At, money
    <2>2. UNCHANGED <<account, pending, strayed>>  BY <1>1, <1>4 DEF money, Purse
    <2> QED BY <1>3, <2>1, <2>2, Quiet
  <1>5. CASE At(b, "ticket")
    <2>1. /\ CallPaid[b] \in Nat /\ CallBundled[b] \in Nat
          /\ CallPaid'[b] = 0 /\ CallBundled'[b] = 0
      BY <1>2, PartTypes DEF CallPaid, CallBundled, At
    <2>2. /\ CallsPaid' = CallsPaid - CallPaid[b] + CallPaid'[b]
          /\ CallsBundled' = CallsBundled - CallBundled[b] + CallBundled'[b]
      <3>1. CallPaid'[b] \in Int /\ CallBundled'[b] \in Int  BY <2>1
      <3> QED BY <1>1, <1>2, <3>1, OneCallMoves DEF money
    <2>3. CallsPaid' <= CallsPaid /\ CallsBundled' <= CallsBundled
          /\ CallsPaid' \in Int /\ CallsBundled' \in Int
      BY <2>1, <2>2, SumTypes
    <2>4. /\ RowPurse' /\ RowsPaid' = RowsPaid /\ RowsBundled' = RowsBundled
          /\ RetryPurse' /\ RetriesPaid' = RetriesPaid /\ RetriesBundled' = RetriesBundled
      BY <1>3, RowsUnmoved, RetriesUnmoved DEF Purse
    <2>5. Paid' <= Paid /\ Bundled' <= Bundled
      BY <2>3, <2>4, SumTypes DEF Paid, Bundled
    <2>6. CallPurse'  BY <1>1, <1>2 DEF CallPurse, Purse, At, Cost, money
    <2> QED BY <1>1, <1>5, <2>4, <2>5, <2>6 DEF Purse, Moved, Loses, money
  <1> QED BY <1>4, <1>5

LEMMA RereserveMoves ==
  ASSUME Shape, Purse, NEW r \in Retriers, Rereserve(r)
  PROVE  Purse' /\ Moved
  <1> DEFINE n == Segments[Msg(r)]
             f == FromAllowance(n)
  <1>1. /\ Affordable(n) /\ account' = Earmarked(n) /\ pending' = [pending EXCEPT ![r] = f]
        /\ RetryAt(r, "chosen") /\ RetryGoto(r, "stamp")
        /\ UNCHANGED <<bundled, log, kind, batch, strayed>>
    BY DEF Rereserve, ghosts
  <1>2. n \in Nat /\ account \in Account
    BY <1>1, AmountAssumption DEF Purse, Shape, RetryAt
  <1>3. account' \in Account /\ f \in 0..n
    <2> HIDE DEF n
    <2> QED BY <1>1, <1>2, EarmarkedTypes
  <1>4. /\ pending' \in [Batches \cup Retriers -> Nat] /\ pending'[r] = f
        /\ \A q \in (Batches \cup Retriers) \ {r} : pending'[q] = pending[q]
    <2> HIDE DEF f, n
    <2> QED BY <1>1, <1>3 DEF Purse
  <1>5. /\ retry'[r].at = "stamp" /\ Msg(r)' = Msg(r) /\ retry[r].at = "chosen"
        /\ \A q \in Retriers \ {r} : retry'[q] = retry[q]
    BY <1>1 DEF RetryGoto, RetryAt, Msg, Shape
  <1>6. RetryPaid[r] = 0 /\ RetryBundled[r] = 0 /\ RetryPaid'[r] = n - f /\ RetryBundled'[r] = f
    BY <1>4, <1>5 DEF RetryPaid, RetryBundled, RetryAt
  <1>7. RetriesPaid' = RetriesPaid + (n - f) /\ RetriesBundled' = RetriesBundled + f
    <2>1. RetryPaid'[r] \in Int /\ RetryBundled'[r] \in Int  BY <1>2, <1>3, <1>6
    <2>2. \A q \in Retriers \ {r} : retry'[q] = retry[q] /\ pending'[q] = pending[q]
      BY <1>4, <1>5
    <2>3. /\ RetriesPaid' = RetriesPaid - RetryPaid[r] + RetryPaid'[r]
          /\ RetriesBundled' = RetriesBundled - RetryBundled[r] + RetryBundled'[r]
      BY <2>1, <2>2, OneRetryMoves
    <2> HIDE DEF n, f
    <2> QED BY <1>2, <1>3, <1>6, <2>3, SumTypes
  <1>8. RetryPurse'
    <2>1. pending'[r] <= Segments[Msg(r)']  BY <1>2, <1>3, <1>4, <1>5
    <2>2. \A q \in Retriers \ {r} : RetryAt(q, "stamp")' => pending'[q] <= Segments[Msg(q)']
      BY <1>4, <1>5 DEF Purse, RetryPurse, RetryAt, Msg
    <2> QED BY <2>1, <2>2 DEF RetryPurse
  <1>9. RowPurse' /\ RowsPaid' = RowsPaid /\ RowsBundled' = RowsBundled
    <2>1. RowsStay  BY <1>1 DEF RowsStay
    <2> QED BY <2>1, RowsUnmoved DEF Purse
  <1>10. CallPurse' /\ CallsPaid' = CallsPaid /\ CallsBundled' = CallsBundled
    <2>1. CallsStay  BY <1>1, <1>4, TableAssumption DEF CallsStay, At
    <2> QED BY <2>1, CallsUnmoved DEF Purse
  <1>11. Earmarks
    <2>1. Paid' = Paid + (n - f) /\ Bundled' = Bundled + f
      <3> HIDE DEF n, f
      <3> QED BY <1>2, <1>3, <1>7, <1>9, <1>10, SumTypes DEF Paid, Bundled
    <2> QED BY <1>1, <1>2, <2>1 DEF Earmarks
  <1> QED BY <1>1, <1>3, <1>4, <1>8, <1>9, <1>10, <1>11 DEF Purse, Moved

\* The earmark of a retry goes on the row, and one that stood there is lost.
LEMMA StampMoves ==
  ASSUME Shape, Purse, NEW r \in Retriers, Stamp(r)
  PROVE  Purse' /\ Moved
  <1> DEFINE m == Msg(r)
             n == Segments[m]
             f == pending[r]
  <1>1. /\ RetryAt(r, "stamp") /\ RetryGoto(r, "send")
        /\ log' = [log EXCEPT ![m].billing = "reserved", ![m].amount = n]
        /\ bundled' = [bundled EXCEPT ![m] = f]
        /\ strayed' = (strayed \/ Reserved(m))
        /\ UNCHANGED <<account, pending, kind, batch>>
    BY DEF Stamp
  <1>2. m \in Messages /\ n \in Nat /\ f \in Nat /\ f <= n
    BY <1>1, AmountAssumption DEF Purse, RetryPurse, Shape, RetryAt
  <1>3. /\ bundled'[m] = f /\ log'[m].amount = n /\ log'[m].billing = "reserved"
        /\ \A q \in Messages \ {m} : bundled'[q] = bundled[q] /\ log'[q] = log[q]
        /\ bundled' \in [Messages -> Nat]
    <2> HIDE DEF m, n, f
    <2>1. bundled \in [Messages -> Nat] /\ log \in [Messages -> Row]
      BY DEF Purse, RowPurse, Shape
    <2>2. bundled' \in [Messages -> Nat] /\ bundled'[m] = f
          /\ \A q \in Messages \ {m} : bundled'[q] = bundled[q]
      BY <1>1, <1>2, <2>1
    <2>3. /\ log'[m].amount = n /\ log'[m].billing = "reserved"
          /\ \A q \in Messages \ {m} : log'[q] = log[q]
      BY <1>1, <1>2, <2>1 DEF Row
    <2> QED BY <2>2, <2>3
  <1>4. RowPaid[m] \in Nat /\ bundled[m] \in Nat /\ RowPaid'[m] = n - f
    BY <1>2, <1>3, PartTypes DEF RowPaid
  <1>5. RowsPaid' = RowsPaid - RowPaid[m] + (n - f) /\ RowsBundled' = RowsBundled - bundled[m] + f
    <2>1. RowPaid'[m] \in Int /\ bundled'[m] \in Int  BY <1>2, <1>3, <1>4
    <2> HIDE DEF m, n, f
    <2> QED BY <1>2, <1>3, <1>4, <2>1, OneRowMoves
  <1>6. RowPurse'
    <2> HIDE DEF m, n, f
    <2> QED BY <1>2, <1>3 DEF Purse, RowPurse, Reserved
  <1>7. /\ retry'[r].at = "send" /\ retry[r].at = "stamp"
        /\ \A q \in Retriers \ {r} : retry'[q] = retry[q]
    BY <1>1 DEF RetryGoto, RetryAt, Shape
  <1>8. RetryPaid[r] = n - f /\ RetryBundled[r] = f /\ RetryPaid'[r] = 0 /\ RetryBundled'[r] = 0
    BY <1>7 DEF RetryPaid, RetryBundled, RetryAt
  <1>9. RetriesPaid' = RetriesPaid - (n - f) /\ RetriesBundled' = RetriesBundled - f
    <2>1. RetryPaid'[r] \in Int /\ RetryBundled'[r] \in Int  BY <1>8
    <2>2. /\ RetriesPaid' = RetriesPaid - RetryPaid[r] + RetryPaid'[r]
          /\ RetriesBundled' = RetriesBundled - RetryBundled[r] + RetryBundled'[r]
      BY <1>1, <1>7, <2>1, OneRetryMoves
    <2> HIDE DEF m, n, f
    <2> QED BY <1>2, <1>8, <2>2, SumTypes
  <1>10. RetryPurse'  BY <1>1, <1>7 DEF RetryPurse, Purse, RetryAt, Msg
  <1>11. CallPurse' /\ CallsPaid' = CallsPaid /\ CallsBundled' = CallsBundled
    <2>1. CallsStay  BY <1>1 DEF CallsStay, At
    <2> QED BY <2>1, CallsUnmoved DEF Purse
  <1>12. Paid' = Paid - RowPaid[m] /\ Bundled' = Bundled - bundled[m]
    <2> HIDE DEF m, n, f
    <2> QED BY <1>2, <1>4, <1>5, <1>9, <1>11, SumTypes DEF Paid, Bundled
  <1>13. Moved
    <2>1. CASE Reserved(m)
      <3>1. Paid' <= Paid /\ Bundled' <= Bundled
        <4> HIDE DEF m
        <4> QED BY <1>4, <1>12, SumTypes
      <3> QED BY <1>1, <2>1, <3>1 DEF Moved, Loses
    <2>2. CASE ~Reserved(m)
      <3>1. RowPaid[m] = 0 /\ bundled[m] = 0
        <4>1. log[m].amount = 0 /\ bundled[m] <= log[m].amount /\ bundled[m] \in Nat
          BY <1>2, <2>2 DEF Purse, RowPurse
        <4> QED BY <1>2, <4>1 DEF RowPaid
      <3>2. Paid' = Paid /\ Bundled' = Bundled  BY <1>12, <3>1, SumTypes
      <3> QED BY <1>1, <2>2, <3>2 DEF Moved, Leaves, Purse
    <2> QED BY <2>1, <2>2
  <1> QED BY <1>1, <1>6, <1>10, <1>11, <1>13 DEF Purse

LEMMA RetryDiesMoves ==
  ASSUME Shape, Purse, NEW r \in Retriers, RetryDies(r)
  PROVE  Purse' /\ Moved
  <1>1. /\ RetryEnds(r) /\ strayed' = (strayed \/ RetryAt(r, "stamp"))
        /\ UNCHANGED <<money, log, kind, batch>>
    BY DEF RetryDies
  <1>2. /\ retry'[r].at = "idle" /\ \A q \in Retriers \ {r} : retry'[q] = retry[q]
    BY <1>1 DEF RetryEnds, Idle, Shape
  <1>3. RowsStay /\ CallsStay
    BY <1>1 DEF RowsStay, CallsStay, money, At
  <1>4. CASE ~RetryAt(r, "stamp")
    <2>1. RetriesStay  BY <1>1, <1>2, <1>4 DEF RetriesStay, RetryAt, Msg, money
    <2>2. UNCHANGED <<account, pending, strayed>>  BY <1>1, <1>4 DEF money, Purse
    <2> QED BY <1>3, <2>1, <2>2, Quiet
  <1>5. CASE RetryAt(r, "stamp")
    <2>1. /\ RetryPaid[r] \in Nat /\ RetryBundled[r] \in Nat
          /\ RetryPaid'[r] = 0 /\ RetryBundled'[r] = 0
      BY <1>2, PartTypes DEF RetryPaid, RetryBundled, RetryAt
    <2>2. /\ RetriesPaid' = RetriesPaid - RetryPaid[r] + RetryPaid'[r]
          /\ RetriesBundled' = RetriesBundled - RetryBundled[r] + RetryBundled'[r]
      <3>1. RetryPaid'[r] \in Int /\ RetryBundled'[r] \in Int  BY <2>1
      <3> QED BY <1>1, <1>2, <3>1, OneRetryMoves DEF money
    <2>3. RetriesPaid' <= RetriesPaid /\ RetriesBundled' <= RetriesBundled
          /\ RetriesPaid' \in Int /\ RetriesBundled' \in Int
      BY <2>1, <2>2, SumTypes
    <2>4. /\ RowPurse' /\ RowsPaid' = RowsPaid /\ RowsBundled' = RowsBundled
          /\ CallPurse' /\ CallsPaid' = CallsPaid /\ CallsBundled' = CallsBundled
      BY <1>3, RowsUnmoved, CallsUnmoved DEF Purse
    <2>5. Paid' <= Paid /\ Bundled' <= Bundled
      BY <2>3, <2>4, SumTypes DEF Paid, Bundled
    <2>6. RetryPurse'  BY <1>1, <1>2 DEF RetryPurse, Purse, RetryAt, Msg, money
    <2> QED BY <1>1, <1>5, <2>4, <2>5, <2>6 DEF Purse, Moved, Loses, money
  <1> QED BY <1>4, <1>5

-----------------------------------------------------------------------------
(* The other steps.                                                        *)

\* What is recorded of a verdict is not what was earmarked.
LEMMA VerdictKeeps ==
  ASSUME Shape, NEW m \in Messages
  PROVE  Verdict(m).amount = log[m].amount /\ Verdict(m).billing = log[m].billing
  BY DEF Verdict, Shape, Row

QuietCall(b) ==
  \/ ProviderAnswers(b) \/ ProviderThrows(b) \/ AnswerLost(b)
  \/ RecordRow(b) \/ RecordRowFails(b) \/ CatchMarks(b) \/ CatchLogs(b)
  \/ CatchCampaign(b) \/ RecordCampaign(b) \/ FinaliseNotice(b) \/ FinaliseLost(b)
  \/ FileFailure(b)

LEMMA QuietCallRows ==
  ASSUME Shape, NEW b \in Batches, QuietCall(b)
  PROVE  /\ RowsStay
         /\ \A m \in Messages \ To(b) : log'[m] = log[m]
  <1>1. \A m \in Messages :
          Verdict(m).amount = log[m].amount /\ Verdict(m).billing = log[m].billing
    BY VerdictKeeps
  <1>2. UNCHANGED bundled
    BY DEF QuietCall, ProviderAnswers, ProviderThrows, AnswerLost, RecordRow, RecordRowFails,
           CatchMarks, CatchLogs, CatchCampaign, RecordCampaign, FinaliseNotice, FinaliseLost,
           FileFailure, money
  <1>3. CASE UNCHANGED log  BY <1>2, <1>3 DEF RowsStay
  <1>4. CASE /\ At(b, "answered")
             /\ log' \in {log, [log EXCEPT ![Current(b)] = Verdict(Current(b))]}
    <2>1. Current(b) \in To(b) /\ Current(b) \in Messages
      BY RecipientTypes DEF Current, Shape
    <2>2. \A m \in Messages :
            log'[m] = log[m] \/ (m = Current(b) /\ log'[m] = Verdict(m))
      BY <1>4, <2>1 DEF Shape
    <2> QED BY <1>1, <1>2, <2>1, <2>2 DEF RowsStay
  <1>5. CASE log' = FailedRows(b)
    <2>1. \A m \in Messages :
            log'[m] = IF m \in To(b) THEN [log[m] EXCEPT !.status = "failed"] ELSE log[m]
      BY <1>5 DEF FailedRows
    <2>2. \A m \in Messages : log[m] \in Row  BY DEF Shape
    <2>3. \A m \in Messages : log'[m].amount = log[m].amount /\ log'[m].billing = log[m].billing
      BY <2>1, <2>2 DEF Row
    <2>4. \A m \in Messages \ To(b) : log'[m] = log[m]  BY <2>1
    <2> QED BY <1>2, <2>3, <2>4 DEF RowsStay
  <1>6. CASE \E T \in SUBSET To(b) :
               log' = [m \in Messages |-> IF m \in T THEN Verdict(m) ELSE log[m]]
    BY <1>1, <1>2, <1>6 DEF RowsStay
  <1>7. CASE RecordCampaign(b)
    <2> DEFINE T == {m \in To(b) : answer[m] # "silent"}
    <2>1. log' = [m \in Messages |-> IF m \in T THEN Verdict(m) ELSE log[m]]
      BY <1>7 DEF RecordCampaign
    <2> QED BY <1>6, <2>1
  <1>8. CASE FinaliseNotice(b)
    <2>1. log' = [m \in Messages |-> IF m \in To(b) THEN Verdict(m) ELSE log[m]]
      BY <1>8 DEF FinaliseNotice
    <2> QED BY <1>6, <2>1
  <1>9. CASE RecordRow(b)
    <2>1. log' \in {log, [log EXCEPT ![Current(b)] = Verdict(Current(b))]} /\ At(b, "answered")
      BY <1>9 DEF RecordRow
    <2> QED BY <1>4, <2>1
  <1>10. CASE RecordRowFails(b)
    <2>1. log' \in {log, [log EXCEPT ![Current(b)] = Verdict(Current(b))]} /\ At(b, "answered")
      BY <1>10 DEF RecordRowFails
    <2> QED BY <1>4, <2>1
  <1>11. CASE CatchMarks(b) \/ CatchCampaign(b)
    BY <1>5, <1>11 DEF CatchMarks, CatchCampaign
  <1>12. CASE ProviderAnswers(b) \/ ProviderThrows(b) \/ AnswerLost(b) \/ CatchLogs(b)
                \/ FinaliseLost(b) \/ FileFailure(b)
    BY <1>3, <1>12
    DEF ProviderAnswers, ProviderThrows, AnswerLost, CatchLogs, FinaliseLost, FileFailure
  <1> QED BY <1>7, <1>8, <1>9, <1>10, <1>11, <1>12 DEF QuietCall

LEMMA QuietCallSteps ==
  ASSUME Shape, NEW b \in Batches, QuietCall(b)
  PROVE  /\ batch[b].at \notin {"idle", "ticket"} /\ batch'[b].at \notin {"idle", "ticket"}
         /\ \A c \in Batches \ {b} : batch'[c] = batch[c]
         /\ UNCHANGED <<account, pending, kind, retry, strayed>>
         /\ \A m \in Messages \ To(b) : failures'[m] = failures[m]
  <1>1. /\ batch[b].at \notin {"idle", "ticket"}
        /\ UNCHANGED <<account, pending, kind, retry, strayed>>
    BY DEF QuietCall, ProviderAnswers, ProviderThrows, AnswerLost, RecordRow, RecordRowFails,
           CatchMarks, CatchLogs, CatchCampaign, RecordCampaign, FinaliseNotice, FinaliseLost,
           FileFailure, money, ghosts, At
  <1>2. \/ \E step \in {"answered", "thrown", "logging", "consume", "done"} : Goto(b, step)
        \/ \E step \in {"consume", "done"} : Advance(b, step)
    BY DEF QuietCall, ProviderAnswers, ProviderThrows, AnswerLost, RecordRow, RecordRowFails,
           CatchMarks, CatchLogs, CatchCampaign, RecordCampaign, FinaliseNotice, FinaliseLost,
           FileFailure
  <1>3. /\ batch'[b].at \notin {"idle", "ticket"}
        /\ \A c \in Batches \ {b} : batch'[c] = batch[c]
    BY <1>1, <1>2 DEF Advance, Goto, Shape
  <1>4. Current(b) \in To(b)  BY RecipientTypes DEF Current, Shape
  <1>5. \A m \in Messages \ To(b) : failures'[m] = failures[m]
    BY <1>4
    DEF QuietCall, ProviderAnswers, ProviderThrows, AnswerLost, RecordRow, RecordRowFails,
        CatchMarks, CatchLogs, CatchCampaign, RecordCampaign, FinaliseNotice, FinaliseLost,
        FileFailure, WithFailure, Shape
  <1> QED BY <1>1, <1>3, <1>5

LEMMA QuietCallMoves ==
  ASSUME Shape, Purse, NEW b \in Batches, QuietCall(b)
  PROVE  Purse' /\ Moved
  <1>1. RowsStay  BY QuietCallRows
  <1>2. CallsStay /\ RetriesStay /\ UNCHANGED <<account, pending, strayed>>
    BY QuietCallSteps DEF CallsStay, RetriesStay, At, RetryAt, Msg
  <1> QED BY <1>1, <1>2, Quiet

QuietRetry(r) ==
  \/ Suppress(r) \/ RefuseRetry(r) \/ RetryAccepted(r) \/ RetryRejected(r) \/ RecordRetry(r)
  \/ Bump(r) \/ RetryAnswerLost(r) \/ RecordRetryFails(r)
  \/ \E m \in Messages : \E i \in DOMAIN failures[m] : ChooseFailure(r, m, i)

LEMMA QuietRetryMoves ==
  ASSUME Shape, Purse, NEW r \in Retriers, QuietRetry(r)
  PROVE  Purse' /\ Moved
  <1>1. UNCHANGED <<account, bundled, pending, strayed, kind, batch>>
    BY DEF QuietRetry, Suppress, RefuseRetry, RetryAccepted, RetryRejected, RecordRetry, Bump,
           RetryAnswerLost, RecordRetryFails, ChooseFailure, money, ghosts
  <1>2. RowsStay
    <2>1. UNCHANGED log \/ log' = [log EXCEPT ![Msg(r)].status = "sent", ![Msg(r)].receipt = TRUE]
      BY DEF QuietRetry, Suppress, RefuseRetry, RetryAccepted, RetryRejected, RecordRetry, Bump,
             RetryAnswerLost, RecordRetryFails, ChooseFailure
    <2>2. log \in [Messages -> Row]  BY DEF Shape
    <2>3. \A m \in Messages : log'[m].amount = log[m].amount /\ log'[m].billing = log[m].billing
      <3>1. CASE log' = [log EXCEPT ![Msg(r)].status = "sent", ![Msg(r)].receipt = TRUE]
        <4> DEFINE m == Msg(r)
        <4>1. log' = [log EXCEPT ![m].status = "sent", ![m].receipt = TRUE]  BY <3>1
        <4> HIDE DEF m
        <4> QED BY <2>2, <4>1 DEF Row
      <3> QED BY <2>1, <3>1
    <2> QED BY <1>1, <2>3 DEF RowsStay
  <1>3. /\ retry[r].at # "stamp" /\ retry'[r].at # "stamp"
        /\ \A q \in Retriers \ {r} : retry'[q] = retry[q]
    <2>1. CASE Suppress(r) \/ RefuseRetry(r) \/ Bump(r)
      BY <2>1 DEF Suppress, RefuseRetry, Bump, RetryAt, RetryGoto, RetryEnds, Idle, Shape
    <2>2. CASE \/ RetryAccepted(r) \/ RetryRejected(r) \/ RecordRetry(r)
               \/ RetryAnswerLost(r) \/ RecordRetryFails(r)
      BY <2>2 DEF RetryAccepted, RetryRejected, RecordRetry, RetryAnswerLost, RecordRetryFails,
                  RetryAt, RetryGoto, Shape
    <2>3. CASE \E m \in Messages : \E i \in DOMAIN failures[m] : ChooseFailure(r, m, i)
      BY <2>3 DEF ChooseFailure, RetryAt, Shape
    <2> QED BY <2>1, <2>2, <2>3 DEF QuietRetry
  <1>4. CallsStay /\ RetriesStay
    BY <1>1, <1>3 DEF CallsStay, RetriesStay, At, RetryAt, Msg
  <1> QED BY <1>1, <1>2, <1>4, Quiet

SettlesCall(b) == ConsumeSent(b) \/ ReleaseFailed(b)

LEMMA SettlesCallSteps ==
  ASSUME Shape, NEW b \in Batches, SettlesCall(b)
  PROVE  /\ batch[b].at \notin {"idle", "ticket"} /\ batch'[b].at \notin {"idle", "ticket"}
         /\ \A c \in Batches \ {b} : batch'[c] = batch[c]
         /\ UNCHANGED <<pending, failures, kind, retry, strayed>>
         /\ \E ids \in SUBSET To(b) :
              Settled(ids, "consume") \/ Settled(ids, "release")
  <1>1. /\ batch[b].at \in {"consume", "release"}
        /\ \E step \in {"release", "filing", "done"} : Goto(b, step)
        /\ UNCHANGED <<pending, failures, kind, retry, strayed>>
    BY DEF SettlesCall, ConsumeSent, ReleaseFailed, At
  <1>2. Settled(Sent(b), "consume") \/ Settled(Failed(b), "release")
    BY DEF SettlesCall, ConsumeSent, ReleaseFailed
  <1>3. Sent(b) \in SUBSET To(b) /\ Failed(b) \in SUBSET To(b)  BY DEF Sent, Failed
  <1> QED BY <1>1, <1>2, <1>3 DEF Goto, Shape

SettlesRetry(r) == ConsumeRetry(r) \/ ReleaseRetry(r)

LEMMA SettlesRetrySteps ==
  ASSUME Shape, NEW r \in Retriers, SettlesRetry(r)
  PROVE  /\ retry[r].at # "stamp" /\ retry'[r].at # "stamp"
         /\ \A q \in Retriers \ {r} : retry'[q] = retry[q]
         /\ UNCHANGED <<pending, failures, kind, batch, strayed>>
         /\ Msg(r) \in Messages
         /\ Settled({Msg(r)}, "consume") \/ Settled({Msg(r)}, "release")
  <1>1. retry[r].at \in {"consume", "release"} /\ (RetryEnds(r) \/ RetryGoto(r, "bump"))
    BY DEF SettlesRetry, ConsumeRetry, ReleaseRetry, RetryAt
  <1>2. /\ UNCHANGED <<pending, failures, kind, batch, strayed>>
        /\ Settled({Msg(r)}, "consume") \/ Settled({Msg(r)}, "release")
    BY DEF SettlesRetry, ConsumeRetry, ReleaseRetry
  <1>3. Msg(r) \in Messages  BY <1>1 DEF Shape
  <1> QED BY <1>1, <1>2, <1>3 DEF RetryEnds, RetryGoto, Idle, Shape

LEMMA StepMoves ==
  ASSUME Shape, Purse, Unborn, [Next]_vars
  PROVE  Purse' /\ Moved
  <1>1. ASSUME NEW b \in Batches,
               Queue(b) \/ ReserveNotice(b) \/ BatchProceeds(b) \/ BatchFails(b)
        PROVE  Purse' /\ Moved
    <2>1. CASE SettlesCall(b)
      <3>1. CallsStay /\ RetriesStay /\ UNCHANGED <<pending, strayed>>
        BY <2>1, SettlesCallSteps DEF CallsStay, RetriesStay, At, RetryAt, Msg
      <3>2. PICK ids \in SUBSET Messages : Settled(ids, "consume") \/ Settled(ids, "release")
        BY <2>1, SettlesCallSteps, RecipientTypes
      <3> QED BY <3>1, <3>2, SettledMoves
    <2>2. CASE QuietCall(b)  BY <2>2, QuietCallMoves
    <2> QED BY <1>1, <2>1, <2>2, QueueMoves, ReserveNoticeMoves, InsertNoticeMoves,
               NoticeUnrecordedMoves, BatchDiesMoves
            DEF BatchProceeds, BatchFails, SettlesCall, QuietCall
  <1>2. ASSUME NEW r \in Retriers,
               \/ \E m \in Messages : \E i \in DOMAIN failures[m] : ChooseFailure(r, m, i)
               \/ RetryProceeds(r) \/ RetryFails(r)
        PROVE  Purse' /\ Moved
    <2>1. CASE SettlesRetry(r)
      <3>1. CallsStay /\ RetriesStay /\ UNCHANGED <<pending, strayed>>
        BY <2>1, SettlesRetrySteps DEF CallsStay, RetriesStay, At, RetryAt, Msg
      <3>2. {Msg(r)} \in SUBSET Messages
              /\ (Settled({Msg(r)}, "consume") \/ Settled({Msg(r)}, "release"))
        BY <2>1, SettlesRetrySteps
      <3> QED BY <3>1, <3>2, SettledMoves
    <2>2. CASE QuietRetry(r)  BY <2>2, QuietRetryMoves
    <2> QED BY <1>2, <2>1, <2>2, RereserveMoves, StampMoves, RetryDiesMoves
            DEF RetryProceeds, RetryFails, SettlesRetry, QuietRetry
  <1>3. CASE SweepProceeds \/ SweepDies
    <2>1. CallsStay /\ RetriesStay /\ UNCHANGED <<pending, strayed>>
      BY <1>3
      DEF SweepProceeds, SweepSelect, SweepConsume, SweepRelease, SweepDies, money, ghosts,
          CallsStay, RetriesStay, At, RetryAt, Msg
    <2>2. CASE SweepConsume \/ SweepRelease
      <3>1. PICK ids \in SUBSET Messages : Settled(ids, "consume") \/ Settled(ids, "release")
        BY <2>2 DEF SweepConsume, SweepRelease, Shape
      <3> QED BY <2>1, <3>1, SettledMoves
    <2>3. CASE SweepSelect \/ SweepDies
      <3>1. RowsStay /\ UNCHANGED account
        BY <2>3 DEF SweepSelect, SweepDies, money, RowsStay
      <3> QED BY <2>1, <3>1, Quiet
    <2> QED BY <1>3, <2>2, <2>3 DEF SweepProceeds
  <1>4. CASE TopUp \/ ResetAllowance
    <2>1. RowsStay /\ CallsStay /\ RetriesStay
      BY <1>4 DEF TopUp, ResetAllowance, RowsStay, CallsStay, RetriesStay, At, RetryAt, Msg
    <2>2. /\ account' \in {[account EXCEPT !.credits = @ + 1], [account EXCEPT !.used = 0]}
          /\ UNCHANGED <<pending, strayed>>
      BY <1>4 DEF TopUp, ResetAllowance, ghosts
    <2>3. /\ RowPurse' /\ RowsPaid' = RowsPaid /\ RowsBundled' = RowsBundled
          /\ CallPurse' /\ CallsPaid' = CallsPaid /\ CallsBundled' = CallsBundled
          /\ RetryPurse' /\ RetriesPaid' = RetriesPaid /\ RetriesBundled' = RetriesBundled
      BY <2>1, RowsUnmoved, CallsUnmoved, RetriesUnmoved DEF Purse
    <2>4. account' \in Account  BY <2>2 DEF Purse, Account
    <2>5. Paid' = Paid /\ Bundled' = Bundled  BY <2>3 DEF Paid, Bundled
    <2> QED BY <2>2, <2>3, <2>4, <2>5 DEF Purse, Moved, Leaves
  <1>5. CASE UNCHANGED vars
    <2>1. RowsStay /\ CallsStay /\ RetriesStay
      BY <1>5 DEF vars, money, RowsStay, CallsStay, RetriesStay, At, RetryAt, Msg
    <2>2. UNCHANGED <<account, pending, strayed>>  BY <1>5 DEF vars, money, ghosts
    <2> QED BY <2>1, <2>2, Quiet
  <1> QED BY <1>1, <1>2, <1>3, <1>4, <1>5 DEF Next

\* No step writes rows of a call that has not queued them.
LEMMA UnbornStep ==
  ASSUME Shape, Unborn, [Next]_vars
  PROVE  Unborn'
  <1> SUFFICES ASSUME NEW c \in Batches, batch'[c].at \in {"idle", "ticket"}, NEW m \in To(c)
               PROVE  log'[m] = NoRow /\ failures'[m] = <<>>
    BY DEF Unborn, To
  <1>0. m \in Messages /\ \A b \in Batches : m \in To(b) => b = c
    BY RecipientTypes, BatchAssumption
  <1> DEFINE Was == batch[c].at \in {"idle", "ticket"}
             Kept == log'[m] = log[m] /\ failures'[m] = failures[m]
  <1>a. Was => log[m] = NoRow /\ failures[m] = <<>>  BY DEF Unborn
  <1>b. Was => ~Reserved(m)
    <2>1. NoRow.billing # "reserved"  BY DEF NoRow, None
    <2> QED BY <1>a, <2>1 DEF Reserved
  <1>c. ASSUME NEW ids, Settled(ids, "consume") \/ Settled(ids, "release"), Was
        PROVE  log'[m] = log[m]
    BY <1>0, <1>b, <1>c DEF Settled, Settle
  <1>1. ASSUME NEW b \in Batches,
               Queue(b) \/ ReserveNotice(b) \/ BatchProceeds(b) \/ BatchFails(b)
        PROVE  Was /\ Kept
    <2>1. CASE SettlesCall(b)
      <3>1. Was  BY <2>1, SettlesCallSteps
      <3> QED BY <1>c, <2>1, <3>1, SettlesCallSteps
    <2>2. CASE QuietCall(b)
      <3>1. Was /\ c # b  BY <2>2, QuietCallSteps
      <3> QED BY <1>0, <2>2, <3>1, QuietCallSteps, QuietCallRows
    <2>3. CASE Queue(b) \/ InsertNotice(b)
      <3>1. /\ Goto(b, "dispatch") /\ log' = Inserted(b) /\ UNCHANGED failures
        BY <2>3 DEF Queue, InsertNotice
      <3>2. Was /\ c # b  BY <3>1 DEF Goto, Shape
      <3>3. m \notin To(b)  BY <1>0, <3>2
      <3> QED BY <1>0, <3>1, <3>2, <3>3 DEF Inserted
    <2>4. CASE ReserveNotice(b)
      <3>1. At(b, "idle") /\ Goto(b, "ticket") /\ UNCHANGED <<log, failures>>
        BY <2>4 DEF ReserveNotice
      <3> QED BY <3>1 DEF Goto, At, Shape
    <2>5. CASE NoticeUnrecorded(b) \/ BatchDies(b)
      <3>1. (Goto(b, "dispatch") \/ Goto(b, "done")) /\ UNCHANGED <<log, failures>>
        BY <2>5 DEF NoticeUnrecorded, BatchDies
      <3>2. batch'[b].at \in {"dispatch", "done"} /\ \A d \in Batches \ {b} : batch'[d] = batch[d]
        BY <3>1 DEF Goto, Shape
      <3>3. c # b /\ batch'[c] = batch[c]  BY <3>2
      <3> QED BY <3>1, <3>3
    <2>6. \/ SettlesCall(b) \/ QuietCall(b) \/ Queue(b) \/ InsertNotice(b) \/ ReserveNotice(b)
          \/ NoticeUnrecorded(b) \/ BatchDies(b)
      BY <1>1 DEF BatchProceeds, BatchFails, SettlesCall, QuietCall
    <2> HIDE DEF Was, Kept
    <2> QED BY <2>1, <2>2, <2>3, <2>4, <2>5, <2>6
  <1>2. ASSUME NEW r \in Retriers,
               \/ \E n \in Messages : \E i \in DOMAIN failures[n] : ChooseFailure(r, n, i)
               \/ RetryProceeds(r) \/ RetryFails(r)
        PROVE  Was /\ Kept
    <2>1. UNCHANGED batch
      BY <1>2
      DEF RetryProceeds, RetryFails, ChooseFailure, Suppress, Rereserve, RefuseRetry, Stamp,
          RetryAccepted, RetryRejected, RecordRetry, ConsumeRetry, ReleaseRetry, Bump,
          RetryAnswerLost, RecordRetryFails, RetryDies
    <2>2. Was  BY <2>1
    <2>3. CASE SettlesRetry(r)  BY <1>c, <2>2, <2>3, SettlesRetrySteps
    <2>4. CASE \E n \in Messages : \E i \in DOMAIN failures[n] : ChooseFailure(r, n, i)
      BY <2>2, <2>4 DEF ChooseFailure
    <2>5. CASE (RetryProceeds(r) \/ RetryFails(r)) /\ ~SettlesRetry(r)
      <3>1. Msg(r) \in Messages /\ failures[Msg(r)] # <<>>
        <4>1. retry[r].at # "idle"
          BY <2>5
          DEF RetryProceeds, RetryFails, SettlesRetry, Suppress, Rereserve, RefuseRetry, Stamp,
              RetryAccepted, RetryRejected, RecordRetry, Bump, RetryAnswerLost, RecordRetryFails,
              RetryDies, RetryAt
        <4> QED BY <4>1 DEF Shape
      <3>2. m # Msg(r)  BY <1>a, <2>2, <3>1
      <3>3. \A n \in Messages : n # Msg(r) => log'[n] = log[n] /\ failures'[n] = failures[n]
        BY <2>5
        DEF RetryProceeds, RetryFails, SettlesRetry, Suppress, Rereserve, RefuseRetry, Stamp,
            RetryAccepted, RetryRejected, RecordRetry, Bump, RetryAnswerLost, RecordRetryFails,
            RetryDies, SetFailure, Shape
      <3> QED BY <1>0, <2>2, <3>2, <3>3
    <2> QED BY <1>2, <2>3, <2>4, <2>5
  <1>3. ASSUME SweepProceeds \/ SweepDies  PROVE Was /\ Kept
    <2>1. /\ \/ Settled(sweep.consume, "consume")
             \/ Settled(sweep.release, "release")
             \/ UNCHANGED log
          /\ UNCHANGED <<failures, batch>>
      BY <1>3 DEF SweepProceeds, SweepSelect, SweepConsume, SweepRelease, SweepDies
    <2> QED BY <1>c, <2>1
  <1>4. ASSUME TopUp \/ ResetAllowance \/ UNCHANGED vars  PROVE Was /\ Kept
    BY <1>4 DEF TopUp, ResetAllowance, vars
  <1>5. Was /\ Kept
    <2> HIDE DEF Was, Kept
    <2> QED BY <1>1, <1>2, <1>3, <1>4 DEF Next
  <1> QED
    <2>1. log'[m] = log[m] /\ failures'[m] = failures[m]  BY <1>5
    <2>2. log[m] = NoRow /\ failures[m] = <<>>  BY <1>5, <1>a
    <2> QED BY <2>1, <2>2

-----------------------------------------------------------------------------
(* The invariant.                                                          *)

AccountInv == Shape /\ Purse /\ Unborn /\ Exact /\ NotOverspent

LEMMA NothingOpenAtFirst == Init => AccountInv
  <1> SUFFICES ASSUME Init PROVE AccountInv
    OBVIOUS
  <1>1. Shape  BY InitHolds DEF IInv
  <1>2. Purse
    <2>1. \A b \in Batches : ~At(b, "ticket")  BY DEF Init, At
    <2>2. \A r \in Retriers : ~RetryAt(r, "stamp")  BY DEF Init, RetryAt, Idle
    <2>3. \A m \in Messages : bundled[m] = 0 /\ log[m].amount = 0  BY DEF Init, NoRow
    <2>4. RowPurse  BY <2>3 DEF RowPurse, Init
    <2>5. account \in Account  BY AmountAssumption DEF Init, Account
    <2> QED BY <2>1, <2>2, <2>4, <2>5 DEF Purse, CallPurse, RetryPurse, Init
  <1>3. Unborn  BY RecipientTypes DEF Unborn, Init, To
  <1>4. Paid = 0 /\ Bundled = 0
    <2>1. \A m \in Messages : RowPaid[m] = 0 /\ bundled[m] = 0  BY DEF Init, RowPaid, NoRow
    <2>2. \A b \in Batches : CallPaid[b] = 0 /\ CallBundled[b] = 0
      BY DEF Init, CallPaid, CallBundled, At
    <2>3. \A r \in Retriers : RetryPaid[r] = 0 /\ RetryBundled[r] = 0
      BY DEF Init, RetryPaid, RetryBundled, RetryAt, Idle
    <2>4. /\ RowsPaid = 0 /\ RowsBundled = 0 /\ CallsPaid = 0 /\ CallsBundled = 0
          /\ RetriesPaid = 0 /\ RetriesBundled = 0
      BY <2>1, <2>2, <2>3, SumOfZeros, RetriersFinite, TableAssumption
      DEF RowsPaid, RowsBundled, CallsPaid, CallsBundled, RetriesPaid, RetriesBundled
    <2> QED BY <2>4 DEF Paid, Bundled
  <1>5. Exact /\ NotOverspent
    BY <1>4, AmountAssumption DEF Exact, NotOverspent, Init
  <1> QED BY <1>1, <1>2, <1>3, <1>5 DEF AccountInv

LEMMA AccountStep == AccountInv /\ [Next]_vars => AccountInv'
  <1> SUFFICES ASSUME AccountInv, [Next]_vars PROVE AccountInv'
    OBVIOUS
  <1>1. Shape /\ Purse /\ Unborn /\ Exact /\ NotOverspent  BY DEF AccountInv
  <1>2. Shape'  BY <1>1, ShapeStep
  <1>3. Purse' /\ Moved  BY <1>1, StepMoves
  <1>4. Unborn'  BY <1>1, UnbornStep
  <1>5. Exact' /\ NotOverspent'  BY <1>1, <1>2, <1>3, MovedHolds
  <1> QED BY <1>2, <1>3, <1>4, <1>5 DEF AccountInv

LEMMA AccountHolds == Spec => []AccountInv
  BY NothingOpenAtFirst, AccountStep, PTL DEF Spec

\* The counters of the account cover every open earmark, and hold nothing besides unless an
\* earmark was left without its row, whoever sends, retries and sweeps: reserveCredits,
\* settle_sms_credit_reservation and releaseUnticketedReservation keep the books of a group
\* for any number of messages and calls.
THEOREM AccountCoversEarmarks == Spec => []EarmarksExact
  <1>1. AccountInv => EarmarksExact
    <2> SUFFICES ASSUME AccountInv PROVE EarmarksExact
      OBVIOUS
    <2>1. Ticketed.paid = Paid /\ Ticketed.bundled = Bundled
      BY TicketedIsOpen DEF AccountInv
    <2> QED BY <2>1 DEF AccountInv, Exact, EarmarksExact
  <1> QED BY <1>1, AccountHolds, PTL

\* Neither the credits bought nor the allowance are promised twice: a group never spends more
\* than it has, settlements and billing anniversaries included.
THEOREM GroupNeverOverspends == Spec => []NotOverspent
  <1>1. AccountInv => NotOverspent  BY DEF AccountInv
  <1> QED BY <1>1, AccountHolds, PTL

\* The model is well-typed: no counter of the account or of a row falls below zero, and no row
\* carries more of the allowance than it has segments.
THEOREM SmsCreditsTyped == Spec => []TypeOK
  <1> DEFINE Counted == changes \in 0..MaxChanges /\ faults \in 0..MaxFaults
  <1>1. Init => Counted  BY AmountAssumption DEF Init
  <1>2. Counted /\ [Next]_vars => Counted'
    <2> SUFFICES ASSUME Counted, [Next]_vars PROVE Counted'
      OBVIOUS
    <2>1. \/ UNCHANGED changes
          \/ changes < MaxChanges /\ changes' = changes + 1
      <3>1. CASE TopUp \/ ResetAllowance  BY <3>1 DEF TopUp, ResetAllowance
      <3>2. CASE UNCHANGED vars  BY <3>2 DEF vars, bounds
      <3>3. ASSUME NEW b \in Batches,
                   Queue(b) \/ ReserveNotice(b) \/ BatchProceeds(b) \/ BatchFails(b)
            PROVE  UNCHANGED changes
        BY <3>3
        DEF Queue, ReserveNotice, BatchProceeds, BatchFails, bounds, InsertNotice,
            ProviderAnswers, ProviderThrows, RecordRow, CatchMarks, CatchLogs, CatchCampaign,
            RecordCampaign, FinaliseNotice, ConsumeSent, ReleaseFailed, FileFailure,
            NoticeUnrecorded, AnswerLost, RecordRowFails, FinaliseLost, BatchDies
      <3>4. ASSUME NEW r \in Retriers,
                   \/ \E m \in Messages : \E i \in DOMAIN failures[m] : ChooseFailure(r, m, i)
                   \/ RetryProceeds(r) \/ RetryFails(r)
            PROVE  UNCHANGED changes
        BY <3>4
        DEF ChooseFailure, RetryProceeds, RetryFails, bounds, Suppress, Rereserve, RefuseRetry,
            Stamp, RetryAccepted, RetryRejected, RecordRetry, ConsumeRetry, ReleaseRetry, Bump,
            RetryAnswerLost, RecordRetryFails, RetryDies
      <3>5. SweepProceeds \/ SweepDies => UNCHANGED changes
        BY DEF SweepProceeds, SweepSelect, SweepConsume, SweepRelease, SweepDies, bounds
      <3> QED BY <3>1, <3>2, <3>3, <3>4, <3>5 DEF Next
    <2>2. \/ UNCHANGED faults
          \/ faults < MaxFaults /\ faults' = faults + 1
      <3>1. CASE TopUp \/ ResetAllowance  BY <3>1 DEF TopUp, ResetAllowance
      <3>2. CASE UNCHANGED vars  BY <3>2 DEF vars, bounds
      <3>3. ASSUME NEW b \in Batches,
                   Queue(b) \/ ReserveNotice(b) \/ BatchProceeds(b) \/ BatchFails(b)
            PROVE  \/ UNCHANGED faults
                   \/ faults < MaxFaults /\ faults' = faults + 1
        BY <3>3
        DEF Queue, ReserveNotice, BatchProceeds, BatchFails, bounds, InsertNotice,
            ProviderAnswers, ProviderThrows, RecordRow, CatchMarks, CatchLogs, CatchCampaign,
            RecordCampaign, FinaliseNotice, ConsumeSent, ReleaseFailed, FileFailure,
            NoticeUnrecorded, AnswerLost, RecordRowFails, FinaliseLost, BatchDies, Settled,
            Fault
      <3>4. ASSUME NEW r \in Retriers,
                   \/ \E m \in Messages : \E i \in DOMAIN failures[m] : ChooseFailure(r, m, i)
                   \/ RetryProceeds(r) \/ RetryFails(r)
            PROVE  \/ UNCHANGED faults
                   \/ faults < MaxFaults /\ faults' = faults + 1
        BY <3>4
        DEF ChooseFailure, RetryProceeds, RetryFails, bounds, Suppress, Rereserve, RefuseRetry,
            Stamp, RetryAccepted, RetryRejected, RecordRetry, ConsumeRetry, ReleaseRetry, Bump,
            RetryAnswerLost, RecordRetryFails, RetryDies, Settled, Fault
      <3>5. ASSUME SweepProceeds \/ SweepDies
            PROVE  \/ UNCHANGED faults
                   \/ faults < MaxFaults /\ faults' = faults + 1
        BY <3>5
        DEF SweepProceeds, SweepSelect, SweepConsume, SweepRelease, SweepDies, Settled, Fault,
            bounds
      <3> QED BY <3>1, <3>2, <3>3, <3>4, <3>5 DEF Next
    <2> QED BY <2>1, <2>2, AmountAssumption
  <1>3. AccountInv /\ Counted => TypeOK
    BY DEF AccountInv, Shape, Purse, RowPurse, Account, TypeOK, FailureRow, AnswerKinds
  <1> QED BY <1>1, <1>2, <1>3, AccountHolds, PTL DEF Spec
=============================================================================
