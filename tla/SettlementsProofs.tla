--------------------------- MODULE SettlementsProofs ---------------------------
(***************************************************************************)
(* What holds of settlements, vendor payments and campaign withdrawals for *)
(* every set of requests, officers and campaigns, every amount, any number *)
(* of changes of office and, unless a theorem says otherwise, every fault. *)
(***************************************************************************)
EXTENDS Settlements, SumTheorems, TLAPS

RowStep(r) ==
  Maker(r) \/ Checker(r) \/ Dispatcher(r) \/ Crash(r) \/ DarajaSettles(r) \/ Result(r)
    \/ WatchdogTimeout(r)

Desks == BankDesk \/ CampaignDesk \/ \E o \in Officers, f \in Offices \cup {None} : ChangeOffice(o, f)

LEMMA NextIsRowOrDesk == Next <=> Desks \/ \E r \in Rows : RowStep(r)
  BY DEF Next, Desks, RowStep

\* The money of a request, and what a posting of it can credit, is a natural number.
LEMMA AmountIsNat ==
  ASSUME NEW r \in Rows
  PROVE  /\ Amount(r) \in Nat \ {0}
         /\ \A chart \in Charts : Posted(r, chart) \in Nat
  BY InputAssumption, ModeAssumption DEF Amount, Posted, Requests, AllCharts

LEMMA InputTypes ==
  /\ \A r \in Rows : Input[r] \in Requests
  /\ \A r \in Rows : IsSettlement(r) => Input[r].bank \in Banks
  /\ \A r \in Rows : IsCampaign(r) => Input[r].campaign \in Campaigns
  BY InputAssumption DEF Requests, IsSettlement, IsCampaign

LEMMA InitType == Init => TypeOK
  BY InputAssumption DEF Init, TypeOK, Statuses, PCs

LEMMA OfficerType ==
  ASSUME TypeOK, NEW r \in Rows, Maker(r) \/ Checker(r)
  PROVE  TypeOK'
  <1> USE AmountIsNat, InputTypes
      DEF TypeOK, signVars, cashVars, wireVars, bankVars, campVars, roleVars, Statuses, PCs
  <1>1. CASE InitiateSettlement(r)  BY <1>1 DEF InitiateSettlement, Accept
  <1>2. CASE InitiateVendorPayment(r)  BY <1>2 DEF InitiateVendorPayment, Accept
  <1>3. CASE RequestWithdrawal(r)
    <2>1. Input[r].by \in Officers /\ Input[r].campaign \in Campaigns
      BY <1>3 DEF RequestWithdrawal, Requests
    <2> QED BY <1>3, <2>1 DEF RequestWithdrawal, Accept
  <1>4. CASE PlatformApprove(r)  BY <1>4 DEF PlatformApprove
  <1>5. CASE PlatformReject(r)  BY <1>5 DEF PlatformReject, Decline, ReleaseHold
  <1>6. ASSUME NEW o \in Officers, Approve(r, o) \/ ApproveWithdrawal(r, o) \/ Reject(r, o)
        PROVE  TypeOK'
    <2>1. CASE Approve(r, o)  BY <2>1 DEF Approve, Sign
    <2>2. CASE ApproveWithdrawal(r, o)
      <3>1. <<o, office[o]>> \in Officers \X (Offices \cup {None})  OBVIOUS
      <3>2. signed' \in [Rows -> SUBSET (Officers \X (Offices \cup {None}))]
        BY <2>2, <3>1 DEF ApproveWithdrawal, Sign
      <3>3. status' \in [Rows -> Statuses \cup {None}]  BY <2>2 DEF ApproveWithdrawal
      <3> QED BY <2>2, <3>2, <3>3 DEF ApproveWithdrawal
    <2>3. CASE Reject(r, o)  BY <2>3 DEF Reject, Decline, ReleaseHold
    <2> QED BY <1>6, <2>1, <2>2, <2>3
  <1> QED BY <1>1, <1>2, <1>3, <1>4, <1>5, <1>6 DEF Maker, Checker

LEMMA DispatcherType ==
  ASSUME TypeOK, NEW r \in Rows, Dispatcher(r) \/ Crash(r) \/ DarajaSettles(r) \/ WatchdogTimeout(r)
  PROVE  TypeOK'
  <1> USE AmountIsNat, ModeAssumption
      DEF TypeOK, signVars, cashVars, wireVars, bankVars, campVars, roleVars, dispatchRest, Goto,
          Statuses, PCs
  <1>1. CASE Claim(r)  BY <1>1 DEF Claim
  <1>2. CASE PostAccepted(r)  BY <1>2 DEF PostAccepted
  <1>3. CASE PostRefused(r)  BY <1>3 DEF PostRefused
  <1>4. CASE PostAnswerLost(r)  BY <1>4 DEF PostAnswerLost
  <1>5. CASE RecordConversation(r)  BY <1>5 DEF RecordConversation
  <1>6. CASE RecordError(r)  BY <1>6 DEF RecordError
  <1>7. CASE ArmWatchdog(r)
    <2>1. CASE UNCHANGED armed  BY <1>7, <2>1 DEF ArmWatchdog
    <2>2. CASE armed' = [armed EXCEPT ![r] = Qstash]  BY <1>7, <2>2 DEF ArmWatchdog
    <2> QED BY <1>7, <2>1, <2>2 DEF ArmWatchdog
  <1>8. CASE DispatchFailed(r)
    <2>1. hold' \in [Rows -> Int]  BY <1>8 DEF DispatchFailed, ReleaseHold
    <2>2. status' \in [Rows -> Statuses \cup {None}]  BY <1>8 DEF DispatchFailed
    <2> QED BY <1>8, <2>1, <2>2 DEF DispatchFailed
  <1>9. CASE Crash(r)  BY <1>9 DEF Crash
  <1>10. CASE DarajaSettles(r)  BY <1>10 DEF DarajaSettles
  <1>11. CASE WatchdogTimeout(r)  BY <1>11 DEF WatchdogTimeout
  <1> QED BY <1>1, <1>2, <1>3, <1>4, <1>5, <1>6, <1>7, <1>8, <1>9, <1>10, <1>11 DEF Dispatcher

LEMMA ResultType ==
  ASSUME TypeOK, NEW r \in Rows, Result(r)
  PROVE  TypeOK'
  <1> USE AmountIsNat
      DEF TypeOK, signVars, cashVars, wireVars, bankVars, campVars, roleVars, dispatchRest,
          Statuses, Deliver, ReleaseHold
  <1>1. CASE ResultIgnored(r)  BY <1>1 DEF ResultIgnored
  <1>2. CASE ResultFailure(r)  BY <1>2 DEF ResultFailure
  <1>3. CASE ResultSuccess(r)
    <2>1. booked' \in [Rows -> Nat]
      <3>1. PICK chart \in Charts : booked' = [booked EXCEPT ![r] = @ + Posted(r, chart)]
        BY <1>3 DEF ResultSuccess
      <3>2. Posted(r, chart) \in Nat  OBVIOUS
      <3> QED BY <3>1, <3>2
    <2>2. revenue' \in [Rows -> Nat]  BY <1>3 DEF ResultSuccess
    <2>3. hold' \in [Rows -> Int]  BY <1>3 DEF ResultSuccess
    <2> QED BY <1>3, <2>1, <2>2, <2>3 DEF ResultSuccess
  <1> QED BY <1>1, <1>2, <1>3 DEF Result

LEMMA DeskType ==
  ASSUME TypeOK, Desks
  PROVE  TypeOK'
  <1> USE InputAssumption
      DEF TypeOK, signVars, cashVars, wireVars, bankVars, campVars, roleVars, bankRest, campRest, moneyIn
  <1>1. ASSUME NEW b \in Banks, CreateBank(b) \/ DisableBank(b)
        PROVE  TypeOK'
    BY <1>1 DEF CreateBank, DisableBank
  <1>2. ASSUME NEW b \in Banks, NEW o \in Officers, ActivateBank(b, o) \/ RejectBank(b, o)
        PROVE  TypeOK'
    BY <1>2 DEF ActivateBank, RejectBank
  <1>3. ASSUME NEW c \in Campaigns,
               CreateCampaign(c) \/ SubmitForReview(c) \/ ApproveCampaign(c) \/ RejectCampaign(c)
        PROVE  TypeOK'
    BY <1>3 DEF CreateCampaign, SubmitForReview, ApproveCampaign, RejectCampaign
  <1>4. ASSUME NEW c \in Campaigns, NEW d \in Destinations, SetPayoutDestination(c, d)
        PROVE  TypeOK'
    BY <1>4 DEF SetPayoutDestination
  <1>5. ASSUME NEW g \in Receipts, CreditDonation(g)
        PROVE  TypeOK'
    <2>1. Gift[g].campaign \in Campaigns /\ Gift[g].amount \in Nat  OBVIOUS
    <2>2. paidIn' \in Nat  BY <1>5, <2>1 DEF CreditDonation
    <2>3. raised' \in [Campaigns -> Nat]  BY <1>5, <2>1 DEF CreditDonation
    <2> QED BY <1>5, <2>2, <2>3 DEF CreditDonation
  <1>6. ASSUME NEW o \in Officers, NEW f \in Offices \cup {None}, ChangeOffice(o, f)
        PROVE  TypeOK'
    BY <1>6 DEF ChangeOffice
  <1> QED BY <1>1, <1>2, <1>3, <1>4, <1>5, <1>6 DEF Desks, BankDesk, CampaignDesk

LEMMA StepType == TypeOK /\ [Next]_vars => TypeOK'
  <1> SUFFICES ASSUME TypeOK, [Next]_vars PROVE TypeOK'
    OBVIOUS
  <1>1. ASSUME NEW r \in Rows, RowStep(r) PROVE TypeOK'
    BY <1>1, OfficerType, DispatcherType, ResultType DEF RowStep
  <1>2. CASE Desks  BY <1>2, DeskType
  <1>3. CASE UNCHANGED vars
    BY <1>3 DEF TypeOK, vars, signVars, cashVars, wireVars, bankVars, campVars, roleVars
  <1> QED BY <1>1, <1>2, <1>3, NextIsRowOrDesk

\* The variables always have their types: in particular no posting of a payout or a donation,
\* whatever the chart of accounts, moves a negative amount.
THEOREM TypeCorrect == Spec => []TypeOK
  <1> QED BY InitType, StepType, PTL DEF Spec

-----------------------------------------------------------------------------
(* Frames: a step of one row leaves the other rows and the desks alone *)

SameRow(r) ==
  /\ status'[r] = status[r] /\ pc'[r] = pc[r]
  /\ signed'[r] = signed[r] /\ released'[r] = released[r]
  /\ byRole'[r] = byRole[r] /\ payTo'[r] = payTo[r]
  /\ hold'[r] = hold[r] /\ booked'[r] = booked[r] /\ revenue'[r] = revenue[r]
  /\ conversation'[r] = conversation[r] /\ armed'[r] = armed[r]
  /\ daraja'[r] = daraja[r] /\ deliveries'[r] = deliveries[r]

LEMMA OtherRowsSame ==
  ASSUME TypeOK, NEW r \in Rows, RowStep(r), NEW q \in Rows \ {r}
  PROVE  SameRow(q)
  <1> USE DEF TypeOK, SameRow, signVars, cashVars, wireVars, dispatchRest
  <1>1. CASE Maker(r)
    BY <1>1 DEF Maker, InitiateSettlement, InitiateVendorPayment, RequestWithdrawal, Accept
  <1>2. CASE Checker(r)
    <2>1. CASE PlatformApprove(r) \/ PlatformReject(r)
      BY <2>1 DEF PlatformApprove, PlatformReject, Decline, ReleaseHold
    <2>2. ASSUME NEW o \in Officers, Approve(r, o) \/ ApproveWithdrawal(r, o) \/ Reject(r, o)
          PROVE  SameRow(q)
      <3>1. CASE Approve(r, o)  BY <3>1 DEF Approve, Sign
      <3>2. CASE ApproveWithdrawal(r, o)  BY <3>2 DEF ApproveWithdrawal, Sign
      <3>3. CASE Reject(r, o)  BY <3>3 DEF Reject, Decline, ReleaseHold
      <3> QED BY <2>2, <3>1, <3>2, <3>3
    <2> QED BY <1>2, <2>1, <2>2 DEF Checker
  <1>3. CASE Dispatcher(r) \/ Crash(r)
    BY <1>3 DEF Dispatcher, Claim, PostAccepted, PostRefused, PostAnswerLost, RecordConversation,
                RecordError, ArmWatchdog, DispatchFailed, Crash, Goto, ReleaseHold
  <1>4. CASE DarajaSettles(r) \/ WatchdogTimeout(r)
    BY <1>4 DEF DarajaSettles, WatchdogTimeout
  <1>5. CASE Result(r)
    BY <1>5 DEF Result, ResultIgnored, ResultFailure, ResultSuccess, Deliver, ReleaseHold
  <1> QED BY <1>1, <1>2, <1>3, <1>4, <1>5 DEF RowStep

LEMMA RowLeavesDesks ==
  ASSUME NEW r \in Rows, RowStep(r)
  PROVE  UNCHANGED <<bankVars, campVars, roleVars>>
  BY DEF RowStep, Maker, InitiateSettlement, InitiateVendorPayment, RequestWithdrawal,
         Checker, Approve, ApproveWithdrawal, Reject, Decline, PlatformApprove, PlatformReject,
         Dispatcher, Claim, PostAccepted, PostRefused, PostAnswerLost, RecordConversation,
         RecordError, ArmWatchdog, DispatchFailed, Crash, DarajaSettles, WatchdogTimeout,
         Result, ResultIgnored, ResultFailure, ResultSuccess, dispatchRest

LEMMA DesksLeaveRows ==
  ASSUME Desks
  PROVE  UNCHANGED <<status, signVars, cashVars, wireVars, pc>>
  BY DEF Desks, BankDesk, CreateBank, DisableBank, ActivateBank, RejectBank, CampaignDesk,
         CreateCampaign, SetPayoutDestination, SubmitForReview, ApproveCampaign, RejectCampaign,
         CreditDonation, ChangeOffice, bankRest, campRest

LEMMA IdleRowsSame ==
  ASSUME Desks \/ UNCHANGED vars, NEW r \in Rows
  PROVE  SameRow(r)
  <1>1. UNCHANGED <<status, signVars, cashVars, wireVars, pc>>
    BY DesksLeaveRows DEF vars
  <1> QED BY <1>1 DEF SameRow, signVars, cashVars, wireVars

-----------------------------------------------------------------------------
(* Flow and reservation *)

Unclaimed == {None, "pending_approval", "awaiting_platform", "approved"}

\* Where the dispatching invocation stands fixes what it meets.  In its catch block, the row
\* is still processing and nothing else could have settled it: results need the conversation
\* id and the watchdog a workflow run, and both come after the last step that can fail.
FlowAt(r) ==
  /\ pc[r] = "claiming" => status[r] = "approved"
  /\ pc[r] \in {"posting", "recording", "failing"} =>
       status[r] = "processing" /\ ~conversation[r] /\ ~armed[r]
  /\ pc[r] = "arming" => status[r] \notin Unclaimed
  /\ status[r] \in Unclaimed => ~conversation[r] /\ ~armed[r]
  /\ status[r] \in {None, "pending_approval", "awaiting_platform"} => pc[r] = "idle"
  /\ status[r] = "rejected" => pc[r] = "idle" /\ ~armed[r]

HoldAt(r) == hold[r] = IF status[r] \in Holding THEN Amount(r) ELSE 0

FlowInv == \A r \in Rows : FlowAt(r)

LEMMA SameRowFlow ==
  ASSUME NEW r \in Rows, SameRow(r), FlowAt(r), HoldAt(r)
  PROVE  FlowAt(r)' /\ HoldAt(r)'
  BY DEF SameRow, FlowAt, HoldAt, Holding, Unclaimed, Amount

LEMMA RowFlow ==
  ASSUME TypeOK, NEW r \in Rows, FlowAt(r), HoldAt(r), RowStep(r)
  PROVE  FlowAt(r)' /\ HoldAt(r)'
  <1> USE AmountIsNat
      DEF TypeOK, FlowAt, HoldAt, Holding, Unclaimed, signVars, cashVars, wireVars, dispatchRest,
          Statuses, PCs, Goto, None
  <1>0. Amount(r)' = Amount(r)  BY DEF Amount
  <1>1. CASE Maker(r)
    BY <1>0, <1>1 DEF Maker, InitiateSettlement, InitiateVendorPayment, RequestWithdrawal, Accept
  <1>2. CASE PlatformApprove(r)  BY <1>0, <1>2 DEF PlatformApprove
  <1>3. CASE PlatformReject(r)  BY <1>0, <1>3 DEF PlatformReject, Decline, ReleaseHold
  <1>4. ASSUME NEW o \in Officers, Approve(r, o) \/ ApproveWithdrawal(r, o) \/ Reject(r, o)
        PROVE  FlowAt(r)' /\ HoldAt(r)'
    <2>1. CASE Approve(r, o)  BY <1>0, <2>1 DEF Approve
    <2>2. CASE ApproveWithdrawal(r, o)  BY <1>0, <2>2 DEF ApproveWithdrawal
    <2>3. CASE Reject(r, o)  BY <1>0, <2>3 DEF Reject, Decline, ReleaseHold
    <2> QED BY <1>4, <2>1, <2>2, <2>3
  <1>5. CASE Claim(r)  BY <1>0, <1>5 DEF Claim
  <1>6. CASE PostAccepted(r) \/ PostRefused(r) \/ PostAnswerLost(r)
    BY <1>0, <1>6 DEF PostAccepted, PostRefused, PostAnswerLost
  <1>7. CASE RecordConversation(r)  BY <1>0, <1>7 DEF RecordConversation
  <1>8. CASE RecordError(r)  BY <1>0, <1>8 DEF RecordError
  <1>9. CASE ArmWatchdog(r)
    <2>1. status[r] \notin Unclaimed \cup {"rejected"}  BY <1>9 DEF ArmWatchdog
    <2> QED BY <1>0, <1>9, <2>1 DEF ArmWatchdog
  <1>10. CASE DispatchFailed(r)  BY <1>0, <1>10 DEF DispatchFailed, ReleaseHold
  <1>11. CASE Crash(r)  BY <1>0, <1>11 DEF Crash
  <1>12. CASE DarajaSettles(r)  BY <1>0, <1>12 DEF DarajaSettles
  <1>13. CASE WatchdogTimeout(r)  BY <1>0, <1>13 DEF WatchdogTimeout, Overdue
  <1>14. CASE ResultIgnored(r)  BY <1>0, <1>14 DEF ResultIgnored, Deliver
  <1>15. CASE ResultFailure(r)  BY <1>0, <1>15 DEF ResultFailure, Claimed, Deliver, ReleaseHold
  <1>16. CASE ResultSuccess(r)
    <2>1. /\ status' = [status EXCEPT ![r] = "completed"]
          /\ hold' = [hold EXCEPT ![r] = @ - Amount(r)]
          /\ UNCHANGED <<conversation, armed, pc>>
          /\ conversation[r] /\ status[r] = "processing"
      BY <1>16 DEF ResultSuccess, Claimed, ReleaseHold
    <2> QED BY <1>0, <2>1
  <1> QED BY <1>1, <1>2, <1>3, <1>4, <1>5, <1>6, <1>7, <1>8, <1>9, <1>10, <1>11, <1>12, <1>13,
             <1>14, <1>15, <1>16 DEF RowStep, Checker, Dispatcher, Result

LEMMA FlowStep == TypeOK /\ FlowInv /\ HoldExact /\ [Next]_vars => FlowInv' /\ HoldExact'
  <1> SUFFICES ASSUME TypeOK, FlowInv, HoldExact, [Next]_vars, NEW q \in Rows
               PROVE  FlowAt(q)' /\ HoldAt(q)'
    BY DEF FlowInv, HoldExact, HoldAt
  <1>0. FlowAt(q) /\ HoldAt(q)  BY DEF FlowInv, HoldExact, HoldAt
  <1>1. ASSUME NEW r \in Rows, RowStep(r)
        PROVE  FlowAt(q)' /\ HoldAt(q)'
    BY <1>0, <1>1, RowFlow, OtherRowsSame, SameRowFlow
  <1>2. CASE Desks \/ UNCHANGED vars  BY <1>0, <1>2, IdleRowsSame, SameRowFlow
  <1> QED BY <1>1, <1>2, NextIsRowOrDesk

LEMMA FlowInit == Init => FlowInv /\ HoldExact
  BY DEF Init, FlowInv, FlowAt, HoldExact, Holding, Unclaimed, None

\* Under every fault, replay and timeout the share of reserved_amount of a request is its
\* amount while the request is open and nothing afterwards: of the four places that release
\* it (rejection, catch block, failed result, successful result) exactly one runs.
THEOREM ReservationExact == Spec => []HoldExact
  <1> QED BY FlowInit, FlowStep, TypeCorrect, PTL DEF Spec

\* No step changes the status of a settled row: the claim of the dispatch, the catch block,
\* the results and the watchdog all ask for the status they expect.
THEOREM SettledStaysSettled == Spec => SettledIsFinal
  <1>1. TypeOK /\ [Next]_vars => [\A r \in Rows : status[r] \in Settled => status'[r] = status[r]]_vars
    <2> SUFFICES ASSUME TypeOK, [Next]_vars, NEW q \in Rows, status[q] \in Settled
                 PROVE  status'[q] = status[q]
      OBVIOUS
    <2>1. ASSUME RowStep(q) PROVE status'[q] = status[q]
      BY <2>1
      DEF RowStep, Maker, InitiateSettlement, InitiateVendorPayment, RequestWithdrawal, Accept,
          Checker, Approve, ApproveWithdrawal, Reject, PlatformApprove, PlatformReject,
          Dispatcher, Claim, PostAccepted, PostRefused, PostAnswerLost, RecordConversation,
          RecordError, ArmWatchdog, DispatchFailed, Crash, DarajaSettles, WatchdogTimeout,
          Overdue, Result, ResultIgnored, ResultFailure, ResultSuccess, Claimed, dispatchRest,
          TypeOK, Settled, None
    <2>2. ASSUME NEW r \in Rows \ {q}, RowStep(r) PROVE status'[q] = status[q]
      BY <2>2, OtherRowsSame DEF SameRow
    <2>3. CASE Desks \/ UNCHANGED vars  BY <2>3, IdleRowsSame DEF SameRow
    <2> QED BY <2>1, <2>2, <2>3, NextIsRowOrDesk
  <1> QED BY <1>1, TypeCorrect, PTL DEF Spec, SettledIsFinal

-----------------------------------------------------------------------------
(* Authorisation *)

Dispatched == {"processing", "completed", "failed", "timed_out"}

\* The strengthening of SecondOfficerAgreed and ThreeOfficesSigned: the approvals are in place
\* from the moment a row is released, and Safaricom knows only of rows that were.
AuthorisedAt(r) ==
  /\ daraja[r] # None => status[r] \in Dispatched
  /\ status[r] \in Dispatched \cup {"approved"} =>
       /\ ~IsCampaign(r) => \E s \in signed[r] : s[1] # Input[r].by
       /\ IsCampaign(r) => released[r] /\ Offices \subseteq SignedOffices(r)
  /\ status[r] = "awaiting_platform" => IsCampaign(r) /\ Offices \subseteq SignedOffices(r)

\* The offices of the signatures after one more.
LEMMA OfficesOfAdded ==
  ASSUME NEW S, NEW o, NEW f
  PROVE  {s[2] : s \in S \cup {<<o, f>>}} = {s[2] : s \in S} \cup {f}
  <1>1. ASSUME NEW p \in S \cup {<<o, f>>} PROVE p[2] \in {s[2] : s \in S} \cup {f}
    <2>1. CASE p \in S  BY <2>1, Zenon
    <2>2. CASE p = <<o, f>>
      <3>1. p[2] = f  BY <2>2
      <3> QED BY <3>1
    <2> QED BY <1>1, <2>1, <2>2
  <1>2. ASSUME NEW p \in S PROVE p[2] \in {s[2] : s \in S \cup {<<o, f>>}}
    BY <1>2, Zenon
  <1>3. f \in {s[2] : s \in S \cup {<<o, f>>}}
    <2>1. <<o, f>>[2] = f /\ <<o, f>> \in S \cup {<<o, f>>}  OBVIOUS
    <2> QED BY <2>1, Zenon
  <1> QED BY <1>1, <1>2, <1>3, Zenon

LEMMA OfficesAfter ==
  ASSUME TypeOK, NEW r \in Rows, NEW o \in Officers, ApproveWithdrawal(r, o)
  PROVE  SignedOffices(r)' = SignedOffices(r) \cup {office[o]}
  <1> DEFINE S == signed[r]
             f == office[o]
  <1>1. signed'[r] = S \cup {<<o, f>>} /\ byRole'[r] = byRole[r]
    BY DEF ApproveWithdrawal, Sign, TypeOK
  <1>2. SignedOffices(r)' = {byRole[r]} \cup {s[2] : s \in S \cup {<<o, f>>}}
    BY <1>1, Zenon DEF SignedOffices
  <1>3. SignedOffices(r) = {byRole[r]} \cup {s[2] : s \in S}
    BY Zenon DEF SignedOffices
  <1> HIDE DEF S, f
  <1>4. {s[2] : s \in S \cup {<<o, f>>}} = {s[2] : s \in S} \cup {f}
    BY OfficesOfAdded, Zenon
  <1>5. SignedOffices(r)' = SignedOffices(r) \cup {f}
    BY <1>2, <1>3, <1>4, Zenon
  <1> QED BY <1>5 DEF f

LEMMA AuthorisedStep ==
  ASSUME TypeOK, NEW r \in Rows, FlowAt(r), AuthorisedAt(r), RowStep(r)
  PROVE  AuthorisedAt(r)'
  <1> USE DEF TypeOK, FlowAt, AuthorisedAt, Dispatched, Unclaimed, IsCampaign, SignedOffices,
              signVars, wireVars, dispatchRest, Statuses, PCs, Goto, None
  <1>1. CASE Maker(r)
    <2>1. status[r] = None /\ status'[r] = "pending_approval" /\ UNCHANGED daraja
      BY <1>1 DEF Maker, InitiateSettlement, InitiateVendorPayment, RequestWithdrawal, Accept
    <2> QED BY <2>1
  <1>2. CASE PlatformApprove(r)  BY <1>2 DEF PlatformApprove
  <1>3. CASE PlatformReject(r)  BY <1>3 DEF PlatformReject, Decline
  <1>4. ASSUME NEW o \in Officers, Approve(r, o) \/ ApproveWithdrawal(r, o) \/ Reject(r, o)
        PROVE  AuthorisedAt(r)'
    <2>1. CASE Approve(r, o)
      <3>1. <<o, None>> \in signed'[r] /\ o # Input[r].by
        BY <2>1 DEF Approve, Sign, MayDecide
      <3>2. Input' = Input /\ <<o, None>>[1] = o  OBVIOUS
      <3>3. (\E s \in signed[r] : s[1] # Input[r].by)'  BY <3>1, <3>2
      <3>4. status'[r] = "approved" /\ ~IsCampaign(r) /\ UNCHANGED daraja /\ daraja[r] = None
        BY <2>1 DEF Approve
      <3> QED BY <3>3, <3>4
    <2>2. CASE ApproveWithdrawal(r, o)
      <3>1. daraja[r] = None /\ UNCHANGED <<daraja, byRole>>
        BY <2>2 DEF ApproveWithdrawal
      <3>2. SignedOffices(r)' = SignedOffices(r) \cup {office[o]}
        BY <2>2, OfficesAfter
      <3>3. \/ status'[r] = "pending_approval"
            \/ status'[r] = "awaiting_platform" /\ Offices \subseteq SignedOffices(r) \cup {office[o]}
        BY <2>2 DEF ApproveWithdrawal
      <3>4. IsCampaign(r)  BY <2>2 DEF ApproveWithdrawal
      <3> HIDE DEF SignedOffices
      <3> QED BY <3>1, <3>2, <3>3, <3>4
    <2>3. CASE Reject(r, o)  BY <2>3 DEF Reject, Decline
    <2> QED BY <1>4, <2>1, <2>2, <2>3
  <1>5. CASE Dispatcher(r) \/ Crash(r)
    <2>1. UNCHANGED signVars
      BY <1>5 DEF Dispatcher, Claim, PostAccepted, PostRefused, PostAnswerLost, RecordConversation,
                  RecordError, ArmWatchdog, DispatchFailed, Crash
    <2>2. /\ status'[r] = status[r] \/ (status[r] \in {"approved", "processing"}
                                        /\ status'[r] \in Dispatched)
          /\ daraja'[r] # daraja[r] => status[r] = "processing" /\ status'[r] = status[r]
      BY <1>5 DEF Dispatcher, Claim, PostAccepted, PostRefused, PostAnswerLost, RecordConversation,
                  RecordError, ArmWatchdog, DispatchFailed, Crash
    <2> QED BY <2>1, <2>2
  <1>6. CASE DarajaSettles(r) \/ WatchdogTimeout(r) \/ Result(r)
    <2>1. UNCHANGED signVars
      BY <1>6 DEF DarajaSettles, WatchdogTimeout, Result, ResultIgnored, ResultFailure, ResultSuccess
    <2>2. /\ status'[r] = status[r] \/ (status[r] = "processing" /\ status'[r] \in Dispatched)
          /\ daraja[r] = None => daraja'[r] = None
      BY <1>6 DEF DarajaSettles, WatchdogTimeout, Overdue, Result, ResultIgnored, ResultFailure,
                  ResultSuccess, Claimed
    <2> QED BY <2>1, <2>2
  <1> QED BY <1>1, <1>2, <1>3, <1>4, <1>5, <1>6 DEF RowStep, Checker

LEMMA SameRowAuthorised ==
  ASSUME NEW r \in Rows, SameRow(r), AuthorisedAt(r)
  PROVE  AuthorisedAt(r)'
  BY DEF SameRow, AuthorisedAt, IsCampaign, SignedOffices

AuthorisedInv == \A r \in Rows : AuthorisedAt(r)

LEMMA AuthorisedInvStep ==
  TypeOK /\ FlowInv /\ AuthorisedInv /\ [Next]_vars => AuthorisedInv'
  <1> SUFFICES ASSUME TypeOK, FlowInv, AuthorisedInv, [Next]_vars, NEW q \in Rows
               PROVE  AuthorisedAt(q)'
    BY DEF AuthorisedInv
  <1>0. FlowAt(q) /\ AuthorisedAt(q)  BY DEF FlowInv, AuthorisedInv
  <1>1. ASSUME NEW r \in Rows, RowStep(r)
        PROVE  AuthorisedAt(q)'
    BY <1>0, <1>1, AuthorisedStep, OtherRowsSame, SameRowAuthorised
  <1>2. CASE Desks \/ UNCHANGED vars  BY <1>0, <1>2, IdleRowsSame, SameRowAuthorised
  <1> QED BY <1>1, <1>2, NextIsRowOrDesk

LEMMA AuthorisedInit == Init => AuthorisedInv
  BY DEF Init, AuthorisedInv, AuthorisedAt, Dispatched, None

\* A bank account that is or was in use was activated by someone other than its creator, and
\* every settlement names such an account.
BankInv ==
  /\ \A b \in Banks : bank[b] \in {"active", "disabled"} => checker[b] \notin {None, BankBy[b]}
  /\ \A r \in Rows : IsSettlement(r) /\ status[r] # None =>
       bank[Input[r].bank] \in {"active", "disabled"}

LEMMA BankStep == TypeOK /\ BankInv /\ [Next]_vars => BankInv'
  <1> SUFFICES ASSUME TypeOK, BankInv, [Next]_vars PROVE BankInv'
    OBVIOUS
  <1> USE DEF BankInv, IsSettlement
  <1>1. ASSUME NEW r \in Rows, RowStep(r) PROVE BankInv'
    <2>1. UNCHANGED <<bank, checker>>  BY <1>1, RowLeavesDesks DEF bankVars
    <2>2. ASSUME NEW q \in Rows, IsSettlement(q), status'[q] # None
          PROVE  bank[Input[q].bank] \in {"active", "disabled"}
      <3>1. CASE status[q] # None  BY <2>2, <3>1
      <3>2. CASE status[q] = None
        <4>1. q = r  BY <1>1, <2>2, <3>2, OtherRowsSame DEF SameRow
        <4>2. InitiateSettlement(q)
          BY <1>1, <2>2, <3>2, <4>1
          DEF TypeOK, RowStep, Maker, InitiateVendorPayment, RequestWithdrawal, IsCampaign,
              Checker, Approve, ApproveWithdrawal, Reject, PlatformApprove, PlatformReject,
              Dispatcher, Claim, PostAccepted, PostRefused, PostAnswerLost, RecordConversation,
              RecordError, ArmWatchdog, DispatchFailed, Crash, DarajaSettles, WatchdogTimeout,
              Overdue, Result, ResultIgnored, ResultFailure, ResultSuccess, Claimed, dispatchRest, None
        <4> QED BY <4>2 DEF InitiateSettlement
      <3> QED BY <3>1, <3>2
    <2> QED BY <2>1, <2>2
  <1>2. CASE Desks
    <2>1. UNCHANGED status  BY <1>2, DesksLeaveRows
    <2>2. \A b \in Banks :
            /\ bank'[b] \in {"active", "disabled"} => checker'[b] \notin {None, BankBy[b]}
            /\ bank[b] \in {"active", "disabled"} => bank'[b] \in {"active", "disabled"}
      <3>1. ASSUME NEW b \in Banks, CreateBank(b) \/ DisableBank(b)
                                      \/ \E o \in Officers : RejectBank(b, o)
            PROVE  \A a \in Banks :
              /\ bank'[a] \in {"active", "disabled"} => checker'[a] \notin {None, BankBy[a]}
              /\ bank[a] \in {"active", "disabled"} => bank'[a] \in {"active", "disabled"}
        BY <3>1 DEF CreateBank, DisableBank, RejectBank, TypeOK, None
      <3>2. ASSUME NEW b \in Banks, NEW o \in Officers, ActivateBank(b, o)
            PROVE  \A a \in Banks :
              /\ bank'[a] \in {"active", "disabled"} => checker'[a] \notin {None, BankBy[a]}
              /\ bank[a] \in {"active", "disabled"} => bank'[a] \in {"active", "disabled"}
        BY <3>2, ModeAssumption DEF ActivateBank, TypeOK
      <3>3. CASE CampaignDesk \/ \E o \in Officers, f \in Offices \cup {None} : ChangeOffice(o, f)
        <4>1. UNCHANGED <<bank, checker>>
          BY <3>3 DEF CampaignDesk, CreateCampaign, SetPayoutDestination, SubmitForReview,
                      ApproveCampaign, RejectCampaign, CreditDonation, ChangeOffice, campRest, bankVars
        <4> QED BY <4>1
      <3> QED BY <1>2, <3>1, <3>2, <3>3 DEF Desks, BankDesk
    <2> QED BY <2>1, <2>2, InputTypes
  <1>3. CASE UNCHANGED vars  BY <1>3 DEF vars, bankVars
  <1> QED BY <1>1, <1>2, <1>3, NextIsRowOrDesk

\* For every order of requests, decisions, changes of office, crashes and callbacks, Safaricom
\* is asked to pay a settlement or a vendor only after an officer other than the requester
\* approved, and a settlement only to an account that someone but its creator activated.
THEOREM SecondOfficerAlways == Spec => []SecondOfficerAgreed
  <1>1. Init => BankInv  BY DEF Init, BankInv, None
  <1>2. AuthorisedInv /\ BankInv => SecondOfficerAgreed
    <2> SUFFICES ASSUME AuthorisedInv, BankInv, NEW r \in Rows, daraja[r] # None, ~IsCampaign(r)
                 PROVE  /\ \E s \in signed[r] : s[1] # Input[r].by
                        /\ IsSettlement(r) => checker[Input[r].bank] \notin {None, BankBy[Input[r].bank]}
      BY DEF SecondOfficerAgreed
    <2>1. status[r] \in Dispatched  BY DEF AuthorisedInv, AuthorisedAt
    <2>2. \E s \in signed[r] : s[1] # Input[r].by  BY <2>1 DEF AuthorisedInv, AuthorisedAt
    <2>3. status[r] # None  BY <2>1 DEF Dispatched, None
    <2>4. IsSettlement(r) => checker[Input[r].bank] \notin {None, BankBy[Input[r].bank]}
      BY <2>3, InputTypes DEF BankInv
    <2> QED BY <2>2, <2>4
  <1> QED BY <1>1, <1>2, FlowInit, FlowStep, AuthorisedInit, AuthorisedInvStep, BankStep,
             TypeCorrect, PTL DEF Spec

-----------------------------------------------------------------------------
(* The three offices *)

\* The signatures of a withdrawal are of different people for different offices, none of them
\* the requester's: the offices are read again at every approval, whoever held them before.
SignedAt(r) ==
  IsCampaign(r) =>
    /\ status[r] = None => signed[r] = {}
    /\ status[r] # None => byRole[r] \in Offices
    /\ \A s \in signed[r] :
         /\ s \in Officers \X Offices
         /\ s[1] # Input[r].by /\ s[2] # byRole[r]
    /\ \A s, t \in signed[r] : s[1] = t[1] \/ s[2] = t[2] => s = t

SignedInv == \A r \in Rows : SignedAt(r)

LEMMA SignedStep ==
  ASSUME TypeOK, NEW r \in Rows, SignedAt(r), RowStep(r)
  PROVE  SignedAt(r)'
  <1> USE DEF SignedAt, IsCampaign, TypeOK, None
  <1>1. CASE RequestWithdrawal(r)
    <2>1. /\ status[r] = None /\ UNCHANGED signed
          /\ byRole'[r] = office[Input[r].by] /\ office[Input[r].by] # None
      BY <1>1 DEF RequestWithdrawal, Accept
    <2>2. office[Input[r].by] \in Offices
      <3>1. Input[r].by \in Officers  BY InputTypes DEF Requests
      <3> QED BY <2>1, <3>1
    <2> QED BY <2>1, <2>2
  <1>2. ASSUME NEW o \in Officers, ApproveWithdrawal(r, o)
        PROVE  SignedAt(r)'
    <2> DEFINE new == <<o, office[o]>>
    <2>1. /\ IsCampaign(r) /\ status[r] # None /\ UNCHANGED byRole
          /\ office[o] \in Offices
          /\ office[o] # byRole[r] /\ \A s \in signed[r] : s[2] # office[o]
          /\ o # Input[r].by /\ \A s \in signed[r] : s[1] # o
          /\ status'[r] # None
      BY <1>2 DEF ApproveWithdrawal, SignedOffices, MayDecide
    <2>2. signed'[r] = signed[r] \cup {new}  BY <1>2 DEF ApproveWithdrawal, Sign
    <2>3. new \in Officers \X Offices /\ new[1] = o /\ new[2] = office[o]  BY <2>1
    <2> HIDE DEF new
    <2> QED BY <2>1, <2>2, <2>3
  <1>3. CASE ~RequestWithdrawal(r) /\ ~\E o \in Officers : ApproveWithdrawal(r, o)
    <2>1. CASE ~IsCampaign(r)  BY <2>1
    <2>2. CASE IsCampaign(r)
      <3>1. /\ UNCHANGED <<signed, byRole>>
            /\ (status[r] = None) <=> (status'[r] = None)
        BY <1>3, <2>2
        DEF RowStep, Maker, InitiateSettlement, InitiateVendorPayment, IsSettlement, Checker, Approve,
            Reject, PlatformApprove, PlatformReject, Decline, Dispatcher, Claim, PostAccepted,
            PostRefused, PostAnswerLost, RecordConversation, RecordError, ArmWatchdog,
            DispatchFailed, Crash, DarajaSettles, WatchdogTimeout, Overdue, Result, ResultIgnored,
            ResultFailure, ResultSuccess, Claimed, dispatchRest, signVars
      <3> QED BY <3>1
    <2> QED BY <2>1, <2>2
  <1> QED BY <1>1, <1>2, <1>3

LEMMA SignedInvStep == TypeOK /\ SignedInv /\ [Next]_vars => SignedInv'
  <1> SUFFICES ASSUME TypeOK, SignedInv, [Next]_vars, NEW q \in Rows
               PROVE  SignedAt(q)'
    BY DEF SignedInv
  <1>0. SignedAt(q)  BY DEF SignedInv
  <1>1. ASSUME SameRow(q) PROVE SignedAt(q)'
    BY <1>0, <1>1 DEF SameRow, SignedAt, IsCampaign
  <1>2. ASSUME NEW r \in Rows, RowStep(r) PROVE SignedAt(q)'
    BY <1>0, <1>1, <1>2, SignedStep, OtherRowsSame
  <1>3. CASE Desks \/ UNCHANGED vars  BY <1>1, <1>3, IdleRowsSame
  <1> QED BY <1>2, <1>3, NextIsRowOrDesk

LEMMA ThreeElements ==
  ASSUME NEW a, NEW b, NEW c, a # b, a # c, b # c
  PROVE  Cardinality({a, b, c}) = 3
  <1>1. Cardinality({a}) = 1 /\ IsFiniteSet({a})  BY FS_Singleton
  <1>2. {a, b} = {a} \cup {b} /\ b \notin {a}  OBVIOUS
  <1>3. Cardinality({a, b}) = 2 /\ IsFiniteSet({a, b})  BY <1>1, <1>2, FS_AddElement
  <1>4. {a, b, c} = {a, b} \cup {c} /\ c \notin {a, b}  OBVIOUS
  <1> QED BY <1>3, <1>4, FS_AddElement

\* With the requester's office and the other two signed, exactly three people took part.
LEMMA ThreePeople ==
  ASSUME NEW r \in Rows, IsCampaign(r), status[r] # None, SignedAt(r),
         Offices \subseteq SignedOffices(r)
  PROVE  Cardinality({Input[r].by} \cup {s[1] : s \in signed[r]}) = 3
  <1> DEFINE by == Input[r].by
  <1>1. PICK f, g : f # g /\ f # byRole[r] /\ g # byRole[r] /\ Offices = {byRole[r], f, g}
    BY DEF SignedAt, Offices
  <1>2. PICK s \in signed[r] : s[2] = f  BY <1>1 DEF SignedOffices
  <1>3. PICK t \in signed[r] : t[2] = g  BY <1>1 DEF SignedOffices
  <1>4. \A u \in signed[r] : u = s \/ u = t
    <2> SUFFICES ASSUME NEW u \in signed[r] PROVE u = s \/ u = t
      OBVIOUS
    <2>1. u[2] \in Offices /\ u[2] # byRole[r]  BY DEF SignedAt
    <2>2. u[2] = s[2] \/ u[2] = t[2]  BY <1>1, <1>2, <1>3, <2>1
    <2> QED BY <2>2 DEF SignedAt
  <1>5. s[1] # t[1] /\ s[1] # by /\ t[1] # by  BY <1>1, <1>2, <1>3 DEF SignedAt
  <1>6. {by} \cup {u[1] : u \in signed[r]} = {by, s[1], t[1]}
    <2>1. signed[r] = {s, t}  BY <1>4
    <2>2. {u[1] : u \in {s, t}} = {s[1], t[1]}  BY Zenon
    <2> QED BY <2>1, <2>2, Zenon
  <1> HIDE DEF by
  <1>7. Cardinality({by, s[1], t[1]}) = 3  BY <1>5, ThreeElements
  <1> QED BY <1>6, <1>7 DEF by

\* Whoever becomes or ceases to be an officer meanwhile, a withdrawal is posted to Safaricom
\* only after exactly three people, one for each office, and Kitabu Yetu signed it.
THEOREM ThreeOfficesAlways == Spec => []ThreeOfficesSigned
  <1>1. Init => SignedInv  BY DEF Init, SignedInv, SignedAt, None
  <1>2. AuthorisedInv /\ SignedInv => ThreeOfficesSigned
    <2> SUFFICES ASSUME AuthorisedInv, SignedInv, NEW r \in Rows, daraja[r] # None, IsCampaign(r)
                 PROVE  /\ released[r]
                        /\ Offices \subseteq SignedOffices(r)
                        /\ Cardinality({Input[r].by} \cup {s[1] : s \in signed[r]}) = 3
      BY DEF ThreeOfficesSigned
    <2>1. status[r] \in Dispatched  BY DEF AuthorisedInv, AuthorisedAt
    <2>2. released[r] /\ Offices \subseteq SignedOffices(r)
      BY <2>1 DEF AuthorisedInv, AuthorisedAt
    <2>3. SignedAt(r) /\ status[r] # None  BY <2>1 DEF SignedInv, Dispatched, None
    <2> QED BY <2>2, <2>3, ThreePeople
  <1> QED BY <1>1, <1>2, FlowInit, FlowStep, AuthorisedInit, AuthorisedInvStep, SignedInvStep,
             TypeCorrect, PTL DEF Spec

-----------------------------------------------------------------------------
(* The destination *)

\* A withdrawal belongs to an active campaign, and names where that campaign points.
DestinationAt(r) ==
  IsCampaign(r) /\ status[r] # None =>
    /\ campaign[Input[r].campaign] = "active"
    /\ payTo[r] # None /\ payTo[r] = destination[Input[r].campaign]

DestinationInv == \A r \in Rows : DestinationAt(r)

\* An active campaign stays active, and no desk moves its destination.
LEMMA ActiveCampaignKeeps ==
  ASSUME TypeOK, Desks, NEW c \in Campaigns, campaign[c] = "active"
  PROVE  campaign'[c] = "active" /\ destination'[c] = destination[c]
  BY DEF TypeOK, Desks, BankDesk, CreateBank, DisableBank, ActivateBank, RejectBank, CampaignDesk,
         CreateCampaign, SetPayoutDestination, SubmitForReview, ApproveCampaign, RejectCampaign,
         CreditDonation, ChangeOffice, bankRest, campVars, None

LEMMA DestinationStep == TypeOK /\ DestinationInv /\ [Next]_vars => DestinationInv'
  <1> SUFFICES ASSUME TypeOK, DestinationInv, [Next]_vars, NEW q \in Rows, IsCampaign(q),
                      status'[q] # None
               PROVE  /\ campaign'[Input[q].campaign] = "active"
                      /\ payTo'[q] # None /\ payTo'[q] = destination'[Input[q].campaign]
    BY DEF DestinationInv, DestinationAt, IsCampaign
  <1> DEFINE c == Input[q].campaign
  <1>0. c \in Campaigns /\ DestinationAt(q)  BY InputTypes DEF DestinationInv
  <1>1. CASE \E r \in Rows : RowStep(r)
    <2>1. UNCHANGED <<campaign, destination>>  BY <1>1, RowLeavesDesks DEF campVars
    <2>2. CASE SameRow(q)  BY <1>0, <2>1, <2>2 DEF DestinationAt, SameRow
    <2>3. CASE RowStep(q)
      <3>1. CASE RequestWithdrawal(q)
        <4>1. /\ campaign[c] = "active" /\ destination[c] # None
              /\ payTo' = [payTo EXCEPT ![q] = destination[c]]
          BY <3>1 DEF RequestWithdrawal
        <4>2. payTo'[q] = destination[c]  BY <4>1 DEF TypeOK
        <4> QED BY <2>1, <4>1, <4>2
      <3>2. CASE ~RequestWithdrawal(q)
        <4>1. UNCHANGED payTo /\ status[q] # None
          BY <2>3, <3>2
          DEF TypeOK, RowStep, Maker, InitiateSettlement, InitiateVendorPayment, IsSettlement,
              IsCampaign, Checker, Approve, ApproveWithdrawal, Reject, PlatformApprove,
              PlatformReject, Decline, Dispatcher, Claim, PostAccepted, PostRefused,
              PostAnswerLost, RecordConversation, RecordError, ArmWatchdog, DispatchFailed, Crash,
              DarajaSettles, WatchdogTimeout, Overdue, Result, ResultIgnored, ResultFailure,
              ResultSuccess, Claimed, dispatchRest, signVars, None
        <4> QED BY <1>0, <2>1, <4>1 DEF DestinationAt
      <3> QED BY <3>1, <3>2
    <2> QED BY <1>1, <2>2, <2>3, OtherRowsSame
  <1>2. CASE Desks
    <2>1. status[q] # None /\ payTo'[q] = payTo[q]  BY <1>2, IdleRowsSame DEF SameRow
    <2>2. campaign[c] = "active" /\ payTo[q] # None /\ payTo[q] = destination[c]
      BY <1>0, <2>1 DEF DestinationAt
    <2>3. campaign'[c] = "active" /\ destination'[c] = destination[c]
      BY <1>0, <1>2, <2>2, ActiveCampaignKeeps
    <2> QED BY <2>1, <2>2, <2>3
  <1>3. CASE UNCHANGED vars
    BY <1>0, <1>3 DEF DestinationAt, vars, campVars, signVars
  <1> QED BY <1>1, <1>2, <1>3, NextIsRowOrDesk

\* Changi$ha money can only go where the campaign pointed when it was reviewed: the lock of
\* setPayoutDestination and the copy that requestWithdrawal takes leave no later moment.
THEOREM DestinationAlways == Spec => []PaidWhereReviewed
  <1>1. Init => DestinationInv  BY DEF Init, DestinationInv, DestinationAt
  <1>2. DestinationInv => PaidWhereReviewed
    BY DEF DestinationInv, DestinationAt, PaidWhereReviewed
  <1> QED BY <1>1, <1>2, DestinationStep, TypeCorrect, PTL DEF Spec

-----------------------------------------------------------------------------
(* Journals and the platform's fee *)

PostedAt(r) ==
  /\ booked[r] \in {0, Amount(r)} \cup (IF IsCampaign(r) THEN {} ELSE {Amount(r) + Fee})
  /\ booked[r] > 0 => status[r] = "completed"
  /\ revenue[r] = IF IsCampaign(r) /\ status[r] = "completed" THEN 1 ELSE 0
  /\ status[r] = "completed" => daraja[r] = "paid"

LEMMA PostedStep ==
  ASSUME TypeOK, NEW r \in Rows, FlowAt(r), PostedAt(r), RowStep(r)
  PROVE  PostedAt(r)'
  <1> USE AmountIsNat DEF TypeOK, PostedAt, FlowAt
  <1>0. /\ Amount(r)' = Amount(r) /\ Fee' = Fee /\ IsCampaign(r)' = IsCampaign(r)
        /\ Fee \in Nat /\ booked[r] \in Nat
    BY ModeAssumption DEF Amount, IsCampaign
  <1>1. CASE ResultSuccess(r)
    <2>1. /\ status[r] = "processing" /\ daraja[r] = "paid" /\ UNCHANGED daraja
          /\ status'[r] = "completed"
      BY <1>1 DEF ResultSuccess, Claimed
    <2>2. booked[r] = 0 /\ revenue[r] = 0
      <3>1. ~(booked[r] > 0)  BY <2>1
      <3> QED BY <1>0, <2>1, <3>1
    <2>3. revenue'[r] = IF IsCampaign(r) THEN 1 ELSE 0  BY <1>1, <2>2 DEF ResultSuccess
    <2>4. PICK chart \in Charts : booked' = [booked EXCEPT ![r] = @ + Posted(r, chart)]
      BY <1>1 DEF ResultSuccess
    <2>5. Posted(r, chart) \in {0, Amount(r)} \cup (IF IsCampaign(r) THEN {} ELSE {Amount(r) + Fee})
      BY <1>0, ModeAssumption DEF Posted, AllCharts
    <2>6. booked'[r] = Posted(r, chart)
      <3>1. booked'[r] = booked[r] + Posted(r, chart)  BY <2>4
      <3>2. Posted(r, chart) \in Nat  OBVIOUS
      <3> QED BY <2>2, <3>1, <3>2
    <2> QED BY <1>0, <2>1, <2>3, <2>5, <2>6
  <1>2. CASE ~ResultSuccess(r)
    <2>1. UNCHANGED <<booked, revenue>>
      BY <1>2
      DEF RowStep, Maker, InitiateSettlement, InitiateVendorPayment, RequestWithdrawal, Checker,
          Approve, ApproveWithdrawal, Reject, PlatformApprove, PlatformReject, Decline, Dispatcher,
          Claim, PostAccepted, PostRefused, PostAnswerLost, RecordConversation, RecordError,
          ArmWatchdog, DispatchFailed, Crash, DarajaSettles, WatchdogTimeout, Result,
          ResultIgnored, ResultFailure, dispatchRest, cashVars
    <2>2. /\ (status'[r] = "completed") <=> (status[r] = "completed")
          /\ status[r] = "completed" => daraja'[r] = daraja[r]
      BY <1>2
      DEF RowStep, Maker, InitiateSettlement, InitiateVendorPayment, RequestWithdrawal, Accept,
          Checker, Approve, ApproveWithdrawal, Reject, PlatformApprove, PlatformReject, Decline,
          Dispatcher, Claim, PostAccepted, PostRefused, PostAnswerLost, RecordConversation,
          RecordError, ArmWatchdog, DispatchFailed, Crash, DarajaSettles, WatchdogTimeout, Overdue,
          Result, ResultIgnored, ResultFailure, Claimed, dispatchRest, wireVars, None
    <2> QED BY <1>0, <2>1, <2>2
  <1> QED BY <1>1, <1>2

LEMMA PostedOnceStep == TypeOK /\ FlowInv /\ PostedOnce /\ [Next]_vars => PostedOnce'
  <1> SUFFICES ASSUME TypeOK, FlowInv, PostedOnce, [Next]_vars, NEW q \in Rows
               PROVE  PostedAt(q)'
    BY DEF PostedOnce, PostedAt
  <1>0. FlowAt(q) /\ PostedAt(q)  BY DEF FlowInv, PostedOnce, PostedAt
  <1>1. ASSUME SameRow(q) PROVE PostedAt(q)'
    BY <1>0, <1>1 DEF SameRow, PostedAt, Amount, IsCampaign
  <1>2. ASSUME NEW r \in Rows, RowStep(r) PROVE PostedAt(q)'
    BY <1>0, <1>1, <1>2, PostedStep, OtherRowsSame
  <1>3. CASE Desks \/ UNCHANGED vars  BY <1>1, <1>3, IdleRowsSame
  <1> QED BY <1>2, <1>3, NextIsRowOrDesk

\* Whatever is replayed, late or lost, a payout is journalled at most once, for its amount or
\* its amount and tariff, only on a completed row that Safaricom paid; a completed withdrawal
\* earned the platform its fee exactly once.
THEOREM JournalledOnce == Spec => []PostedOnce
  <1>1. Init => PostedOnce
    BY ModeAssumption, AmountIsNat DEF Init, PostedOnce, None
  <1> QED BY <1>1, FlowInit, FlowStep, PostedOnceStep, TypeCorrect, PTL DEF Spec

-----------------------------------------------------------------------------
(* The promise *)

\* The faults that make the catch block run after Safaricom accepted the POST.
AfterPostFaults == {"lost_response", "record_error"}

\* What Safaricom may know of a row: nothing before the POST, no payment of a failed row.
WireAt(r) ==
  /\ status[r] \in Unclaimed \cup {"rejected"} => daraja[r] = None
  /\ pc[r] \in {"claiming", "posting", "failing"} => daraja[r] = None
  /\ status[r] = "failed" => daraja[r] \in {None, "refused"}
  /\ status[r] = "completed" => daraja[r] = "paid"

WireInv == \A r \in Rows : WireAt(r)

\* The money of one request follows one step of the promise or stands still.
MoneyMoves(r) ==
  \/ MoneyOf(r)' = MoneyOf(r)
  \/ MoneyOf(r) = "absent" /\ MoneyOf(r)' = "held"
  \/ MoneyOf(r) = "held" /\ MoneyOf(r)' \in {"paid", "void"}

LEMMA WireStep ==
  ASSUME AfterPostFaults \cap Faults = {}, TypeOK, NEW r \in Rows, FlowAt(r), WireAt(r), RowStep(r)
  PROVE  WireAt(r)' /\ MoneyMoves(r)
  <1> USE DEF TypeOK, FlowAt, WireAt, MoneyMoves, MoneyOf, Unclaimed, signVars, wireVars,
              dispatchRest, Goto, None
  <1>1. CASE Maker(r)
    BY <1>1 DEF Maker, InitiateSettlement, InitiateVendorPayment, RequestWithdrawal, Accept
  <1>2. CASE PlatformApprove(r) \/ PlatformReject(r)
    BY <1>2 DEF PlatformApprove, PlatformReject, Decline
  <1>3. ASSUME NEW o \in Officers, Approve(r, o) \/ ApproveWithdrawal(r, o) \/ Reject(r, o)
        PROVE  WireAt(r)' /\ MoneyMoves(r)
    <2>1. CASE Approve(r, o)  BY <2>1 DEF Approve
    <2>2. CASE ApproveWithdrawal(r, o)  BY <2>2 DEF ApproveWithdrawal
    <2>3. CASE Reject(r, o)  BY <2>3 DEF Reject, Decline
    <2> QED BY <1>3, <2>1, <2>2, <2>3
  <1>4. CASE Dispatcher(r)
    <2>1. CASE Claim(r)  BY <2>1 DEF Claim
    <2>2. CASE PostAccepted(r)  BY <2>2 DEF PostAccepted
    <2>3. CASE PostRefused(r)  BY <2>3 DEF PostRefused
    <2>4. CASE RecordConversation(r)  BY <2>4 DEF RecordConversation
    <2>5. CASE ArmWatchdog(r)  BY <2>5 DEF ArmWatchdog
    <2>6. CASE DispatchFailed(r)  BY <2>6 DEF DispatchFailed
    <2>7. ~PostAnswerLost(r) /\ ~RecordError(r)
      BY DEF PostAnswerLost, RecordError, AfterPostFaults
    <2> QED BY <1>4, <2>1, <2>2, <2>3, <2>4, <2>5, <2>6, <2>7 DEF Dispatcher
  <1>5. CASE Crash(r)  BY <1>5 DEF Crash
  <1>6. CASE DarajaSettles(r)  BY <1>6 DEF DarajaSettles
  <1>7. CASE WatchdogTimeout(r)  BY <1>7 DEF WatchdogTimeout, Overdue
  <1>8. CASE Result(r)
    <2>1. CASE ResultIgnored(r)  BY <2>1 DEF ResultIgnored
    <2>2. CASE ResultFailure(r)  BY <2>2 DEF ResultFailure, Claimed
    <2>3. CASE ResultSuccess(r)  BY <2>3 DEF ResultSuccess, Claimed
    <2> QED BY <1>8, <2>1, <2>2, <2>3 DEF Result
  <1> QED BY <1>1, <1>2, <1>3, <1>4, <1>5, <1>6, <1>7, <1>8 DEF RowStep, Checker

LEMMA SameRowWire ==
  ASSUME NEW r \in Rows, SameRow(r), WireAt(r)
  PROVE  WireAt(r)' /\ MoneyOf(r)' = MoneyOf(r)
  BY DEF SameRow, WireAt, MoneyOf

\* One request moves and the others stand still: a step of the promise, or none.
LEMMA PromiseStep ==
  ASSUME NEW r \in Rows, MoneyMoves(r), \A q \in Rows \ {r} : MoneyOf(q)' = MoneyOf(q)
  PROVE  [Promise!PNext]_([q \in Rows |-> MoneyOf(q)])
  <1> DEFINE m == [q \in Rows |-> MoneyOf(q)]
  <1>1. CASE MoneyOf(r)' = MoneyOf(r)
    <2>1. m' = m  BY <1>1
    <2> QED BY <2>1
  <1>2. CASE MoneyOf(r) = "absent" /\ MoneyOf(r)' = "held"
    <2>1. m[r] = "absent" /\ m' = [m EXCEPT ![r] = "held"]  BY <1>2
    <2> QED BY <2>1 DEF Promise!PNext, Promise!Hold
  <1>3. CASE MoneyOf(r) = "held" /\ MoneyOf(r)' = "paid"
    <2>1. m[r] = "held" /\ m' = [m EXCEPT ![r] = "paid"]  BY <1>3
    <2> QED BY <2>1 DEF Promise!PNext, Promise!Pay
  <1>4. CASE MoneyOf(r) = "held" /\ MoneyOf(r)' = "void"
    <2>1. m[r] = "held" /\ m' = [m EXCEPT ![r] = "void"]  BY <1>4
    <2> QED BY <2>1 DEF Promise!PNext, Promise!Void
  <1> QED BY <1>1, <1>2, <1>3, <1>4 DEF MoneyMoves

LEMMA WireInit == Init => WireInv
  BY DEF Init, WireInv, WireAt, Unclaimed, None

LEMMA WireInvStep ==
  ASSUME AfterPostFaults \cap Faults = {}, TypeOK, FlowInv, WireInv, [Next]_vars
  PROVE  WireInv'
  <1>0. \A q \in Rows : FlowAt(q) /\ WireAt(q)  BY DEF FlowInv, WireInv
  <1>1. ASSUME NEW r \in Rows, RowStep(r)  PROVE WireInv'
    <2>1. WireAt(r)'  BY <1>0, <1>1, WireStep
    <2>2. \A q \in Rows \ {r} : WireAt(q)'  BY <1>0, <1>1, OtherRowsSame, SameRowWire
    <2> QED BY <2>1, <2>2 DEF WireInv
  <1>2. CASE Desks \/ UNCHANGED vars
    BY <1>0, <1>2, IdleRowsSame, SameRowWire DEF WireInv
  <1> QED BY <1>1, <1>2, NextIsRowOrDesk

\* Settlements, vendor payments and withdrawals implement PayoutPromise as long as the catch
\* block only runs when the POST really failed, crashes and the watchdog included: money
\* leaves from a live reservation, once, and one that was given back never becomes a payment.
THEOREM ServicesKeepPromise ==
  ASSUME AfterPostFaults \cap Faults = {}
  PROVE  Spec => KeepsPromise
  <1> DEFINE m == [r \in Rows |-> MoneyOf(r)]
  <1>1. Init => WireInv /\ Promise!PInit
    <2> SUFFICES ASSUME Init PROVE WireInv /\ Promise!PInit
      OBVIOUS
    <2>1. WireInv  BY WireInit
    <2>2. \A r \in Rows : MoneyOf(r) = "absent"  BY DEF Init, MoneyOf, None
    <2> QED BY <2>1, <2>2 DEF Promise!PInit
  <1>2. TypeOK /\ FlowInv /\ WireInv /\ [Next]_vars => WireInv' /\ [Promise!PNext]_m
    <2> SUFFICES ASSUME TypeOK, FlowInv, WireInv, [Next]_vars PROVE WireInv' /\ [Promise!PNext]_m
      OBVIOUS
    <2>0. WireInv' /\ \A q \in Rows : FlowAt(q) /\ WireAt(q)
      BY WireInvStep DEF FlowInv, WireInv
    <2>1. ASSUME NEW r \in Rows, RowStep(r)  PROVE [Promise!PNext]_m
      <3>1. MoneyMoves(r)  BY <2>0, <2>1, WireStep
      <3>2. \A q \in Rows \ {r} : MoneyOf(q)' = MoneyOf(q)
        BY <2>0, <2>1, OtherRowsSame, SameRowWire
      <3> QED BY <3>1, <3>2, PromiseStep
    <2>2. CASE Desks \/ UNCHANGED vars
      <3>1. \A q \in Rows : MoneyOf(q)' = MoneyOf(q)
        BY <2>0, <2>2, IdleRowsSame, SameRowWire
      <3>2. m' = m  BY <3>1
      <3> QED BY <2>0, <3>2
    <2> QED BY <2>0, <2>1, <2>2, NextIsRowOrDesk
  <1> QED BY <1>1, <1>2, FlowInit, FlowStep, TypeCorrect, PTL DEF Spec, KeepsPromise, Promise!PSpec

-----------------------------------------------------------------------------
(* The cash *)

\* What a request ties up: its reservation while it is open, its amount once it is journalled.
Need == [r \in Rows |-> hold[r] + IF booked[r] > 0 THEN Amount(r) ELSE 0]
Tariff == [r \in Rows |-> IF booked[r] > 0 THEN booked[r] - Amount(r) ELSE 0]
Needed == SumFunctionOnSet(Need, Rows)

\* The strengthening of OnlyFeesOverdraw.
CashInv == Needed <= Opening + paidIn

LEMMA NeedTypes ==
  ASSUME TypeOK, PostedOnce
  PROVE  /\ Summable(hold, Rows) /\ Summable(booked, Rows)
         /\ Summable(Need, Rows) /\ Summable(Tariff, Rows)
         /\ \A r \in Rows : Tariff[r] \in Nat
  <1>1. \A r \in Rows : hold[r] \in Int /\ booked[r] \in Nat /\ Amount(r) \in Nat
    BY AmountIsNat DEF TypeOK
  <1>2. \A r \in Rows : booked[r] > 0 => booked[r] - Amount(r) \in Nat
    <2> SUFFICES ASSUME NEW r \in Rows, booked[r] > 0 PROVE booked[r] - Amount(r) \in Nat
      OBVIOUS
    <2>1. booked[r] \in {Amount(r), Amount(r) + Fee}  BY <1>1 DEF PostedOnce
    <2> QED BY <1>1, <2>1, ModeAssumption
  <1>3. \A r \in Rows : Need[r] \in Int  BY <1>1 DEF Need
  <1>4. \A r \in Rows : Tariff[r] \in Nat  BY <1>2 DEF Tariff
  <1> QED BY <1>1, <1>3, <1>4, FiniteAssumption DEF Summable

\* Need and tariff are what the account of the group is short of.
LEMMA NeedSplits ==
  ASSUME TypeOK, PostedOnce
  PROVE  /\ Reserved - Balance - FeesBooked = Needed - Opening - paidIn
         /\ Reserved \in Int /\ Balance \in Int /\ FeesBooked \in Nat /\ Needed \in Int
  <1> DEFINE Both == [r \in Rows |-> hold[r] + booked[r]]
  <1>1. /\ Summable(hold, Rows) /\ Summable(booked, Rows)
        /\ Summable(Need, Rows) /\ Summable(Tariff, Rows)
        /\ \A r \in Rows : Tariff[r] \in Nat
    BY NeedTypes
  <1>2. \A r \in Rows : Both[r] = hold[r] + booked[r]  OBVIOUS
  <1>3. \A r \in Rows : Both[r] = Need[r] + Tariff[r]
    <2> SUFFICES ASSUME NEW r \in Rows PROVE hold[r] + booked[r] = Need[r] + Tariff[r]
      OBVIOUS
    <2>1. hold[r] \in Int /\ booked[r] \in Nat /\ Amount(r) \in Nat  BY AmountIsNat DEF TypeOK
    <2> QED BY <2>1 DEF Need, Tariff
  <1> HIDE DEF Both
  <1>4. SumFunctionOnSet(Both, Rows) = Reserved + SumFunctionOnSet(booked, Rows)
    BY <1>1, <1>2, SumOfSums DEF Reserved
  <1>5. SumFunctionOnSet(Both, Rows) = Needed + FeesBooked
    BY <1>1, <1>3, SumOfSums DEF Needed, FeesBooked, Tariff
  <1>6. Reserved \in Int /\ SumFunctionOnSet(booked, Rows) \in Int /\ Needed \in Int
    BY <1>1, SumIsInt DEF Reserved, Needed
  <1>7. FeesBooked \in Nat
    <2>1. SumFunctionOnSet(Tariff, Rows) \in Nat  BY <1>1, FiniteAssumption, SumIsNat
    <2> QED BY <2>1 DEF FeesBooked, Tariff
  <1>8. Opening \in Nat /\ paidIn \in Nat  BY ModeAssumption DEF TypeOK
  <1> DEFINE B == SumFunctionOnSet(booked, Rows)
             W == SumFunctionOnSet(Both, Rows)
  <1>9. W = Reserved + B /\ W = Needed + FeesBooked /\ B \in Int  BY <1>4, <1>5, <1>6
  <1>10. Balance = Opening + paidIn - B  BY DEF Balance
  <1> HIDE DEF B, W
  <1>11. Balance \in Int  BY <1>8, <1>9, <1>10
  <1> QED BY <1>6, <1>7, <1>8, <1>9, <1>10, <1>11

\* Only a maker's request makes a row need more.
LEMMA NeedFalls ==
  ASSUME TypeOK, TypeOK', NEW r \in Rows, FlowAt(r), HoldAt(r), PostedAt(r), RowStep(r), ~Maker(r)
  PROVE  Need'[r] <= Need[r]
  <1>1. /\ hold[r] \in Int /\ booked[r] \in Nat /\ hold'[r] \in Int /\ booked'[r] \in Nat
        /\ Amount(r) \in Nat /\ Amount(r)' = Amount(r)
    BY AmountIsNat DEF TypeOK, Amount
  <1>2. /\ Need[r] = hold[r] + IF booked[r] > 0 THEN Amount(r) ELSE 0
        /\ Need'[r] = hold'[r] + IF booked'[r] > 0 THEN Amount(r) ELSE 0
    BY <1>1 DEF Need
  <1>3. CASE ResultSuccess(r)
    <2>1. status[r] = "processing" /\ hold' = [hold EXCEPT ![r] = @ - Amount(r)]
      BY <1>3 DEF ResultSuccess, Claimed, ReleaseHold
    <2>2. hold[r] = Amount(r)  BY <2>1 DEF HoldAt, Holding
    <2>3. hold'[r] = hold[r] - Amount(r)  BY <2>1 DEF TypeOK
    <2> QED BY <1>1, <1>2, <2>2, <2>3
  <1>4. CASE ~ResultSuccess(r)
    <2>1. UNCHANGED booked /\ (UNCHANGED hold \/ hold' = [hold EXCEPT ![r] = @ - Amount(r)])
      BY <1>4
      DEF RowStep, Checker, Approve, ApproveWithdrawal, Reject, PlatformApprove, PlatformReject,
          Decline, Dispatcher, Claim, PostAccepted, PostRefused, PostAnswerLost,
          RecordConversation, RecordError, ArmWatchdog, DispatchFailed, Crash, DarajaSettles,
          WatchdogTimeout, Result, ResultIgnored, ResultFailure, ReleaseHold, dispatchRest, cashVars
    <2>2. hold'[r] <= hold[r]  BY <1>1, <2>1 DEF TypeOK
    <2> QED BY <1>1, <1>2, <2>1, <2>2
  <1> QED BY <1>3, <1>4

LEMMA CashStep ==
  TypeOK /\ TypeOK' /\ FlowInv /\ HoldExact /\ PostedOnce /\ PostedOnce' /\ CashInv /\ [Next]_vars
    => CashInv'
  <1> SUFFICES ASSUME TypeOK, TypeOK', FlowInv, HoldExact, PostedOnce, PostedOnce', CashInv,
                      [Next]_vars
               PROVE  CashInv'
    OBVIOUS
  <1>1. /\ Summable(Need, Rows) /\ Summable(Need', Rows)
        /\ Needed \in Int /\ Needed' \in Int /\ Opening \in Nat /\ paidIn \in Nat /\ paidIn' \in Nat
    <2>1. Summable(Need, Rows)  BY NeedTypes
    <2>2. Summable(Need', Rows)
      <3>1. \A r \in Rows : hold'[r] \in Int /\ Amount(r)' \in Int
        BY AmountIsNat DEF TypeOK, Amount
      <3>2. \A r \in Rows : Need'[r] \in Int  BY <3>1 DEF Need
      <3> QED BY <3>2, FiniteAssumption DEF Summable
    <2>3. Needed' = SumFunctionOnSet(Need', Rows)  BY DEF Needed
    <2> QED BY <2>1, <2>2, <2>3, SumIsInt, ModeAssumption DEF Needed, TypeOK
  <1>2. ASSUME NEW r \in Rows, RowStep(r)  PROVE CashInv'
    <2>1. UNCHANGED paidIn  BY <1>2, RowLeavesDesks DEF campVars
    <2>2. \A q \in Rows \ {r} : Need[q] = Need'[q]
      BY <1>2, OtherRowsSame DEF SameRow, Need, Amount
    <2>3. CASE ~Maker(r)
      <3>1. FlowAt(r) /\ HoldAt(r) /\ PostedAt(r)
        BY DEF FlowInv, HoldExact, HoldAt, PostedOnce, PostedAt
      <3>2. Need'[r] <= Need[r]  BY <1>2, <2>3, <3>1, NeedFalls
      <3>3. \A q \in Rows : Need'[q] <= Need[q]
        BY <1>1, <2>2, <3>2 DEF Summable
      <3>4. SumFunctionOnSet(Need', Rows) <= SumFunctionOnSet(Need, Rows)
        BY <1>1, <3>3, SumMonotonic
      <3> QED BY <1>1, <2>1, <3>4 DEF CashInv, Needed
    <2>4. CASE Maker(r)
      <3>1. Amount(r) <= Available /\ hold' = [hold EXCEPT ![r] = @ + Amount(r)] /\ UNCHANGED booked
        BY <2>4 DEF Maker, InitiateSettlement, InitiateVendorPayment, RequestWithdrawal, Accept
      <3>2. hold[r] \in Int /\ booked[r] \in Nat /\ Amount(r) \in Nat /\ Amount(r)' = Amount(r)
        BY AmountIsNat DEF TypeOK, Amount
      <3>3. Need'[r] = Need[r] + Amount(r)
        <4>1. hold'[r] = hold[r] + Amount(r) /\ booked'[r] = booked[r]  BY <3>1 DEF TypeOK
        <4> QED BY <3>2, <4>1 DEF Need
      <3>4. SumFunctionOnSet(Need', Rows) = SumFunctionOnSet(Need, Rows) - Need[r] + Need'[r]
        BY <1>1, <2>2, SumUpdated
      <3>5. Need[r] \in Int  BY <1>1 DEF Summable
      <3>6. Needed' = Needed + Amount(r)
        BY <1>1, <3>2, <3>3, <3>4, <3>5 DEF Needed
      <3>7. /\ Reserved - Balance - FeesBooked = Needed - Opening - paidIn
            /\ Reserved \in Int /\ Balance \in Int /\ FeesBooked \in Nat
        BY NeedSplits
      <3>8. Amount(r) <= Balance - Reserved  BY <3>1 DEF Available
      <3> QED BY <1>1, <2>1, <3>2, <3>6, <3>7, <3>8 DEF CashInv
    <2> QED BY <2>3, <2>4
  <1>3. CASE Desks \/ UNCHANGED vars
    <2>1. \A q \in Rows : Need[q] = Need'[q]
      BY <1>3, IdleRowsSame DEF SameRow, Need, Amount
    <2>2. SumFunctionOnSet(Need, Rows) = SumFunctionOnSet(Need', Rows)
      BY <2>1, FiniteAssumption, SumSame
    <2>3. Needed' = Needed  BY <2>2 DEF Needed
    <2>4. paidIn <= paidIn'
      <3>1. ASSUME NEW g \in Receipts, CreditDonation(g)  PROVE paidIn <= paidIn'
        <4>1. Gift[g].amount \in Nat  BY InputAssumption
        <4> QED BY <1>1, <3>1, <4>1 DEF CreditDonation
      <3>2. CASE ~\E g \in Receipts : CreditDonation(g)
        <4>1. UNCHANGED paidIn
          BY <1>3, <3>2
          DEF vars, Desks, BankDesk, CreateBank, DisableBank, ActivateBank, RejectBank,
              CampaignDesk, CreateCampaign, SetPayoutDestination, SubmitForReview,
              ApproveCampaign, RejectCampaign, ChangeOffice, bankRest, campVars, moneyIn
        <4> QED BY <1>1, <4>1
      <3> QED BY <3>1, <3>2
    <2>5. Needed <= Opening + paidIn  BY DEF CashInv
    <2>6. /\ Needed \in Int /\ Needed' \in Int
          /\ Opening \in Nat /\ paidIn \in Nat /\ paidIn' \in Nat
      BY <1>1
    <2>7. Needed' <= Opening + paidIn'
      <3> DEFINE n == Needed
                 o == Opening
      <3>1. n \in Int /\ o \in Int /\ paidIn \in Int /\ paidIn' \in Int  BY <2>6
      <3>2. n <= o + paidIn  BY <2>5
      <3> HIDE DEF n, o
      <3>3. \A p, q \in Int : n <= o + p /\ p <= q => n <= o + q  BY <3>1
      <3>4. n <= o + paidIn'  BY <2>4, <3>1, <3>2, <3>3
      <3> QED BY <2>3, <3>4 DEF n, o
    <2> QED BY <2>7 DEF CashInv
  <1> QED BY <1>2, <1>3, NextIsRowOrDesk

\* All open requests together never promise more cash than there is, beyond the tariff of
\* payouts already journalled, which nothing reserved: the check and the reservation are one
\* transaction under the row lock, and no other step makes a request need more.
THEOREM RequestsBacked == Spec => []OnlyFeesOverdraw
  <1>1. Init => CashInv
    <2> SUFFICES ASSUME Init PROVE CashInv
      OBVIOUS
    <2>1. \A r \in Rows : Need[r] = 0  BY DEF Init, Need
    <2>2. Needed = 0  BY <2>1, FiniteAssumption, SumOfZeros DEF Needed
    <2> QED BY <2>2, ModeAssumption DEF Init, CashInv
  <1>2. TypeOK /\ PostedOnce /\ CashInv => OnlyFeesOverdraw
    <2> SUFFICES ASSUME TypeOK, PostedOnce, CashInv PROVE Reserved <= Balance + FeesBooked
      BY DEF OnlyFeesOverdraw
    <2>1. Opening \in Nat /\ paidIn \in Nat  BY ModeAssumption DEF TypeOK
    <2> QED BY <2>1, NeedSplits DEF CashInv
  <1> QED BY <1>1, <1>2, FlowInit, FlowStep, CashStep, JournalledOnce, TypeCorrect, PTL DEF Spec

-----------------------------------------------------------------------------
(* The campaigns *)

GiftsTo(c) == {g \in donated : Gift[g].campaign = c}
GiftAmount == [g \in Receipts |-> Gift[g].amount]

\* A donation moves the total of its campaign; no other step of anybody does.
LEMMA RaisedMoves ==
  ASSUME TypeOK, [Next]_vars
  PROVE  \/ \E g \in Receipts : CreditDonation(g)
         \/ UNCHANGED <<raised, donated>>
  <1>1. ASSUME NEW r \in Rows, RowStep(r)  PROVE UNCHANGED <<raised, donated>>
    BY <1>1, RowLeavesDesks DEF campVars
  <1>2. ASSUME Desks, ~\E g \in Receipts : CreditDonation(g)
        PROVE  UNCHANGED <<raised, donated>>
    BY <1>2
    DEF Desks, BankDesk, CreateBank, DisableBank, ActivateBank, RejectBank, bankRest, campVars,
        CampaignDesk, CreateCampaign, SetPayoutDestination, SubmitForReview, ApproveCampaign,
        RejectCampaign, ChangeOffice, moneyIn
  <1>3. CASE UNCHANGED vars  BY <1>3 DEF vars, campVars
  <1> QED BY <1>1, <1>2, <1>3, NextIsRowOrDesk

LEMMA RaisedStep == TypeOK /\ RaisedIsDonated /\ [Next]_vars => RaisedIsDonated'
  <1> SUFFICES ASSUME TypeOK, RaisedIsDonated, [Next]_vars, NEW c \in Campaigns
               PROVE  raised'[c] = Donations(GiftsTo(c)')
    BY DEF RaisedIsDonated, GiftsTo
  <1>1. raised[c] = Donations(GiftsTo(c))  BY DEF RaisedIsDonated, GiftsTo
  <1>2. CASE UNCHANGED <<raised, donated>>  BY <1>1, <1>2 DEF GiftsTo
  <1>3. ASSUME NEW g \in Receipts, CreditDonation(g)
        PROVE  raised'[c] = Donations(GiftsTo(c)')
    <2>1. /\ g \notin donated /\ donated' = donated \cup {g}
          /\ raised' = [raised EXCEPT ![Gift[g].campaign] = @ + Gift[g].amount]
      BY <1>3 DEF CreditDonation, Fresh
    <2>2. CASE c # Gift[g].campaign
      <3>1. GiftsTo(c)' = GiftsTo(c)  BY <2>1, <2>2 DEF GiftsTo
      <3>2. raised'[c] = raised[c]  BY <2>1, <2>2 DEF TypeOK
      <3> QED BY <1>1, <3>1, <3>2
    <2>3. CASE c = Gift[g].campaign
      <3>1. GiftsTo(c)' = GiftsTo(c) \cup {g} /\ g \notin GiftsTo(c)
        BY <2>1, <2>3 DEF GiftsTo
      <3>2. raised'[c] = raised[c] + Gift[g].amount  BY <2>1, <2>3 DEF TypeOK
      <3>3. Summable(GiftAmount, GiftsTo(c) \cup {g})
        <4>1. GiftsTo(c) \cup {g} \in SUBSET Receipts  BY DEF TypeOK, GiftsTo
        <4>2. \A x \in Receipts : GiftAmount[x] \in Int  BY InputAssumption DEF GiftAmount
        <4> QED BY <4>1, <4>2, FiniteAssumption, SummableSubset DEF Summable
      <3>4. SumFunctionOnSet(GiftAmount, GiftsTo(c) \cup {g})
              = GiftAmount[g] + SumFunctionOnSet(GiftAmount, GiftsTo(c))
        BY <3>1, <3>3, SumWith
      <3>5. /\ Donations(GiftsTo(c)) = SumFunctionOnSet(GiftAmount, GiftsTo(c))
            /\ Donations(GiftsTo(c)') = SumFunctionOnSet(GiftAmount, GiftsTo(c) \cup {g})
        BY <3>1 DEF Donations, GiftAmount
      <3>6. GiftAmount[g] = Gift[g].amount /\ Gift[g].amount \in Nat /\ raised[c] \in Nat
        BY InputAssumption DEF GiftAmount, TypeOK
      <3> QED BY <1>1, <3>2, <3>4, <3>5, <3>6
    <2> QED BY <2>2, <2>3
  <1> QED BY <1>2, <1>3, RaisedMoves

\* The total of every campaign is the sum of the donations with its receipts, each counted
\* once, whichever callback brings the receipt first and however often it comes back.
THEOREM TotalsAreDonations == Spec => []RaisedIsDonated
  <1>1. Init => RaisedIsDonated
    BY SumOfNothing DEF Init, RaisedIsDonated, Donations
  <1> QED BY <1>1, RaisedStep, TypeCorrect, PTL DEF Spec

\* What each request draws of a campaign while its status is one of S.
Draws(c, S) == [r \in Rows |-> IF r \in Withdrawals(c) /\ status[r] \in S THEN Amount(r) ELSE 0]

LEMMA DrawsSummable ==
  ASSUME NEW c, NEW S
  PROVE  Summable(Draws(c, S), Rows) /\ Summable(Draws(c, S)', Rows)
  <1>1. \A r \in Rows : Amount(r) \in Int /\ Amount(r)' \in Int
    BY AmountIsNat DEF Amount
  <1>2. \A r \in Rows : Draws(c, S)[r] \in Int /\ Draws(c, S)'[r] \in Int
    BY <1>1 DEF Draws
  <1> QED BY <1>2, FiniteAssumption DEF Summable

LEMMA TotalIsSum ==
  ASSUME NEW P \in SUBSET Rows, NEW d, \A r \in Rows : d[r] = IF r \in P THEN Amount(r) ELSE 0
  PROVE  Total(P) = SumFunctionOnSet(d, Rows)
  <1> DEFINE A == [r \in Rows |-> Amount(r)]
  <1>1. Summable(A, Rows)  BY AmountIsNat, FiniteAssumption DEF Summable
  <1>2. \A r \in Rows : d[r] = IF r \in P THEN A[r] ELSE 0  OBVIOUS
  <1>3. Total(P) = SumFunctionOnSet(A, P)  BY DEF Total
  <1> HIDE DEF A
  <1> QED BY <1>1, <1>2, <1>3, SumZeroed

\* What is drawn of a campaign, as its check counts it: open or completed.
DrawnInv == \A c \in Campaigns : Drawn(c) <= raised[c]

\* Only a maker's request starts to draw.
LEMMA DrawingEnds ==
  ASSUME TypeOK, NEW r \in Rows, RowStep(r), ~Maker(r), status[r] \notin Drawing
  PROVE  status'[r] \notin Drawing
  <1> USE DEF TypeOK, Drawing
  <1>1. CASE Checker(r)
    BY <1>1 DEF Checker, Approve, ApproveWithdrawal, Reject, Decline, PlatformApprove, PlatformReject
  <1>2. CASE Dispatcher(r) \/ Crash(r)
    BY <1>2 DEF Dispatcher, Claim, PostAccepted, PostRefused, PostAnswerLost, RecordConversation,
                RecordError, ArmWatchdog, DispatchFailed, Crash
  <1>3. CASE DarajaSettles(r) \/ WatchdogTimeout(r)
    BY <1>3 DEF DarajaSettles, WatchdogTimeout, Overdue
  <1>4. CASE Result(r)
    BY <1>4 DEF Result, ResultIgnored, ResultFailure, ResultSuccess, Claimed
  <1> QED BY <1>1, <1>2, <1>3, <1>4 DEF RowStep

LEMMA DrawnStep == TypeOK /\ TypeOK' /\ DrawnInv /\ [Next]_vars => DrawnInv'
  <1> SUFFICES ASSUME TypeOK, TypeOK', DrawnInv, [Next]_vars, NEW c \in Campaigns
               PROVE  Drawn(c)' <= raised'[c]
    BY DEF DrawnInv
  <1> DEFINE D == Draws(c, Drawing)
  <1>1. /\ Drawn(c) = SumFunctionOnSet(D, Rows)
        /\ Drawn(c)' = SumFunctionOnSet(D', Rows)
    <2> DEFINE P == {r \in Withdrawals(c) : status[r] \in Drawing}
    <2>1. P \in SUBSET Rows /\ P' \in SUBSET Rows  BY DEF Withdrawals
    <2>2. /\ \A r \in Rows : D[r] = IF r \in P THEN Amount(r) ELSE 0
          /\ \A r \in Rows : D'[r] = IF r \in P' THEN Amount(r) ELSE 0
      BY DEF Draws, Withdrawals, Amount
    <2>3. Drawn(c) = Total(P) /\ Drawn(c)' = Total(P')
      BY DEF Drawn, Total, Amount, Withdrawals
    <2> HIDE DEF P, D
    <2> QED BY <2>1, <2>2, <2>3, TotalIsSum
  <1>2. Summable(D, Rows) /\ Summable(D', Rows)  BY DrawsSummable
  <1>3. /\ Drawn(c) \in Int /\ Drawn(c)' \in Int /\ raised[c] \in Nat /\ raised'[c] \in Nat
        /\ Drawn(c) <= raised[c]
    BY <1>1, <1>2, SumIsInt DEF TypeOK, DrawnInv
  <1>4. ASSUME NEW r \in Rows, RowStep(r)  PROVE Drawn(c)' <= raised'[c]
    <2>1. raised' = raised  BY <1>4, RowLeavesDesks DEF campVars
    <2>2. \A q \in Rows \ {r} : D'[q] = D[q]
      BY <1>4, OtherRowsSame DEF SameRow, Draws, Amount, Withdrawals
    <2>3. /\ D[r] = IF r \in Withdrawals(c) /\ status[r] \in Drawing THEN Amount(r) ELSE 0
          /\ D'[r] = IF r \in Withdrawals(c) /\ status'[r] \in Drawing THEN Amount(r) ELSE 0
          /\ Amount(r) \in Nat
      BY AmountIsNat DEF Draws, Amount, Withdrawals
    <2> HIDE DEF D
    <2>4. CASE D'[r] <= D[r]
      <3>1. \A q \in Rows : D'[q] <= D[q]  BY <1>2, <2>2, <2>4 DEF Summable
      <3>2. SumFunctionOnSet(D', Rows) <= SumFunctionOnSet(D, Rows)
        BY <1>2, <3>1, SumMonotonic
      <3> QED BY <1>1, <1>3, <2>1, <3>2
    <2>5. CASE Maker(r) /\ r \in Withdrawals(c)
      <3>1. IsCampaign(r) /\ Input[r].campaign = c
        BY <2>5, InputTypes, InputAssumption, ModeAssumption DEF Withdrawals, IsCampaign, Requests
      <3>2. RequestWithdrawal(r)
        BY <2>5, <3>1 DEF Maker, InitiateSettlement, InitiateVendorPayment, IsCampaign, IsSettlement
      <3>3. Amount(r) <= raised[c] - Drawn(c) /\ status[r] = None
        BY <3>1, <3>2 DEF RequestWithdrawal, WithinCampaign, Accept
      <3>4. D[r] = 0  BY <2>3, <3>3 DEF Drawing, None
      <3>5. D'[r] <= Amount(r) /\ D'[r] \in Int  BY <2>3
      <3>6. SumFunctionOnSet(D', Rows) = SumFunctionOnSet(D, Rows) - D[r] + D'[r]
        BY <1>2, <2>2, SumUpdated
      <3>7. Drawn(c)' = Drawn(c) + D'[r]  BY <1>1, <1>3, <3>4, <3>5, <3>6
      <3> QED BY <1>3, <2>1, <2>3, <3>3, <3>5, <3>7
    <2>6. ~(Maker(r) /\ r \in Withdrawals(c)) => D'[r] <= D[r]
      BY <1>4, <2>3, DrawingEnds
    <2> QED BY <2>4, <2>5, <2>6
  <1>5. CASE Desks \/ UNCHANGED vars
    <2>1. \A q \in Rows : D[q] = D'[q]
      BY <1>5, IdleRowsSame DEF SameRow, Draws, Amount, Withdrawals
    <2> HIDE DEF D
    <2>2. Drawn(c)' = Drawn(c)  BY <1>1, <2>1, FiniteAssumption, SumSame
    <2>3. raised[c] <= raised'[c]
      <3>1. ASSUME NEW g \in Receipts, CreditDonation(g)  PROVE raised[c] <= raised'[c]
        <4>1. raised' = [raised EXCEPT ![Gift[g].campaign] = @ + Gift[g].amount]
          BY <3>1 DEF CreditDonation
        <4>2. Gift[g].amount \in Nat /\ raised[c] \in Nat  BY InputAssumption DEF TypeOK
        <4>3. raised'[c] = raised[c] \/ raised'[c] = raised[c] + Gift[g].amount
          BY <4>1 DEF TypeOK
        <4> QED BY <4>2, <4>3
      <3> QED BY <1>3, <3>1, RaisedMoves
    <2> QED BY <1>3, <2>2, <2>3
  <1> QED BY <1>4, <1>5, NextIsRowOrDesk

LEMMA DrawnInit == Init => DrawnInv
  <1> SUFFICES ASSUME Init, NEW c \in Campaigns PROVE Drawn(c) <= raised[c]
    BY DEF DrawnInv
  <1>1. {r \in Withdrawals(c) : status[r] \in Drawing} = {}
    BY DEF Init, Withdrawals, Drawing, None
  <1>2. Drawn(c) = 0  BY <1>1, SumOfNothing DEF Drawn, Total
  <1> QED BY <1>2 DEF Init

\* The requests of a campaign that are open or paid never add up to more than it raised, under
\* every fault: raised only grows, a row starts to draw only when its amount is still there,
\* and no row draws again once it stopped.
THEOREM DrawnWithinRaised == Spec => []DrawnInv
  <1> QED BY DrawnInit, DrawnStep, TypeCorrect, PTL DEF Spec

\* Nothing times out a row unless a watchdog was armed.
NoTimeout == \A r \in Rows : ~armed[r] /\ status[r] # "timed_out"

LEMMA NoTimeoutStep ==
  ASSUME ~Qstash
  PROVE  TypeOK /\ NoTimeout /\ [Next]_vars => NoTimeout'
  <1> SUFFICES ASSUME TypeOK, NoTimeout, [Next]_vars, NEW q \in Rows
               PROVE  ~armed'[q] /\ status'[q] # "timed_out"
    BY DEF NoTimeout
  <1>0. ~armed[q] /\ status[q] # "timed_out"  BY DEF NoTimeout
  <1>1. ASSUME NEW r \in Rows, RowStep(r)
        PROVE  ~armed'[q] /\ status'[q] # "timed_out"
    <2>1. CASE q # r  BY <1>0, <1>1, <2>1, OtherRowsSame DEF SameRow
    <2>2. CASE q = r
      <3> USE <1>0, <2>2 DEF TypeOK, signVars, cashVars, wireVars, dispatchRest
      <3>1. CASE Maker(r)
        BY <3>1 DEF Maker, InitiateSettlement, InitiateVendorPayment, RequestWithdrawal, Accept
      <3>2. CASE Checker(r)
        BY <3>2 DEF Checker, Approve, ApproveWithdrawal, Reject, Decline, PlatformApprove,
                    PlatformReject
      <3>3. CASE ArmWatchdog(r)  BY <3>3 DEF ArmWatchdog
      <3>4. CASE (Dispatcher(r) /\ ~ArmWatchdog(r)) \/ Crash(r)
        BY <3>4 DEF Dispatcher, Claim, PostAccepted, PostRefused, PostAnswerLost,
                    RecordConversation, RecordError, DispatchFailed, Crash
      <3>5. CASE DarajaSettles(r) \/ WatchdogTimeout(r)
        BY <3>5 DEF DarajaSettles, WatchdogTimeout
      <3>6. CASE Result(r)
        BY <3>6 DEF Result, ResultIgnored, ResultFailure, ResultSuccess, Deliver
      <3> QED BY <1>1, <3>1, <3>2, <3>3, <3>4, <3>5, <3>6 DEF RowStep
    <2> QED BY <2>1, <2>2
  <1>2. CASE Desks \/ UNCHANGED vars  BY <1>0, <1>2, IdleRowsSame DEF SameRow
  <1> QED BY <1>1, <1>2, NextIsRowOrDesk

\* What a campaign paid, owes or may find paid never exceeds what it raised, for any number of
\* requests and crashes, where no watchdog is armed and the catch block only runs when the POST
\* really failed.  With a watchdog it is false (run campaign_overdrawn): a timed-out withdrawal
\* stops to count, though it may be paid; and so does a failed one after a lost answer.
THEOREM CampaignsBacked ==
  ASSUME ~Qstash, AfterPostFaults \cap Faults = {}
  PROVE  Spec => []CampaignNotOverdrawn
  <1>1. Init => NoTimeout  BY DEF Init, NoTimeout, None
  <1>2. TypeOK /\ FlowInv /\ WireInv /\ [Next]_vars => WireInv'  BY WireInvStep
  <1>3. TypeOK /\ NoTimeout /\ DrawnInv /\ WireInv => CampaignNotOverdrawn
    <2> SUFFICES ASSUME TypeOK, NoTimeout, DrawnInv, WireInv, NEW c \in Campaigns
                 PROVE  Total({r \in Withdrawals(c) : MayLeave(r)}) <= raised[c]
      BY DEF CampaignNotOverdrawn
    <2>1. ASSUME NEW r \in Rows  PROVE MayLeave(r) <=> status[r] \in Drawing
      <3>1. status[r] \in Statuses \cup {None} /\ status[r] # "timed_out"
        BY DEF TypeOK, NoTimeout
      <3>2. status[r] \in {None, "failed", "rejected"} => daraja[r] \notin {"accepted", "paid"}
        BY DEF WireInv, WireAt, Unclaimed, None
      <3> QED BY <3>1, <3>2 DEF MayLeave, Statuses, Drawing, None
    <2>2. {r \in Withdrawals(c) : MayLeave(r)} = {r \in Withdrawals(c) : status[r] \in Drawing}
      BY <2>1 DEF Withdrawals
    <2> QED BY <2>2 DEF DrawnInv, Drawn
  <1> QED BY <1>1, <1>2, <1>3, NoTimeoutStep, DrawnInit, DrawnStep, WireInit, FlowInit, FlowStep,
             TypeCorrect, PTL DEF Spec
=============================================================================
