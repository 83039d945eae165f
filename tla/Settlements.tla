----------------------------- MODULE Settlements -----------------------------
(***************************************************************************)
(* Payouts to a bank, a vendor or a campaign's beneficiary: three tables   *)
(* and three services with one shape,                                      *)
(*                                                                         *)
(*   settlements.service.ts            sweep to a bank account of the group*)
(*   vendor-payments.service.ts        phone, paybill or till of a vendor  *)
(*   campaign-withdrawals.service.ts   Changi$ha money of one campaign     *)
(*   settlement-callbacks.service.ts   Daraja's result for all three       *)
(*                                                                         *)
(* and what they rest on: group-bank-accounts, settlement-approvals,       *)
(* campaign-officers, campaigns, the donation ledger and the watchdog.     *)
(*                                                                         *)
(* All three draw on account 1001 of one group, under its row lock, and    *)
(* every database transaction here is one step: unlike the disbursement    *)
(* spine, no check is made under a lock other than the one that is needed. *)
(* dispatchX is a sequence of transactions and a network call; pc[r] is    *)
(* where the serverless invocation that runs it stands.  A row is named by *)
(* its idempotency key: a repeated key returns the stored row.             *)
(***************************************************************************)
EXTENDS Integers, FiniteSets, Functions

CONSTANTS
  Rows,          \* idempotency keys: one request each
  Officers,      \* members of the group who may request and decide
  Banks,         \* group_bank_accounts
  Campaigns,
  Destinations,  \* where a campaign may be paid out to
  Receipts,      \* M-Pesa receipts of donations
  Input,         \* [Rows -> request records]
  BankBy,        \* [Banks -> Officers] group_bank_accounts.created_by
  Gift,          \* [Receipts -> [campaign, amount]]
  FirstOffice,   \* [Officers -> office held at the start]
  Opening,       \* balance of 1001 before the first request
  Fee,           \* Safaricom's B2B/B2C tariff for settlements and vendors
  MaxDeliveries, \* bound: times Daraja delivers one result
  MaxMoves,      \* bound: changes of office
  Charts,        \* what a posting may find of the chart of accounts
  Faults,        \* what may go wrong in a run
  Qstash         \* is QStash configured (watchdog armed)?

None == "none"
Offices == {"chairperson", "treasurer", "secretary"}
AllCharts == {"complete", "no_fee_account", "missing"}
AllFaults == {"crash", "lost_response", "record_error", "trigger_error"}

\* amount is what is reserved: for a campaign the gross, fee and M-Pesa cost included.
Requests ==
  [kind : {"settlement", "vendor", "campaign"}, amount : Nat \ {0}, by : Officers,
   bank : Banks \cup {None}, campaign : Campaigns \cup {None}]

ASSUME InputAssumption ==
  /\ Input \in [Rows -> Requests]
  /\ \A r \in Rows :
       /\ Input[r].kind = "settlement" <=> Input[r].bank # None
       /\ Input[r].kind = "campaign" <=> Input[r].campaign # None
  /\ BankBy \in [Banks -> Officers]
  /\ Gift \in [Receipts -> [campaign : Campaigns, amount : Nat \ {0}]]
  /\ FirstOffice \in [Officers -> Offices \cup {None}]

\* The rows of a table can be summed.
ASSUME FiniteAssumption == IsFiniteSet(Rows) /\ IsFiniteSet(Receipts)

ASSUME ModeAssumption ==
  /\ Opening \in Nat /\ Fee \in Nat /\ MaxDeliveries \in Nat /\ MaxMoves \in Nat
  /\ Charts \subseteq AllCharts
  /\ Faults \subseteq AllFaults
  /\ Qstash \in BOOLEAN
  /\ None \notin Officers \cup Banks \cup Campaigns \cup Destinations

VARIABLES
  status,      \* status of the row, None before the insert
  signed,      \* settlement_approvals: officers' approvals, <<officer, office>>
  released,    \* settlement_approvals: the back office approved
  byRole,      \* campaign_withdrawals.requested_by_role
  payTo,       \* campaign_withdrawals.payout_*: the destination, snapshotted
  hold,        \* share of accounts.reserved_amount that is r's
  booked,      \* credited to 1001 by the journal of r
  revenue,     \* platform_revenue rows of r
  conversation,\* originator_conversation_id is stored
  pc,          \* the invocation that works on r
  armed,       \* a watchdog workflow run waits for r
  daraja,      \* Safaricom's view of the payment of r
  deliveries,  \* results of r delivered so far
  bank,        \* group_bank_accounts.status, None before the insert
  checker,     \* settlement_approvals: who activated the bank account
  campaign,    \* campaigns.status, None before the insert
  destination, \* campaigns.payout_*
  raised,      \* campaigns.amount_raised
  donated,     \* campaign_donations.mpesa_receipt_number
  paidIn,      \* debited to 1001 by donation journals
  office,      \* group_members.role, when active and one of Offices
  moves        \* changes of office so far

signVars == <<signed, released, byRole, payTo>>
cashVars == <<hold, booked, revenue>>
wireVars == <<conversation, armed, daraja, deliveries>>
bankVars == <<bank, checker>>
campVars == <<campaign, destination, raised, donated, paidIn>>
roleVars == <<office, moves>>
vars == <<status, signVars, cashVars, wireVars, pc, bankVars, campVars, roleVars>>

-----------------------------------------------------------------------------
Statuses == {"pending_approval", "awaiting_platform", "approved", "processing",
             "completed", "failed", "rejected", "timed_out"}
Holding  == {"pending_approval", "awaiting_platform", "approved", "processing", "timed_out"}
Settled  == {"completed", "failed", "rejected"}
PCs == {"idle", "claiming", "posting", "recording", "arming", "failing"}

TypeOK ==
  /\ status \in [Rows -> Statuses \cup {None}]
  /\ signed \in [Rows -> SUBSET (Officers \X (Offices \cup {None}))]
  /\ released \in [Rows -> BOOLEAN]
  /\ byRole \in [Rows -> Offices \cup {None}]
  /\ payTo \in [Rows -> Destinations \cup {None}]
  /\ hold \in [Rows -> Int]
  /\ booked \in [Rows -> Nat]
  /\ revenue \in [Rows -> Nat]
  /\ conversation \in [Rows -> BOOLEAN]
  /\ pc \in [Rows -> PCs]
  /\ armed \in [Rows -> BOOLEAN]
  /\ daraja \in [Rows -> {None, "accepted", "paid", "refused"}]
  /\ deliveries \in [Rows -> Nat]
  /\ bank \in [Banks -> {None, "pending_approval", "active", "rejected", "disabled"}]
  /\ checker \in [Banks -> Officers \cup {None}]
  /\ campaign \in [Campaigns -> {None, "draft", "pending_review", "active", "rejected"}]
  /\ destination \in [Campaigns -> Destinations \cup {None}]
  /\ raised \in [Campaigns -> Nat]
  /\ donated \in SUBSET Receipts
  /\ paidIn \in Nat
  /\ office \in [Officers -> Offices \cup {None}]
  /\ moves \in Nat

Amount(r)       == Input[r].amount
IsSettlement(r) == Input[r].kind = "settlement"
IsCampaign(r)   == Input[r].kind = "campaign"

\* What a set of requests asks for, and what a set of receipts gives.
Total(S) == SumFunctionOnSet([r \in Rows |-> Amount(r)], S)
Donations(S) == SumFunctionOnSet([g \in Receipts |-> Gift[g].amount], S)

Reserved == SumFunctionOnSet(hold, Rows)
Balance  == Opening + paidIn - SumFunctionOnSet(booked, Rows)

\* Mutant of Available: what is already reserved is forgotten.
AvailableIgnoringHolds == Balance

\* lock_group_cash_account: balance - reserved_amount, under the row lock of 1001.
Available == Balance - Reserved

\* assertCampaignOfficersComplete: every office has a holder.
OfficersComplete == \A f \in Offices : \E o \in Officers : office[o] = f

\* OPEN_STATUSES plus 'completed': what a campaign's withdrawals count as drawn.
Drawing == {"pending_approval", "awaiting_platform", "approved", "processing", "completed"}
Withdrawals(c) == {r \in Rows : Input[r].campaign = c}
Drawn(c) == Total({r \in Withdrawals(c) : status[r] \in Drawing})

Init ==
  /\ status = [r \in Rows |-> None]
  /\ signed = [r \in Rows |-> {}]
  /\ released = [r \in Rows |-> FALSE]
  /\ byRole = [r \in Rows |-> None]
  /\ payTo = [r \in Rows |-> None]
  /\ hold = [r \in Rows |-> 0]
  /\ booked = [r \in Rows |-> 0]
  /\ revenue = [r \in Rows |-> 0]
  /\ conversation = [r \in Rows |-> FALSE]
  /\ pc = [r \in Rows |-> "idle"]
  /\ armed = [r \in Rows |-> FALSE]
  /\ daraja = [r \in Rows |-> None]
  /\ deliveries = [r \in Rows |-> 0]
  /\ bank = [b \in Banks |-> None]
  /\ checker = [b \in Banks |-> None]
  /\ campaign = [c \in Campaigns |-> None]
  /\ destination = [c \in Campaigns |-> None]
  /\ raised = [c \in Campaigns |-> 0]
  /\ donated = {}
  /\ paidIn = 0
  /\ office = FirstOffice
  /\ moves = 0

-----------------------------------------------------------------------------
(* The maker's request: one transaction *)

\* Checks the balance, reserves the amount and inserts the row.
Accept(r) ==
  /\ status[r] = None
  /\ Amount(r) <= Available
  /\ hold' = [hold EXCEPT ![r] = @ + Amount(r)]
  /\ status' = [status EXCEPT ![r] = "pending_approval"]

InitiateSettlement(r) ==
  /\ IsSettlement(r) /\ bank[Input[r].bank] = "active"
  /\ Accept(r)
  /\ UNCHANGED <<signVars, booked, revenue, wireVars, pc, bankVars, campVars, roleVars>>

InitiateVendorPayment(r) ==
  /\ Input[r].kind = "vendor"
  /\ Accept(r)
  /\ UNCHANGED <<signVars, booked, revenue, wireVars, pc, bankVars, campVars, roleVars>>

\* Mutant of WithinCampaign: only what was paid out counts, not what is in flight.
WithinCampaignPaidOnly(r) ==
  LET c == Input[r].campaign
      done == {q \in Withdrawals(c) : status[q] = "completed"}
  IN  Amount(r) <= raised[c] - Total(done)

\* The campaign still has the gross amount: raised so far minus drawn.
WithinCampaign(r) == LET c == Input[r].campaign IN Amount(r) <= raised[c] - Drawn(c)

\* The requester's office counts as that office's signature, and the destination is copied.
RequestWithdrawal(r) ==
  LET c == Input[r].campaign
      f == office[Input[r].by]
  IN
  /\ IsCampaign(r)
  /\ OfficersComplete /\ f # None
  /\ campaign[c] = "active" /\ destination[c] # None
  /\ WithinCampaign(r)
  /\ Accept(r)
  /\ byRole' = [byRole EXCEPT ![r] = f]
  /\ payTo' = [payTo EXCEPT ![r] = destination[c]]
  /\ UNCHANGED <<signed, released, booked, revenue, wireVars, pc, bankVars, campVars, roleVars>>

-----------------------------------------------------------------------------
(* Decisions *)

\* Mutant of MayDecide: the maker-checker test is dropped.
MayDecideAnyone(r, o) == \A s \in signed[r] : s[1] # o

\* recordApproval: never the maker, and one decision per person (UNIQUE subject, approver).
MayDecide(r, o) == o # Input[r].by /\ \A s \in signed[r] : s[1] # o

Sign(r, o, f) == signed' = [signed EXCEPT ![r] = @ \cup {<<o, f>>}]
ReleaseHold(r) == hold' = [hold EXCEPT ![r] = @ - Amount(r)]

\* A settlement or a vendor payment: one second officer, then straight to the dispatch.
Approve(r, o) ==
  /\ ~IsCampaign(r)
  /\ status[r] = "pending_approval" /\ MayDecide(r, o)
  /\ Sign(r, o, None)
  /\ status' = [status EXCEPT ![r] = "approved"]
  /\ pc' = [pc EXCEPT ![r] = "claiming"]
  /\ UNCHANGED <<released, byRole, payTo, cashVars, wireVars, bankVars, campVars, roleVars>>

\* getApprovedOfficerRoles, plus the requester's own office.
SignedOffices(r) == {byRole[r]} \cup {s[2] : s \in signed[r]}

\* One office's approval of a withdrawal; with the last one it waits for Kitabu Yetu.  The
\* trigger of migration 212 counts the same three offices again.
ApproveWithdrawal(r, o) ==
  /\ IsCampaign(r)
  /\ status[r] = "pending_approval" /\ OfficersComplete
  /\ office[o] # None /\ office[o] \notin SignedOffices(r)
  /\ MayDecide(r, o)
  /\ Sign(r, o, office[o])
  /\ status' = [status EXCEPT ![r] =
       IF Offices \subseteq SignedOffices(r) \cup {office[o]} THEN "awaiting_platform" ELSE @]
  /\ UNCHANGED <<released, byRole, payTo, cashVars, wireVars, pc, bankVars, campVars, roleVars>>

\* Closes the row without payment and gives the reservation back.
Decline(r) ==
  /\ ReleaseHold(r)
  /\ status' = [status EXCEPT ![r] = "rejected"]
  /\ UNCHANGED <<signVars, booked, revenue, wireVars, pc, bankVars, campVars, roleVars>>

Reject(r, o) ==
  /\ status[r] = "pending_approval" /\ MayDecide(r, o)
  /\ IsCampaign(r) => office[o] # None
  /\ Decline(r)

PlatformApprove(r) ==
  /\ status[r] = "awaiting_platform" /\ OfficersComplete
  /\ released' = [released EXCEPT ![r] = TRUE]
  /\ status' = [status EXCEPT ![r] = "approved"]
  /\ pc' = [pc EXCEPT ![r] = "claiming"]
  /\ UNCHANGED <<signed, byRole, payTo, cashVars, wireVars, bankVars, campVars, roleVars>>

\* Mutant of PlatformReject: also of a withdrawal that was released and is under way.
PlatformRejectLate(r) == status[r] \in {"awaiting_platform", "processing"} /\ Decline(r)

PlatformReject(r) == status[r] = "awaiting_platform" /\ Decline(r)

-----------------------------------------------------------------------------
(* dispatchSettlement, dispatchVendorPayment, dispatchCampaignWithdrawal *)

dispatchRest == <<signVars, booked, revenue, bankVars, campVars, roleVars>>
Goto(r, place) == pc' = [pc EXCEPT ![r] = place]

\* UPDATE ... SET status = 'processing' WHERE status = 'approved'.  Only the invocation
\* of the approval comes here: nothing dispatches an approved row a second time.
Claim(r) ==
  /\ pc[r] = "claiming" /\ status[r] = "approved"
  /\ status' = [status EXCEPT ![r] = "processing"]
  /\ Goto(r, "posting")
  /\ UNCHANGED <<dispatchRest, hold, wireVars>>

PostAccepted(r) ==
  /\ pc[r] = "posting"
  /\ daraja' = [daraja EXCEPT ![r] = "accepted"]
  /\ Goto(r, "recording")
  /\ UNCHANGED <<dispatchRest, status, hold, conversation, armed, deliveries>>

\* Rejected by Daraja, or never reached it.
PostRefused(r) ==
  /\ pc[r] = "posting"
  /\ Goto(r, "failing")
  /\ UNCHANGED <<dispatchRest, status, hold, wireVars>>

\* Accepted, but the answer never arrives: the catch block runs.
PostAnswerLost(r) ==
  /\ "lost_response" \in Faults
  /\ pc[r] = "posting"
  /\ daraja' = [daraja EXCEPT ![r] = "accepted"]
  /\ Goto(r, "failing")
  /\ UNCHANGED <<dispatchRest, status, hold, conversation, armed, deliveries>>

RecordConversation(r) ==
  /\ pc[r] = "recording"
  /\ conversation' = [conversation EXCEPT ![r] = TRUE]
  /\ Goto(r, "arming")
  /\ UNCHANGED <<dispatchRest, status, hold, armed, daraja, deliveries>>

RecordError(r) ==
  /\ "record_error" \in Faults
  /\ pc[r] = "recording"
  /\ Goto(r, "failing")
  /\ UNCHANGED <<dispatchRest, status, hold, wireVars>>

\* triggerDisbursementWatchdog: a no-op without QStash, and an error is only logged.
ArmWatchdog(r) ==
  /\ pc[r] = "arming"
  /\ \/ armed' = [armed EXCEPT ![r] = Qstash]
     \/ "trigger_error" \in Faults /\ UNCHANGED armed
  /\ Goto(r, "idle")
  /\ UNCHANGED <<dispatchRest, status, hold, conversation, daraja, deliveries>>

\* Mutant of DispatchFailed: the release is forgotten.
DispatchFailedKeepingHold(r) ==
  /\ pc[r] = "failing"
  /\ status' = [status EXCEPT ![r] = IF @ = "processing" THEN "failed" ELSE @]
  /\ Goto(r, "idle")
  /\ UNCHANGED <<dispatchRest, hold, wireVars>>

\* The catch block: releases whatever the status, fails the row if still processing.
DispatchFailed(r) ==
  /\ pc[r] = "failing"
  /\ ReleaseHold(r)
  /\ status' = [status EXCEPT ![r] = IF @ = "processing" THEN "failed" ELSE @]
  /\ Goto(r, "idle")
  /\ UNCHANGED <<dispatchRest, wireVars>>

\* The invocation dies between two of its steps; an open transaction rolls back.
Crash(r) ==
  /\ "crash" \in Faults
  /\ pc[r] # "idle"
  /\ Goto(r, "idle")
  /\ UNCHANGED <<status, signVars, cashVars, wireVars, bankVars, campVars, roleVars>>

-----------------------------------------------------------------------------
(* Safaricom (external) and settlement-callbacks.service.ts *)

DarajaSettles(r) ==
  /\ daraja[r] = "accepted"
  /\ \E outcome \in {"paid", "refused"} : daraja' = [daraja EXCEPT ![r] = outcome]
  /\ UNCHANGED <<status, signVars, cashVars, conversation, armed, deliveries, pc,
                 bankVars, campVars, roleVars>>

Deliver(r) ==
  /\ daraja[r] \in {"paid", "refused"} /\ deliveries[r] < MaxDeliveries
  /\ deliveries' = [deliveries EXCEPT ![r] = @ + 1]

\* Mutant of Claimed: a replay is handled again.
ClaimedAgain(r) == conversation[r] /\ status[r] \in {"processing", "completed"}

\* WHERE originator_conversation_id = $1 AND status = 'processing' FOR UPDATE
Claimed(r) == conversation[r] /\ status[r] = "processing"

\* Before the conversation id is stored, after the watchdog, or a replay: acknowledged and
\* forgotten.
ResultIgnored(r) ==
  /\ ~Claimed(r)
  /\ Deliver(r)
  /\ UNCHANGED <<status, signVars, cashVars, conversation, armed, daraja, pc,
                 bankVars, campVars, roleVars>>

ResultFailure(r) ==
  /\ daraja[r] = "refused" /\ Claimed(r)
  /\ Deliver(r)
  /\ status' = [status EXCEPT ![r] = "failed"]
  /\ ReleaseHold(r)
  /\ UNCHANGED <<dispatchRest, conversation, armed, daraja, pc>>

\* Mutant of Posted: debit and credit swapped.
PostedReversed(r, chart) == IF chart = "missing" THEN 0 ELSE -Amount(r)

\* What the journal credits to 1001.  A settlement or vendor entry drops its fee line when
\* the account of the fee is missing; a campaign entry is all or nothing.
Posted(r, chart) ==
  CASE chart = "complete" -> Amount(r) + IF IsCampaign(r) THEN 0 ELSE Fee
    [] chart = "no_fee_account" -> IF IsCampaign(r) THEN 0 ELSE Amount(r)
    [] chart = "missing" -> 0

\* Journal (or none), completed, platform_revenue for a campaign, release: one transaction.
ResultSuccess(r) ==
  /\ daraja[r] = "paid" /\ Claimed(r)
  /\ Deliver(r)
  /\ \E chart \in Charts : booked' = [booked EXCEPT ![r] = @ + Posted(r, chart)]
  /\ revenue' = [revenue EXCEPT ![r] = IF IsCampaign(r) THEN @ + 1 ELSE @]
  /\ status' = [status EXCEPT ![r] = "completed"]
  /\ ReleaseHold(r)
  /\ UNCHANGED <<signVars, conversation, armed, daraja, pc, bankVars, campVars, roleVars>>

\* Mutants of Overdue: a row that is settled is timed out; the table's status is wrong.
OverdueAnyway(r) == status[r] # None
OverdueDispatched(r) == status[r] = "dispatched"

Overdue(r) == status[r] = "processing"

\* resolveWatchdogTimeout: timed out if still processing; the reservation stays.
WatchdogTimeout(r) ==
  /\ armed[r]
  /\ armed' = [armed EXCEPT ![r] = FALSE]
  /\ status' = [status EXCEPT ![r] = IF Overdue(r) THEN "timed_out" ELSE @]
  /\ UNCHANGED <<dispatchRest, hold, conversation, daraja, deliveries, pc>>

-----------------------------------------------------------------------------
(* group-bank-accounts.service.ts *)

bankRest == <<status, signVars, cashVars, wireVars, pc, campVars, roleVars>>

CreateBank(b) ==
  /\ bank[b] = None
  /\ bank' = [bank EXCEPT ![b] = "pending_approval"]
  /\ UNCHANGED <<checker, bankRest>>

\* Mutant of ActivateBank: the creator may activate.
ActivateBankAlone(b, o) ==
  /\ bank[b] = "pending_approval"
  /\ bank' = [bank EXCEPT ![b] = "active"]
  /\ checker' = [checker EXCEPT ![b] = o]
  /\ UNCHANGED bankRest

ActivateBank(b, o) ==
  /\ bank[b] = "pending_approval" /\ o # BankBy[b]
  /\ bank' = [bank EXCEPT ![b] = "active"]
  /\ checker' = [checker EXCEPT ![b] = o]
  /\ UNCHANGED bankRest

RejectBank(b, o) ==
  /\ bank[b] = "pending_approval" /\ o # BankBy[b]
  /\ bank' = [bank EXCEPT ![b] = "rejected"]
  /\ UNCHANGED <<checker, bankRest>>

\* Any officer alone; a request that was accepted before is not looked at again.
DisableBank(b) ==
  /\ bank[b] = "active"
  /\ bank' = [bank EXCEPT ![b] = "disabled"]
  /\ UNCHANGED <<checker, bankRest>>

-----------------------------------------------------------------------------
(* campaigns.service.ts.  The Changi$ha plan that the first three also ask  *)
(* for is a subscription, kept elsewhere; here it is never missing.         *)

campRest == <<status, signVars, cashVars, wireVars, pc, bankVars, roleVars>>
moneyIn == <<raised, donated, paidIn>>

CreateCampaign(c) ==
  /\ campaign[c] = None /\ OfficersComplete
  /\ campaign' = [campaign EXCEPT ![c] = "draft"]
  /\ UNCHANGED <<destination, moneyIn, campRest>>

\* Mutant of SetPayoutDestination: not locked once the campaign left the draft.
SetPayoutDestinationAnytime(c, d) ==
  /\ campaign[c] # None
  /\ destination' = [destination EXCEPT ![c] = d]
  /\ UNCHANGED <<campaign, moneyIn, campRest>>

SetPayoutDestination(c, d) ==
  /\ campaign[c] = "draft"
  /\ destination' = [destination EXCEPT ![c] = d]
  /\ UNCHANGED <<campaign, moneyIn, campRest>>

SubmitForReview(c) ==
  /\ campaign[c] = "draft" /\ destination[c] # None /\ OfficersComplete
  /\ campaign' = [campaign EXCEPT ![c] = "pending_review"]
  /\ UNCHANGED <<destination, moneyIn, campRest>>

ApproveCampaign(c) ==
  /\ campaign[c] = "pending_review" /\ OfficersComplete
  /\ campaign' = [campaign EXCEPT ![c] = "active"]
  /\ UNCHANGED <<destination, moneyIn, campRest>>

RejectCampaign(c) ==
  /\ campaign[c] = "pending_review"
  /\ campaign' = [campaign EXCEPT ![c] = "rejected"]
  /\ UNCHANGED <<destination, moneyIn, campRest>>

\* Mutant of Fresh: the receipt of a donation is not looked at.
FreshAlways(g) == TRUE

\* ON CONFLICT (mpesa_receipt_number) DO NOTHING
Fresh(g) == g \notin donated

\* creditCampaignDonation, from the STK callback and from the PayBill confirmation: a
\* receipt that was booked changes nothing.  The journal is skipped without its accounts.
CreditDonation(g) ==
  LET c == Gift[g].campaign IN
  /\ campaign[c] = "active"
  /\ Fresh(g)
  /\ donated' = donated \cup {g}
  /\ raised' = [raised EXCEPT ![c] = @ + Gift[g].amount]
  /\ \E chart \in Charts : paidIn' = paidIn + IF chart = "missing" THEN 0 ELSE Gift[g].amount
  /\ UNCHANGED <<campaign, destination, campRest>>

-----------------------------------------------------------------------------
\* members.service.ts, updateRole and transitionStatus: an office changes hands, is given
\* up or is taken, whatever is waiting for it.
ChangeOffice(o, f) ==
  /\ moves < MaxMoves
  /\ f # office[o]
  /\ office' = [office EXCEPT ![o] = f]
  /\ moves' = moves + 1
  /\ UNCHANGED <<status, signVars, cashVars, wireVars, pc, bankVars, campVars>>

-----------------------------------------------------------------------------
Maker(r) == InitiateSettlement(r) \/ InitiateVendorPayment(r) \/ RequestWithdrawal(r)

Checker(r) ==
  \/ PlatformApprove(r) \/ PlatformReject(r)
  \/ \E o \in Officers : Approve(r, o) \/ ApproveWithdrawal(r, o) \/ Reject(r, o)

Dispatcher(r) ==
  Claim(r) \/ PostAccepted(r) \/ PostRefused(r) \/ PostAnswerLost(r) \/ RecordConversation(r)
    \/ RecordError(r) \/ ArmWatchdog(r) \/ DispatchFailed(r)

Result(r) == ResultIgnored(r) \/ ResultFailure(r) \/ ResultSuccess(r)

BankDesk ==
  \E b \in Banks :
    \/ CreateBank(b) \/ DisableBank(b)
    \/ \E o \in Officers : ActivateBank(b, o) \/ RejectBank(b, o)

CampaignDesk ==
  \/ \E c \in Campaigns :
       \/ CreateCampaign(c) \/ SubmitForReview(c) \/ ApproveCampaign(c) \/ RejectCampaign(c)
       \/ \E d \in Destinations : SetPayoutDestination(c, d)
  \/ \E g \in Receipts : CreditDonation(g)

Next ==
  \/ \E r \in Rows :
       Maker(r) \/ Checker(r) \/ Dispatcher(r) \/ Crash(r) \/ DarajaSettles(r) \/ Result(r)
         \/ WatchdogTimeout(r)
  \/ BankDesk
  \/ CampaignDesk
  \/ \E o \in Officers, f \in Offices \cup {None} : ChangeOffice(o, f)

Spec == Init /\ [][Next]_vars

\* The invocation of an approval runs its dispatch to the end, and QStash runs what it was
\* armed with.  Nothing is assumed of officers or of Safaricom.
Fairness == \A r \in Rows : WF_vars(Dispatcher(r)) /\ WF_vars(WatchdogTimeout(r))
FairSpec == Spec /\ Fairness

-----------------------------------------------------------------------------
(* Properties *)

\* The cash reservation is released exactly once: by the rejection, the catch block or the
\* result, whatever is lost, replayed or late (header of settlement-callbacks.service.ts).
HoldExact ==
  \A r \in Rows : hold[r] = IF status[r] \in Holding THEN Amount(r) ELSE 0

\* What the tariff of settlements and vendor payments took beyond the reserved amounts.
FeesBooked ==
  SumFunctionOnSet([r \in Rows |-> IF booked[r] > 0 THEN booked[r] - Amount(r) ELSE 0], Rows)

\* Open requests are backed by cash: only Safaricom's tariff, which the three services do
\* not reserve, can eat into money promised to another request.
OnlyFeesOverdraw == Reserved <= Balance + FeesBooked

\* Safaricom is asked to pay a settlement or a vendor only after a second officer agreed,
\* and a settlement only to a bank account that someone but its creator activated.
SecondOfficerAgreed ==
  \A r \in Rows : daraja[r] # None /\ ~IsCampaign(r) =>
    /\ \E s \in signed[r] : s[1] # Input[r].by
    /\ IsSettlement(r) => checker[Input[r].bank] \notin {None, BankBy[Input[r].bank]}

\* Changi$ha money leaves only after three different people, each for another of the three
\* offices, and Kitabu Yetu signed, though offices change hands while a withdrawal waits
\* (header of migration 212, comment of approve in campaign-withdrawals.service.ts).
ThreeOfficesSigned ==
  \A r \in Rows : daraja[r] # None /\ IsCampaign(r) =>
    /\ released[r]
    /\ Offices \subseteq SignedOffices(r)
    /\ Cardinality({Input[r].by} \cup {s[1] : s \in signed[r]}) = 3

\* A payout is journalled, and the platform's fee earned, on completed rows only, once, and
\* only when Safaricom paid; replays and late results add nothing.
PostedOnce ==
  \A r \in Rows :
    /\ booked[r] \in {0, Amount(r)} \cup (IF IsCampaign(r) THEN {} ELSE {Amount(r) + Fee})
    /\ booked[r] > 0 => status[r] = "completed"
    /\ revenue[r] = IF IsCampaign(r) /\ status[r] = "completed" THEN 1 ELSE 0
    /\ status[r] = "completed" => daraja[r] = "paid"

\* The money of a row is promised, has left or may still leave: an open or timed-out row, one
\* that was paid, and a failed one whose payment Safaricom accepted before the catch block.
MayLeave(r) == status[r] \notin {None, "failed", "rejected"} \/ daraja[r] \in {"accepted", "paid"}

\* "a campaign could draw against money it never raised, defeating the whole point" of the
\* per-campaign check (header of campaign-withdrawals.service.ts): what was or may yet be
\* paid out of a campaign never exceeds what it raised, whatever became of the rows.
CampaignNotOverdrawn ==
  \A c \in Campaigns : Total({r \in Withdrawals(c) : MayLeave(r)}) <= raised[c]

\* The total of a campaign is the sum of its donations: a receipt that reaches both the STK
\* callback and the PayBill confirmation counts once (creditCampaignDonation).
RaisedIsDonated ==
  \A c \in Campaigns :
    raised[c] = Donations({g \in donated : Gift[g].campaign = c})

\* A withdrawal goes where the campaign pointed when Kitabu Yetu reviewed it.
PaidWhereReviewed ==
  \A r \in Rows : IsCampaign(r) /\ status[r] # None =>
    payTo[r] # None /\ payTo[r] = destination[Input[r].campaign]

\* A settled row is never reopened, by a late result, the watchdog, an officer or a failing
\* dispatch.
SettledIsFinal ==
  [][\A r \in Rows : status[r] \in Settled => status'[r] = status[r]]_vars

\* Where the money of a request stands, for the promise of PayoutPromise.
MoneyOf(r) ==
  CASE status[r] = None -> "absent"
    [] status[r] # None /\ daraja[r] = "paid" -> "paid"
    [] status[r] \in {"rejected", "failed"} /\ daraja[r] # "paid" -> "void"
    [] OTHER -> "held"

Promise == INSTANCE PayoutPromise WITH Keys <- Rows, money <- [r \in Rows |-> MoneyOf(r)]

\* The three services keep the promise of the disbursement spine: money leaves from a live
\* reservation, once, and one that was given back never turns into a payment.
KeepsPromise == Promise!PSpec

\* No payout stays in flight: an approved row is settled or surfaces as timed out, even if
\* Safaricom never answers.
InFlightEnds ==
  \A r \in Rows :
    (status[r] \in {"approved", "processing"}) ~> (status[r] \in Settled \cup {"timed_out"})
=============================================================================
