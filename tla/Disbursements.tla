---------------------------- MODULE Disbursements ----------------------------
(***************************************************************************)
(* The disbursement spine: every M-Pesa, cash or bank payout a group makes *)
(* to a phone or to one of its members goes through one row of             *)
(* disbursement_requests.                                                  *)
(*                                                                         *)
(*   lib/services/disbursements.service.ts   initiate, approve, reject,    *)
(*                                           dispatch                      *)
(*   lib/services/member-payouts.service.ts  treasurer and platform stages *)
(*   lib/services/mpesa-b2c.service.ts       Daraja call, result callback  *)
(*   lib/services/disbursement-watchdog.service.ts   timeout               *)
(*   lib/services/loans.service.ts           reject, disburse (by hand)    *)
(*                                                                         *)
(* A request is named by its idempotency key.  What the client sends for a *)
(* key is Input[k]; a repeated key returns the stored row and changes      *)
(* nothing (disbursements.service.ts:108), so it is not an action.         *)
(*                                                                         *)
(* A database transaction is one step, except where the code reads under   *)
(* one lock and is raced under another: initiateDisbursement is a Begin    *)
(* (checks, holding the row lock of ONE cash account) and a Commit, and    *)
(* loans.disburse an unlocked read and a write.  dispatchDisbursement is a *)
(* sequence of separate transactions and one network call; pc[k] is the    *)
(* place of the serverless invocation that runs it.                        *)
(*                                                                         *)
(* accounts.reserved_amount is kept per request: hold[k] is the sum of the *)
(* deltas the code applied on behalf of k, and Reserved(a) their total;    *)
(* likewise booked[k] is what the journals of k credited to the account.   *)
(***************************************************************************)
EXTENDS Integers, FiniteSets, Functions

CONSTANTS
  Keys,          \* idempotency keys
  Officers,      \* members who hold an office of the group
  Loans,
  Members,
  Input,         \* [Keys -> request records]
  Opening,       \* [Accounts -> Nat] balance before the first request
  Savings,       \* [Members -> Nat] completed contributions
  Principal,     \* [Loans -> Nat]
  Fee,           \* Safaricom's tariff for one B2C payment
  Threshold,     \* group_disbursement_threshold
  MaxDeliveries, \* bound: times Daraja delivers the result of one payment
  Charts,        \* what a posting may find of the chart of accounts
  Faults,        \* what may go wrong in a run
  Qstash         \* is QStash configured (watchdog armed)?

None == "none"
Accounts == {"1001", "1002"}
Methods  == {"mpesa", "cash", "bank_transfer"}
AllCharts == {"complete", "no_fee_account", "missing"}
AllFaults == {"crash", "lost_response", "record_error", "audit_error", "trigger_error"}

\* A request is for a loan, for a member (savings withdrawal or not), or plain.
Requests ==
  [kind : {"loan", "member", "plain"}, amount : Nat \ {0}, method : Methods,
   loan : Loans \cup {None}, member : Members \cup {None},
   savings : BOOLEAN, by : Officers]

ASSUME InputAssumption ==
  /\ Input \in [Keys -> Requests]
  /\ \A k \in Keys :
       /\ Input[k].kind = "loan" <=> Input[k].loan # None
       /\ Input[k].kind = "member" <=> Input[k].member # None
       /\ Input[k].kind # "member" => Input[k].method = "mpesa" /\ ~Input[k].savings

ASSUME MoneyAssumption ==
  /\ Opening \in [Accounts -> Nat]
  /\ Savings \in [Members -> Nat]
  /\ Principal \in [Loans -> Nat]
  /\ Fee \in Nat /\ Threshold \in Nat /\ MaxDeliveries \in Nat

\* The rows of a table can be summed.
ASSUME FiniteAssumption == IsFiniteSet(Keys) /\ IsFiniteSet(Loans)

ASSUME ModeAssumption ==
  /\ Charts \subseteq AllCharts
  /\ Faults \subseteq AllFaults
  /\ Qstash \in BOOLEAN
  /\ None \notin Loans \cup Members \cup Officers

VARIABLES
  status,      \* disbursement_requests.status, None before the insert
  approvedBy,  \* disbursement_requests.approved_by
  signedOff,   \* settlement_approvals: the back office approved this payout
  journaled,   \* disbursement_requests.journal_entry_id is set (member payouts)
  hold,        \* share of accounts.reserved_amount that is k's
  booked,      \* credited to the source account by journals of k
  feeRecorded, \* mpesa_charges has the row of k's transaction
  b2c,         \* mpesa_b2c_transactions.status of k, None before the insert
  pc,          \* the invocation that works on k
  armed,       \* a watchdog workflow run waits for k
  daraja,      \* Safaricom's view of the payment of k
  deliveries,  \* results of k delivered so far
  loan,        \* loans.status
  attributed,  \* loan_funding_splits of the loan sum to its principal
  loanBooked,  \* credited to 1001 by loans.disburse, per loan
  teller       \* [Officers -> loan read by a loans.disburse in progress]

rowVars  == <<status, approvedBy, signedOff, journaled>>
cashVars == <<hold, booked, feeRecorded>>
wireVars == <<b2c, armed, daraja, deliveries>>
loanVars == <<loan, attributed, loanBooked, teller>>
vars == <<rowVars, cashVars, wireVars, loanVars, pc>>

-----------------------------------------------------------------------------
(* Statuses *)

Statuses == {"pending_approval", "awaiting_platform", "approved", "rejected", "cancelled",
             "dispatched", "completed", "failed", "timed_out"}

\* States in which the amount is still earmarked on the cash account.
Holding == {"pending_approval", "awaiting_platform", "approved", "dispatched", "timed_out"}
Settled == {"rejected", "cancelled", "completed", "failed"}

PCs == {"idle", "initiating", "claiming", "posting", "recording", "auditing", "failing"}

DarajaStates == {None, "accepted", "paid", "refused"}
LoanStatuses == {"approved", "disbursed", "rejected"}

TypeOK ==
  /\ status \in [Keys -> Statuses \cup {None}]
  /\ approvedBy \in [Keys -> Officers \cup {None}]
  /\ signedOff \in [Keys -> BOOLEAN]
  /\ journaled \in [Keys -> BOOLEAN]
  /\ hold \in [Keys -> Int]
  /\ booked \in [Keys -> Nat]
  /\ feeRecorded \in [Keys -> BOOLEAN]
  /\ b2c \in [Keys -> {None, "initiated", "completed", "failed"}]
  /\ pc \in [Keys -> PCs]
  /\ armed \in [Keys -> BOOLEAN]
  /\ daraja \in [Keys -> DarajaStates]
  /\ deliveries \in [Keys -> Nat]
  /\ loan \in [Loans -> LoanStatuses]
  /\ attributed \in [Loans -> BOOLEAN]
  /\ loanBooked \in [Loans -> Nat]
  /\ teller \in [Officers -> Loans \cup {None}]

-----------------------------------------------------------------------------
(* Requests and the cash account *)

Amount(k)   == Input[k].amount
IsLoan(k)   == Input[k].kind = "loan"
IsMember(k) == Input[k].kind = "member"
IsPlain(k)  == Input[k].kind = "plain"

\* A bank transfer draws on 1002 Bank Account, everything else on 1001.
Account(k) == IF Input[k].method = "bank_transfer" THEN "1002" ELSE "1001"
OnAccount(a) == {k \in Keys : Account(k) = a}

Reserved(a) == SumFunctionOnSet(hold, OnAccount(a))
\* What loans.disburse credited, without an earmark.
ByHand(a) == IF a = "1001" THEN SumFunctionOnSet(loanBooked, Loans) ELSE 0
Booked(a) == SumFunctionOnSet(booked, OnAccount(a)) + ByHand(a)
Balance(a) == Opening[a] - Booked(a)

\* Mutant of Available: what is already earmarked is forgotten.
AvailableIgnoringHolds(a) == Balance(a)

Available(a) == Balance(a) - Reserved(a)

\* Row locks held by an initiateDisbursement between its checks and its commit.
CashLocked(a) == \E k \in Keys : pc[k] = "initiating" /\ Account(k) = a
LoanLocked(l) == \E k \in Keys : pc[k] = "initiating" /\ Input[k].loan = l

\* Mutant of Committed: a withdrawal counts only once the platform released it.
CommittedOnRelease == {"approved", "dispatched", "completed", "timed_out"}

\* WITHDRAWAL_COMMITTED_STATUSES: a savings withdrawal in one of these counts.
Committed == {"pending_approval", "awaiting_platform", "approved", "dispatched",
              "completed", "timed_out"}
WithdrawalsOf(m) ==
  {k \in Keys : Input[k].member = m /\ Input[k].savings /\ status[k] \in Committed}
Withdrawn(m) == SumFunctionOnSet([k \in Keys |-> Amount(k)], WithdrawalsOf(m))
Withdrawable(m) == Savings[m] - Withdrawn(m)

\* A member payout always waits for the treasurer, the rest above the threshold.
RequiresApproval(k) == IsMember(k) \/ Amount(k) > Threshold

-----------------------------------------------------------------------------
(* initiateDisbursement *)

Init ==
  /\ status = [k \in Keys |-> None]
  /\ approvedBy = [k \in Keys |-> None]
  /\ signedOff = [k \in Keys |-> FALSE]
  /\ journaled = [k \in Keys |-> FALSE]
  /\ hold = [k \in Keys |-> 0]
  /\ booked = [k \in Keys |-> 0]
  /\ feeRecorded = [k \in Keys |-> FALSE]
  /\ b2c = [k \in Keys |-> None]
  /\ pc = [k \in Keys |-> "idle"]
  /\ armed = [k \in Keys |-> FALSE]
  /\ daraja = [k \in Keys |-> None]
  /\ deliveries = [k \in Keys |-> 0]
  /\ loan = [l \in Loans |-> "approved"]
  /\ attributed = [l \in Loans |-> FALSE]
  /\ loanBooked = [l \in Loans |-> 0]
  /\ teller = [o \in Officers |-> None]

\* The checks, made while the row locks of the loan and of one cash account are held.
Begin(k) ==
  /\ status[k] = None /\ pc[k] = "idle"
  /\ ~CashLocked(Account(k))
  /\ IsLoan(k) => ~LoanLocked(Input[k].loan) /\ loan[Input[k].loan] = "approved"
  /\ Amount(k) <= Available(Account(k))
  /\ Input[k].savings => Amount(k) <= Withdrawable(Input[k].member)
  /\ pc' = [pc EXCEPT ![k] = "initiating"]
  /\ UNCHANGED <<rowVars, cashVars, wireVars, loanVars>>

\* Reserve, insert, commit; an approved row is dispatched by the same invocation.
Commit(k) ==
  /\ pc[k] = "initiating"
  /\ hold' = [hold EXCEPT ![k] = @ + Amount(k)]
  /\ status' = [status EXCEPT ![k] = IF RequiresApproval(k) THEN "pending_approval" ELSE "approved"]
  /\ pc' = [pc EXCEPT ![k] = IF RequiresApproval(k) THEN "idle" ELSE "claiming"]
  /\ UNCHANGED <<approvedBy, signedOff, journaled, booked, feeRecorded, wireVars, loanVars>>

-----------------------------------------------------------------------------
(* Approval stages *)

\* Mutant of MayApprove: no maker-checker.
MayApproveOwn(k, o) == TRUE

\* Maker-checker: the approver is not the initiator.
MayApprove(k, o) == o # Input[k].by

\* approve: second officer, then dispatch by the same invocation.
Approve(k, o) ==
  /\ status[k] = "pending_approval" /\ ~IsMember(k)
  /\ MayApprove(k, o)
  /\ status' = [status EXCEPT ![k] = "approved"]
  /\ approvedBy' = [approvedBy EXCEPT ![k] = o]
  /\ pc' = [pc EXCEPT ![k] = "claiming"]
  /\ UNCHANGED <<signedOff, journaled, cashVars, wireVars, loanVars>>

\* treasurerApprove: hands a member payout to Kitabu Yetu.
TreasurerApprove(k, o) ==
  /\ status[k] = "pending_approval" /\ IsMember(k)
  /\ MayApprove(k, o)
  /\ status' = [status EXCEPT ![k] = "awaiting_platform"]
  /\ approvedBy' = [approvedBy EXCEPT ![k] = o]
  /\ UNCHANGED <<signedOff, journaled, cashVars, wireVars, loanVars, pc>>

\* adjust_account_reserved_amount(account, -amount): needs the account row, and
\* CHECK (reserved_amount >= 0) aborts the transaction that would break it.
ReleaseReservation(k) ==
  /\ ~CashLocked(Account(k))
  /\ Reserved(Account(k)) >= Amount(k)
  /\ hold' = [hold EXCEPT ![k] = @ - Amount(k)]

\* Mutant of Cancellable: cancelled as long as it is not completed.
CancellableInFlight == {"pending_approval", "awaiting_platform", "approved", "dispatched"}

\* Statuses a member payout may be cancelled from by its initiator.
Cancellable == {"pending_approval", "awaiting_platform"}

\* A refusal, from whichever stage: the earmark goes back, the row is final.
Decline(k) ==
  /\ ReleaseReservation(k)
  /\ status' = [status EXCEPT ![k] = "rejected"]
  /\ UNCHANGED <<approvedBy, signedOff, journaled, booked, feeRecorded, wireVars, loanVars, pc>>

Reject(k) == status[k] = "pending_approval" /\ ~IsMember(k) /\ Decline(k)
TreasurerReject(k, o) ==
  status[k] = "pending_approval" /\ IsMember(k) /\ MayApprove(k, o) /\ Decline(k)
PlatformReject(k) == status[k] = "awaiting_platform" /\ Decline(k)

Cancel(k) ==
  /\ status[k] \in Cancellable /\ IsMember(k)
  /\ ReleaseReservation(k)
  /\ status' = [status EXCEPT ![k] = "cancelled"]
  /\ UNCHANGED <<approvedBy, signedOff, journaled, booked, feeRecorded, wireVars, loanVars, pc>>

\* platformApprove of an M-Pesa payout: released for dispatch.
PlatformApproveMpesa(k) ==
  /\ status[k] = "awaiting_platform" /\ Input[k].method = "mpesa"
  /\ signedOff' = [signedOff EXCEPT ![k] = TRUE]
  /\ status' = [status EXCEPT ![k] = "approved"]
  /\ pc' = [pc EXCEPT ![k] = "claiming"]
  /\ UNCHANGED <<approvedBy, journaled, cashVars, wireVars, loanVars>>

\* platformApprove of a cash or bank payout: balance check, journal (no fee, and a
\* missing account aborts), release and completion in one transaction.
PlatformExecute(k) ==
  /\ status[k] = "awaiting_platform" /\ Input[k].method # "mpesa"
  /\ Available(Account(k)) >= 0
  /\ Charts \ {"missing"} # {}
  /\ ~journaled[k]
  /\ ReleaseReservation(k)
  /\ signedOff' = [signedOff EXCEPT ![k] = TRUE]
  /\ journaled' = [journaled EXCEPT ![k] = TRUE]
  /\ booked' = [booked EXCEPT ![k] = @ + Amount(k)]
  /\ status' = [status EXCEPT ![k] = "completed"]
  /\ UNCHANGED <<approvedBy, feeRecorded, wireVars, loanVars, pc>>

-----------------------------------------------------------------------------
(* dispatchDisbursement: five steps, each its own transaction or network call *)

dispatchRest == <<approvedBy, signedOff, journaled, booked, feeRecorded, loanVars>>
Goto(k, place) == pc' = [pc EXCEPT ![k] = place]

\* Conditional UPDATE approved -> dispatched; anything else ends the invocation.
Claim(k) ==
  /\ pc[k] = "claiming"
  /\ IF status[k] = "approved"
       THEN status' = [status EXCEPT ![k] = "dispatched"] /\ Goto(k, "posting")
       ELSE UNCHANGED status /\ Goto(k, "idle")
  /\ UNCHANGED <<dispatchRest, hold, wireVars>>

\* The Daraja POST: accepted; refused or unreachable; or accepted with the answer
\* lost, which axios reports like any other network error.
PostAccepted(k) ==
  /\ pc[k] = "posting"
  /\ daraja' = [daraja EXCEPT ![k] = "accepted"]
  /\ Goto(k, "recording")
  /\ UNCHANGED <<dispatchRest, status, hold, b2c, armed, deliveries>>

PostRefused(k) ==
  /\ pc[k] = "posting"
  /\ Goto(k, "failing")
  /\ UNCHANGED <<dispatchRest, status, hold, wireVars>>

PostAnswerLost(k) ==
  /\ "lost_response" \in Faults
  /\ pc[k] = "posting"
  /\ daraja' = [daraja EXCEPT ![k] = "accepted"]
  /\ Goto(k, "failing")
  /\ UNCHANGED <<dispatchRest, status, hold, b2c, armed, deliveries>>

\* mpesa_transactions, mpesa_b2c_transactions and the link, in one transaction.
RecordB2C(k) ==
  /\ pc[k] = "recording"
  /\ b2c' = [b2c EXCEPT ![k] = "initiated"]
  /\ Goto(k, "auditing")
  /\ UNCHANGED <<dispatchRest, status, hold, armed, daraja, deliveries>>

\* The audit row, then the watchdog workflow: a no-op when QStash is not configured,
\* and an error that is only logged when it cannot be reached.
AuditDispatch(k) ==
  /\ pc[k] = "auditing"
  /\ \/ armed' = [armed EXCEPT ![k] = Qstash]
     \/ "trigger_error" \in Faults /\ UNCHANGED armed
  /\ Goto(k, "idle")
  /\ UNCHANGED <<dispatchRest, status, hold, b2c, daraja, deliveries>>

\* A database error in one of the two steps after the POST.
StepError(k) ==
  /\ \/ pc[k] = "recording" /\ "record_error" \in Faults
     \/ pc[k] = "auditing" /\ "audit_error" \in Faults
  /\ Goto(k, "failing")
  /\ UNCHANGED <<dispatchRest, status, hold, wireVars>>

\* Mutant of DispatchFailed: the row is failed whatever its status.
DispatchFailedAnyway(k) ==
  /\ pc[k] = "failing"
  /\ IF Reserved(Account(k)) >= Amount(k)
       THEN ReleaseReservation(k) /\ status' = [status EXCEPT ![k] = "failed"]
       ELSE ~CashLocked(Account(k)) /\ UNCHANGED <<hold, status>>
  /\ Goto(k, "idle")
  /\ UNCHANGED <<dispatchRest, wireVars>>

\* The catch block: gives the earmark back unconditionally, and fails the row if it is
\* still dispatched.  CHECK (reserved_amount >= 0) may abort the transaction.
DispatchFailed(k) ==
  /\ pc[k] = "failing"
  /\ IF Reserved(Account(k)) >= Amount(k)
       THEN /\ ReleaseReservation(k)
            /\ status' = [status EXCEPT ![k] = IF @ = "dispatched" THEN "failed" ELSE @]
       ELSE ~CashLocked(Account(k)) /\ UNCHANGED <<hold, status>>
  /\ Goto(k, "idle")
  /\ UNCHANGED <<dispatchRest, wireVars>>

\* The invocation dies (timeout, redeploy, out of memory); an open transaction rolls back.
Crash(k) ==
  /\ "crash" \in Faults
  /\ pc[k] # "idle"
  /\ Goto(k, "idle")
  /\ UNCHANGED <<rowVars, cashVars, wireVars, loanVars>>

-----------------------------------------------------------------------------
(* Safaricom (external): executes what it accepted, and reports the outcome *)
(* any number of times, or never.                                           *)

DarajaSettles(k) ==
  /\ daraja[k] = "accepted"
  /\ \E outcome \in {"paid", "refused"} : daraja' = [daraja EXCEPT ![k] = outcome]
  /\ UNCHANGED <<rowVars, cashVars, b2c, armed, deliveries, loanVars, pc>>

Deliver(k) ==
  /\ deliveries[k] < MaxDeliveries
  /\ deliveries' = [deliveries EXCEPT ![k] = @ + 1]

-----------------------------------------------------------------------------
(* handleB2CResult *)

\* Mutants of Releasable: a replayed success settles again; a dispatched row is missed.
ReleasableAgain == {"approved", "dispatched", "completed"}
ReleasableBeforeDispatch == {"approved"}

\* Statuses from which releaseDisbursementReservation settles a row.
Releasable == {"approved", "dispatched"}

SettleRow(k, final) ==
  IF status[k] \in Releasable
    THEN ReleaseReservation(k) /\ status' = [status EXCEPT ![k] = final]
    ELSE UNCHANGED <<hold, status>>

\* No mpesa_b2c_transactions row carries the conversation id yet: nothing is settled,
\* and the delivery is not replayed (the dead-letter sweep covers STK and C2B only).
ResultUnmatched(k) ==
  /\ daraja[k] \in {"paid", "refused"} /\ b2c[k] = None
  /\ Deliver(k)
  /\ UNCHANGED <<rowVars, cashVars, b2c, armed, daraja, loanVars, pc>>

ResultFailure(k) ==
  /\ daraja[k] = "refused" /\ b2c[k] # None
  /\ Deliver(k)
  /\ b2c' = [b2c EXCEPT ![k] = "failed"]
  /\ SettleRow(k, "failed")
  /\ UNCHANGED <<dispatchRest, armed, daraja, pc>>

\* Mutant of Posted: debit and credit swapped.
PostedReversed(k, charge, chart) == IF chart = "missing" THEN 0 ELSE -Amount(k)

\* What a posting of the amount with a fee credits to the cash account: the fee is
\* folded in unless the chart lacks its account.
Posted(k, charge, chart) ==
  CASE chart = "complete" -> Amount(k) + charge
    [] chart = "no_fee_account" -> Amount(k)
    [] chart = "missing" -> 0

\* Mutant of PostMemberJournal: journal_entry_id is not looked at.
PostMemberJournalAgain(k, charge, chart) ==
  /\ feeRecorded' = [feeRecorded EXCEPT ![k] = @ \/ charge > 0]
  /\ journaled' = [journaled EXCEPT ![k] = chart # "missing"]
  /\ booked' = [booked EXCEPT ![k] = @ + Posted(k, charge, chart)]

\* postMemberPayoutJournal: once per row; the fee is recorded in mpesa_charges whether
\* or not it could be posted.
PostMemberJournal(k, charge, chart) ==
  IF journaled[k]
    THEN UNCHANGED <<journaled, booked, feeRecorded>>
    ELSE /\ feeRecorded' = [feeRecorded EXCEPT ![k] = @ \/ charge > 0]
         /\ journaled' = [journaled EXCEPT ![k] = chart # "missing"]
         /\ booked' = [booked EXCEPT ![k] = @ + Posted(k, charge, chart)]

ResultSuccessMember(k) ==
  /\ daraja[k] = "paid" /\ b2c[k] # None /\ IsMember(k)
  /\ ~CashLocked(Account(k))
  /\ Deliver(k)
  /\ b2c' = [b2c EXCEPT ![k] = "completed"]
  /\ \E chart \in Charts : PostMemberJournal(k, Fee, chart)
  /\ SettleRow(k, "completed")
  /\ UNCHANGED <<approvedBy, signedOff, armed, daraja, loanVars, pc>>

\* applyLoanDisbursement: only an approved loan is flipped and journalled, otherwise a
\* warning and nothing else.
Flips(k) == loan[Input[k].loan] = "approved"

ApplyLoanDisbursement(k, chart) ==
  IF Flips(k)
    THEN /\ loan' = [loan EXCEPT ![Input[k].loan] = "disbursed"]
         /\ booked' = [booked EXCEPT ![k] = @ + Posted(k, Fee, chart)]
         /\ feeRecorded' = [feeRecorded EXCEPT ![k] = @ \/ Fee > 0]
    ELSE UNCHANGED <<loan, booked, feeRecorded>>

\* The deferred trigger of migration 118: no transaction commits a loan as disbursed
\* unless its funding splits sum to the principal.  Only loans.disburse writes splits.
Attributed(l) == attributed[l]

ResultSuccessLoan(k) ==
  /\ daraja[k] = "paid" /\ b2c[k] # None /\ IsLoan(k)
  /\ ~CashLocked(Account(k)) /\ ~LoanLocked(Input[k].loan)
  /\ Flips(k) => Attributed(Input[k].loan)
  /\ Deliver(k)
  /\ b2c' = [b2c EXCEPT ![k] = "completed"]
  /\ \E chart \in Charts : ApplyLoanDisbursement(k, chart)
  /\ SettleRow(k, "completed")
  /\ UNCHANGED <<approvedBy, signedOff, journaled, armed, daraja, attributed, loanBooked, teller, pc>>

\* ... and when it would, the whole callback is rolled back; Safaricom was already acked.
ResultLoanAborted(k) ==
  /\ daraja[k] = "paid" /\ b2c[k] # None /\ IsLoan(k)
  /\ Flips(k) /\ ~Attributed(Input[k].loan)
  /\ Deliver(k)
  /\ UNCHANGED <<rowVars, cashVars, b2c, armed, daraja, loanVars, pc>>

\* A payout that is neither: its principal is journalled elsewhere, only the fee is
\* posted here, by postStandaloneChargeJournal.
ResultSuccessPlain(k) ==
  /\ daraja[k] = "paid" /\ b2c[k] # None /\ IsPlain(k)
  /\ ~CashLocked(Account(k))
  /\ Deliver(k)
  /\ b2c' = [b2c EXCEPT ![k] = "completed"]
  /\ feeRecorded' = [feeRecorded EXCEPT ![k] = @ \/ Fee > 0]
  /\ \E chart \in Charts :
       booked' = [booked EXCEPT ![k] = @ + IF chart = "complete" THEN Fee ELSE 0]
  /\ SettleRow(k, "completed")
  /\ UNCHANGED <<approvedBy, signedOff, journaled, armed, daraja, loanVars, pc>>

-----------------------------------------------------------------------------
(* Watchdog and repair *)

\* Mutant of Overdue: the wait looks for a row that was never dispatched.
OverdueUndispatched(k) == status[k] = "approved"

\* After the wait, the row is timed out if it is still dispatched; the earmark stays.
Overdue(k) == status[k] = "dispatched"

WatchdogTimeout(k) ==
  /\ armed[k]
  /\ armed' = [armed EXCEPT ![k] = FALSE]
  /\ status' = [status EXCEPT ![k] = IF Overdue(k) THEN "timed_out" ELSE @]
  /\ UNCHANGED <<dispatchRest, hold, b2c, daraja, deliveries, pc>>

\* repostMissingJournals: every completed member payout without a journal, with the fee
\* unless it was already recorded.
MissingJournals == {k \in Keys : IsMember(k) /\ status[k] = "completed" /\ ~journaled[k]}
RepostCharge(k) == IF feeRecorded[k] \/ b2c[k] = None THEN 0 ELSE Fee

RepostMissingJournals ==
  /\ MissingJournals # {}
  /\ \A k \in MissingJournals : ~CashLocked(Account(k))
  /\ \E chart \in Charts :
       /\ booked' = [k \in Keys |->
            booked[k] + IF k \in MissingJournals THEN Posted(k, RepostCharge(k), chart) ELSE 0]
       /\ journaled' = [k \in Keys |->
            journaled[k] \/ (k \in MissingJournals /\ chart # "missing")]
  /\ feeRecorded' = [k \in Keys |->
       feeRecorded[k] \/ (k \in MissingJournals /\ RepostCharge(k) > 0)]
  /\ UNCHANGED <<status, approvedBy, signedOff, hold, wireVars, loanVars, pc>>

-----------------------------------------------------------------------------
(* loans.service.ts: the officer's own way of settling an approved loan *)

\* reject: the trigger of migration 028 refuses anything but approved -> rejected here.
RejectLoan(l) ==
  /\ loan[l] = "approved" /\ ~LoanLocked(l)
  /\ loan' = [loan EXCEPT ![l] = "rejected"]
  /\ UNCHANGED <<rowVars, cashVars, wireVars, attributed, loanBooked, teller, pc>>

\* disburse, first half: a plain SELECT, no lock.
DisburseRead(o, l) ==
  /\ teller[o] = None
  /\ loan[l] = "approved"
  /\ teller' = [teller EXCEPT ![o] = l]
  /\ UNCHANGED <<rowVars, cashVars, wireVars, loan, attributed, loanBooked, pc>>

\* disburse, second half: UPDATE by id, funding splits, journal.  The transition trigger
\* lets an unchanged status through and refuses rejected -> disbursed.
DisburseWrite(o) ==
  LET l == teller[o] IN
  /\ l # None /\ ~LoanLocked(l) /\ ~CashLocked("1001")
  /\ loan[l] # "rejected"
  /\ loan' = [loan EXCEPT ![l] = "disbursed"]
  /\ attributed' = [attributed EXCEPT ![l] = TRUE]
  /\ \E chart \in Charts :
       loanBooked' = [loanBooked EXCEPT ![l] = @ + IF chart = "missing" THEN 0 ELSE Principal[l]]
  /\ teller' = [teller EXCEPT ![o] = None]
  /\ UNCHANGED <<rowVars, cashVars, wireVars, pc>>

DisburseRefused(o) ==
  /\ teller[o] # None
  /\ loan[teller[o]] = "rejected"
  /\ teller' = [teller EXCEPT ![o] = None]
  /\ UNCHANGED <<rowVars, cashVars, wireVars, loan, attributed, loanBooked, pc>>

-----------------------------------------------------------------------------
Dispatcher(k) ==
  Claim(k) \/ PostAccepted(k) \/ PostRefused(k) \/ PostAnswerLost(k) \/ RecordB2C(k)
    \/ AuditDispatch(k) \/ StepError(k) \/ DispatchFailed(k)

Officer(k) ==
  \/ Begin(k) \/ Reject(k) \/ Cancel(k)
  \/ PlatformApproveMpesa(k) \/ PlatformExecute(k) \/ PlatformReject(k)
  \/ \E o \in Officers : Approve(k, o) \/ TreasurerApprove(k, o) \/ TreasurerReject(k, o)

Result(k) ==
  ResultUnmatched(k) \/ ResultFailure(k) \/ ResultSuccessMember(k)
    \/ ResultSuccessLoan(k) \/ ResultLoanAborted(k) \/ ResultSuccessPlain(k)

LoanDesk ==
  \/ \E l \in Loans : RejectLoan(l) \/ \E o \in Officers : DisburseRead(o, l)
  \/ \E o \in Officers : DisburseWrite(o) \/ DisburseRefused(o)

Next ==
  \/ \E k \in Keys :
       Officer(k) \/ Commit(k) \/ Dispatcher(k) \/ Crash(k) \/ DarajaSettles(k) \/ Result(k)
         \/ WatchdogTimeout(k)
  \/ RepostMissingJournals
  \/ LoanDesk

Spec == Init /\ [][Next]_vars

\* The invocation that started a transaction or a dispatch runs on, and QStash runs
\* what it was armed with.  Nothing is assumed of officers or of Safaricom.
Fairness ==
  \A k \in Keys :
    WF_vars(Commit(k)) /\ WF_vars(Dispatcher(k)) /\ WF_vars(WatchdogTimeout(k))

FairSpec == Spec /\ Fairness

-----------------------------------------------------------------------------
(* Properties *)

\* The reservation of the cash account is exactly what its open requests earmark: no
\* request gives back more than it took, or keeps anything once settled (the C1/C4
\* promise of migration 066; releases in disbursements, member-payouts and mpesa-b2c).
HoldMatchesStatus ==
  \A k \in Keys : hold[k] = IF status[k] \in Holding THEN Amount(k) ELSE 0

\* What a request booked beyond the amount it had earmarked: Safaricom's fees.
Extra == [k \in Keys |-> IF IsMember(k) /\ booked[k] > 0 THEN booked[k] - Amount(k) ELSE booked[k]]
Fees(a) == SumFunctionOnSet(Extra, OnAccount(a))

\* Money promised to open requests is really there: two requests never count on the same cash
\* (lock, compare with balance - reserved, reserve: initiateDisbursement).  Only what nobody
\* earmarks, Safaricom's fees and the loans tellers disburse by hand, can eat into it.
OnlyFeesAndTellers == \A a \in Accounts : Reserved(a) <= Balance(a) + Fees(a) + ByHand(a)

\* A member is never promised more than was saved, whichever channel the withdrawals
\* use (resolveMemberPayoutRecipient under the cash lock of initiateDisbursement).
SavingsNotOverdrawn == \A m \in Members : Withdrawable(m) >= 0

\* Safaricom is only ever asked to pay a request that a second officer approved when one
\* was required, and for a member payout that the back office signed off as well.
PaidWasAuthorised ==
  \A k \in Keys :
    (daraja[k] # None \/ booked[k] > 0) =>
      /\ RequiresApproval(k) => approvedBy[k] \notin {None, Input[k].by}
      /\ IsMember(k) => signedOff[k]

\* A request that ended without payment was not paid: a treasurer who retries a failed
\* request with a fresh key pays once (catch block of dispatchDisbursement).
UnpaidMeansUnpaid ==
  \A k \in Keys :
    status[k] \in {"rejected", "cancelled", "failed"} => daraja[k] \in {None, "refused"}

\* The group ledger and the member's ledger settle together: the journal of a member
\* payout exists only on a completed row, which is what the member's balance reads
\* (comment of handleB2CResult on migration 218).
LedgersSettleTogether ==
  \A k \in Keys : IsMember(k) /\ status[k] # "completed" => booked[k] = 0

\* One payout, one journal: whatever the replays and the repost sweep, a journalled
\* member payout credited its amount once and the fee at most once, and an unjournalled
\* one credited nothing (postMemberPayoutJournal, repostMissingJournals).
JournalledOnce ==
  \A k \in Keys : IsMember(k) =>
    booked[k] \in IF journaled[k] THEN {Amount(k), Amount(k) + Fee} ELSE {0}

\* A settled request is never reopened or re-settled, by a late callback, a watchdog, an
\* officer or a failing dispatcher.
SettledIsFinal ==
  [][\A k \in Keys : status[k] \in Settled => status'[k] = status[k]]_vars

\* The success result of a dispatched payout completes it: the hold is released and the
\* row is marked completed (handleB2CResult, last block).
SuccessCompletes ==
  [][\A k \in Keys :
       deliveries'[k] # deliveries[k] /\ daraja[k] = "paid" /\ b2c[k] # None
         /\ status[k] = "dispatched" => status'[k] = "completed"]_vars

\* Where the money of a request stands, for the promise of PayoutPromise.
MoneyOf(k) ==
  CASE status[k] = None -> "absent"
    [] status[k] # None /\ (daraja[k] = "paid" \/ (status[k] = "completed" /\ Input[k].method # "mpesa"))
         -> "paid"
    [] status[k] \in {"rejected", "cancelled", "failed"} /\ daraja[k] # "paid" -> "void"
    [] OTHER -> "held"

Promise == INSTANCE PayoutPromise WITH money <- [k \in Keys |-> MoneyOf(k)]

\* The spine keeps the promise: money leaves from a live earmark, once, and an earmark
\* that was given back never turns into a payment.
KeepsPromise == Promise!PSpec

\* No payout is in flight for ever: an approved row is dispatched, and a dispatched one is
\* settled or surfaces as timed_out, even if Safaricom never answers.
InFlightEnds ==
  \A k \in Keys :
    (status[k] \in {"approved", "dispatched"}) ~> (status[k] \in Settled \cup {"timed_out"})
=============================================================================
