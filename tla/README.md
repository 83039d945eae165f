# KitabuYetu: verification of the money paths

KitabuYetu is a finance platform for savings groups (chamas): Next.js route handlers and
services in TypeScript over one Postgres (Supabase) database, with Safaricom's Daraja API for
M-Pesa, QStash for delayed calls and a Postgres table as job queue.  It runs as serverless
invocations: there is no process that stays alive, an invocation may be killed anywhere, and
everything that two of them share is a row of the database or a lock on it.

This directory holds TLA+ modules of the five places where that matters most, the TLC
configurations that check them, and TLAPS proofs of what must hold for every size.
Paths below are relative to `src/`; `S/` stands for `lib/services/`.

## 1. Inventory

### Components that are modelled

| component | state | operations | talks to |
|---|---|---|---|
| **Disbursement spine** (`S/disbursements`, `S/member-payouts`, `S/mpesa-b2c`, `S/disbursement-watchdog`, part of `S/loans`) | `disbursement_requests`, `accounts.reserved_amount`, journals, `mpesa_b2c_transactions`, `loans.status` | initiate, two approval chains, reject, cancel, dispatch, result callback, watchdog, journal repair | Daraja (POST, then callbacks), QStash (delayed call), ledger, loan desk |
| **Job queue** (`lib/jobs/db`, `lib/jobs/processor`, `app/api/cron`) | `job_queue` rows | enqueue with dedup key, sweep of stuck rows, snapshot and rotation, claim, run, complete, retry, prune | pg_cron, administrators, every background feature |
| **Payments in** (`S/mpesa-c2b`, `S/mpesa-stk`, `S/mpesa-allocation`, `S/mpesa-spine`, `S/mpesa-callbacks`, `S/mpesa-reconciliation`, `S/mpesa-unrouted`, two routes) | `mpesa_callbacks`, `payments`, product ledgers, `loan_repayments`, `mpesa_unrouted` | audit, confirm, result, replay, reconcile, sweep orphans, resolve by hand | Daraja (callbacks), job queue (schedule), officers |
| **Settlements, vendor payments, campaign withdrawals** (`S/settlements`, `S/vendor-payments`, `S/campaign-withdrawals`, `S/settlement-callbacks`, `S/settlement-approvals`, `S/group-bank-accounts`, `S/campaign-officers`, parts of `S/campaigns`, `S/campaign-donation-ledger`, `S/members`) | three request tables, `settlement_approvals`, `accounts.reserved_amount`, journals, `platform_revenue`, `group_bank_accounts`, `campaigns`, `campaign_donations`, offices | request, approvals by one officer or by three offices, release by the back office, reject, dispatch, result, watchdog; bank accounts with maker and checker; a campaign from draft to review, donations | Daraja (B2B and B2C POST, then callbacks), QStash, ledger, officers who change office |
| **SMS credits** (`S/sms`, `S/messaging-billing`, part of `S/notifications`, the sweep of `lib/jobs/handlers`, migrations 144 and 160) | `billing_accounts`, the allowance of a plan, `sms_usage_logs`, `sms_failures` | earmark, insert, send, record, charge or give back, retry by cron and by hand, sweep | SMS provider, job queue (retry and sweep), officers |

What makes each correct, and what is hard about it:

* **Spine.**  Cash or savings must not be promised twice; a payout needs its approvals; money
  leaves at most once and only from a live earmark; group ledger and member ledger settle
  together; nothing stays in flight for ever.  Hard: two transactions that lock different rows,
  five separate steps between the commit and the watchdog with a network call in the middle, an
  answer that is lost, results that are duplicated, early, late or missing.
* **Job queue.**  A row is in one pair of hands; attempts are bounded across exceptions,
  timeouts and deaths; an ended row stays ended; every claim ends and every type of job gets its
  turn.  Hard: the writes after a
  handler are by id and look at no status, so only *time* (the platform's ceiling against the
  stuck threshold) keeps two invocations apart.
* **Payments in.**  A customer's money is credited once, whichever callbacks arrive, in
  whichever order, how often ever, and is never lost: it is booked or waits for an officer; the
  allocation status agrees with the ledgers.  Hard: two callbacks for one receipt, replay
  racing the live handler, an idempotency check that is a plain read, repair jobs that infer
  from the ledgers what happened.
* **Settlements.**  What is reserved is there and is given back exactly once; money leaves only
  after the second officer, or the three offices and the back office, signed, and only to the
  account or beneficiary that was reviewed; a campaign pays out no more than it raised.  Hard:
  two of the services copy a shape that differs in details (lists of statuses, fees), officers
  change while a request waits, the dispatch has the hazards of the spine, and a donation may
  reach two handlers.
* **SMS credits.**  A message is charged for as often as the provider took it, and taken once;
  an earmark ends; credits are not promised twice.  Hard: nothing but the earmark is a
  transaction with the send in the middle, three invocations may work on one message (sender,
  cron, officer) and none claims it, and the sweep infers from a row what the provider did.

### Components that are not modelled yet, or not at all

| component | state and operations | hard behaviour | what would make it correct |
|---|---|---|---|
| Outbox (`S/outbox`) | events, attempts, dead letter | poison events, retries | each event delivered or parked |
| Payment requests (`S/payment-requests`) | request latch | paid twice, expired while paying | settled by one payment |
| Loans (`S/loans`, `S/loan-charges`) | status machine, instalments, charges | manual repayments racing callbacks | owed never negative, charged once |
| Shares, dividends, reallocations (`S/shares`, `S/dividends`, `S/reallocations`) | holdings, runs, maker-checker transfers | concurrent transfers, partial runs | conservation of units and money |
| Accounting (`S/accounting`, `S/posting-templates`, `S/fiscal-periods`) | journals, periods | posting into a closing period | debits equal credits; here: the cash side of the journals the models post |
| Contributions, fines, welfare, investments, budgets | officer-entered ledgers | single transactions | arithmetic of one row |
| SMS beyond the credits (`S/sms-scheduler`, `lib/sms/trigger-engine`, `S/delivery-tracking`, `lib/sms/circuit-breaker`, an organization as payer) | what is sent when, delivery reports, the circuit of one instance | duplicate ticks, a probe that is spent without a call | a message per event; the circuit closes again |
| E-mail, newsletters, notifications, automation rules | best-effort sends | duplicates after a retried job | follows from the job queue |
| Subscriptions, governance, meetings, membership, import, organizations, programs, CRM, HR | CRUD with status guards | none across actors | validation, unit tests |
| Credit scores, analytics, reports | read-only | none | functional tests |
| Authentication, administration | sessions, roles | none shared with the money paths | only maker-checker reaches a model |
| Web application, CMS | user interface | none | not a subject for TLC |

`PROJECT.json` lists every component with its files, and under `hazards` the places of this
code that tests hardly reach, with the property that watches each, or why none does.

## 2. Modules

| module | what it is |
|---|---|
| `PayoutPromise` | abstract: the money of a request is absent, held, then paid or void |
| `Disbursements` | the spine; implements `PayoutPromise` |
| `DisbursementsProofs` | its theorems |
| `JobQueue`, `JobQueueProofs` | the job queue and its theorems |
| `PaymentsIn`, `PaymentsInProofs` | money that members send, and its theorems |
| `Settlements` | the three other payout services; implements `PayoutPromise` too |
| `SettlementsProofs` | its theorems |
| `SmsCredits`, `SmsCreditsProofs` | what a group pays for its messages, and the theorems about one message |
| `SmsAccountProofs` | the theorems about the account that pays for all of them |
| `SumTheorems` | lemmas about sums over finite sets, which the theorems about money cite |
| `MC...` | small instances of these for TLC |

### Disbursements

A request is named by its idempotency key; `Input[k]` is what the client sends.  Variables are
columns, with two liberties: `hold[k]` is the share of `accounts.reserved_amount` that was taken
or given back on behalf of k (so that a drift has a culprit), and `booked[k]` is what journals
credited to the cash account for k.  `pc[k]` is the invocation that works on k.

* `initiateDisbursement` is one transaction but two actions, `Begin` (locks one cash account and
  perhaps a loan, checks) and `Commit` (reserves, inserts).  The account that is locked depends
  on the method of payment, and that is what `two_accounts` is about.
* `Approve`, `TreasurerApprove`, `PlatformApproveMpesa`, `PlatformExecute`, `Reject`,
  `TreasurerReject`, `PlatformReject`, `Cancel`: one transaction, one action each.
* `dispatchDisbursement` is a program of five steps: `Claim`, the POST (`PostAccepted`,
  `PostRefused`, `PostAnswerLost`), `RecordB2C`, `AuditDispatch`, and the catch block
  `DispatchFailed` that `StepError` leads to.  `Crash` ends it anywhere.
* Safaricom is external: `DarajaSettles` and the delivery in each `Result...` action, in any
  order with the rest and up to `MaxDeliveries` times.
* `handleB2CResult`: `ResultUnmatched`, `ResultFailure`, and a success for each kind of payout.
  `ResultLoanAborted` is the callback whose commit the deferred trigger of migration 118 refuses.
* `WatchdogTimeout`, `RepostMissingJournals`, and the loan desk (`RejectLoan`, and `disburse`
  as an unlocked read and a write).

Abstracted: replaying a key returns the stored row and changes nothing, so it is no action; the
fee of a payout is not part of the reservation (the code does not reserve it); the principal of
a plain payout is journalled by its caller; a chart of accounts is complete, lacks the fee
account or lacks the main ones; Daraja recognises a re-sent request by its originator id, so
the client's own retries are one POST; whether a recipient is active and the result that
carries no receipt are left out; `reconciled_at` is never written by the code.

### JobQueue

Every statement is an action, because no transaction spans two of them: `Start` (the stuck-row
UPDATE), `Snapshot`, `Claim`, `Skip`, `NextRound`, `Stop`, then `MarkCompleted`, `RetryOrFail`
or `Die`; `Enqueue` and `Prune` are the producers.  `Minute` advances a discrete clock: a due
time is the minutes left, an age is kept only as far as the code compares it.  In the code the
ceiling is 1 minute (`maxDuration` of `app/api/cron/route.ts`), the threshold 6, cron's period
5, attempts 5, retention 30 days; a batch by hand runs on another route with the platform's
default of 5 minutes.  `TimeAssumption` is what all of them satisfy: Ceiling <= Threshold.

Abstracted: what a handler does is a choice of outcome; batch size and time budget are the
choice `Stop`, never before the first claim; among due rows of equal priority any may be
claimed (the code orders by run_at); an error of the sweep or the snapshot is a batch that did
not happen; a write that failed although it took effect is not modelled.  `job_logs` are a log: nothing
reads them back.  A row is inserted due, or up to `MaxDelay` minutes before its `run_at` (the
e-mail service delays its jobs), and holds its dedup key meanwhile.

### PaymentsIn

`pay` is what each receipt pays for and through which callbacks it shows; it is chosen from
`Scenarios` in the initial state and frozen.  A callback is audited in `mpesa_callbacks` (`row`),
after the answer for C2B and before it for STK; `pc[w]` is the live invocation or the replay.
A handler is one transaction at READ COMMITTED, split where its idempotency check is:
`CheckConfirmation` / `ApplyConfirmation`, `CheckResult` / `ApplyResult`, `Abort` when a unique
constraint breaks, `Finish` for the mark on the audit row.  `Reconcile`, `Sweep`, `Allocate`,
`Dismiss` and `StaffActivate` are the repair jobs and the officers.  `stamp` holds which receipt
each loan instalment carries: `loan_repayments` is unique in it, and the sweep reads it.

A plan that cannot be activated (no plan or product recorded, too little paid, a tier that is not
sold by self-service) is purpose `unsold`: the payment is completed, the failure is logged and
audited and goes no further, and `Noted` is all that `EveryPaymentPlaced` can ask for it.
`KeyedOnce` is stated for every receipt.  `CreditedOnce` and `SpineTellsTruth` say in their own
premise, `AllPlain`, for which payments one check decides the place; `Plainly` and `Entangled` in
`MCPaymentsIn` are the scenarios on either side of it.

Abstracted: instalments have one size and are paid in order (a receipt bound to an instalment
beforehand is not modelled); an officer resolves a receipt as what it was paid for; validation
requests, payment-request links, invoice-bound prompts, credits for SMS after the commit,
sandbox receipts, reversals and the outbox rows are left out; so are the age and row limits of
the replay, the reconciliation and the sweep (2 minutes, 5 minutes, 24 hours, 50 and 100 rows).

### Settlements

`Input[r].kind` says which of the three tables the row r is in.  Every transaction of these
services takes the lock it needs first, so each is one action; only the dispatch is a program
of steps, kept in `pc[r]`.

* Requests: `InitiateSettlement`, `InitiateVendorPayment`, `RequestWithdrawal`.  All three check
  and reserve under the lock of account 1001 (`Accept`); a withdrawal also checks what its
  campaign has left (`WithinCampaign`) and copies the destination.
* Decisions: `Approve` (one second officer), `ApproveWithdrawal` (one office at a time; the last
  one hands over to the back office), `PlatformApprove`, `PlatformReject`, `Reject`.
* Dispatch: `Claim`, the POST (`PostAccepted`, `PostRefused`, `PostAnswerLost`),
  `RecordConversation`, `ArmWatchdog`, and the catch block `DispatchFailed`, which `RecordError`
  also leads to.  `Crash` ends it anywhere.  Only the invocation of the last approval dispatches.
* `settlement-callbacks`: `ResultIgnored`, `ResultFailure`, `ResultSuccess`; `WatchdogTimeout`.
* Around them: bank accounts, the campaign from draft to active, `CreditDonation` from either
  handler, and `ChangeOffice`, which may happen at any time.

Abstracted: the Changi$ha plan of a group is never missing; replaying a key changes nothing and
is no action; a campaign's amount is the gross, which contains the platform's fee and the cost
of the transfer, while the tariff of the other two is only known when the result is posted
(`Posted`); the prompt of a donation is left out (its receipt is what arrives), as are the end
date of a campaign, notices and lists.  `MoneyOf` maps a row to `PayoutPromise`.

### SmsCredits

A message is one row of `sms_usage_logs`, made by one call (`kind`: `send`, a chunk of
`sendBulkCampaign`, or `notifyMember`).  `batch[b]` is where the invocation of the call stands,
with the row its loop is at; `retry[r]` is the same for cron's `retryFailures` and an officer's
`retryFailure`.  Every statement that is committed alone is an action.

* The account: `Earmarked` (allowance first), `Settle` (`settle_sms_credit_reservation`: only
  rows still reserved), `Unmarked`, `TopUp`, `ResetAllowance`.
* The call: `Queue`, or `ReserveNotice` then `InsertNotice`; `ProviderAnswers` or
  `ProviderThrows`; what is recorded, in the order of the code (`RecordRow`, `CatchMarks` and
  `CatchLogs`; `RecordCampaign`, `CatchCampaign` and `FileFailure`; `FinaliseNotice`);
  `ConsumeSent`, `ReleaseFailed`.
* The retry: `ChooseFailure`, `Suppress`, `Rereserve` or `RefuseRetry`, `Stamp`, `RetryAccepted`
  or `RetryRejected`, `RecordRetry`, `ConsumeRetry` or `ReleaseRetry`, `Bump`.
* The sweep: `SweepSelect` reads rows that are reserved and old, and what each says of the
  provider; `SweepConsume` and `SweepRelease` settle them in two transactions of their own, which
  ask for `billing_state` and nothing else; `SweepDies` forgets the reading.  An officer's retry
  may stamp a row between the reading and the settlement.
* What goes wrong, at most `MaxFaults` times: an invocation dies (`BatchDies`, `RetryDies`), an
  answer is lost after the provider took the message (`AnswerLost`, `RetryAnswerLost`), a write
  fails (`NoticeUnrecorded`, `RecordRowFails`, `FinaliseLost`, `RecordRetryFails`), a settlement
  is swallowed (`Settled`).  The give-back of a reminder without a row may fail in the same outage
  and is swallowed too (second disjunct of `NoticeUnrecorded`).

Five ghosts: `accepted` and `charged` are what really happened to a message; `doubts` counts how
often a write about it was lost after the answer, or one more invocation took it up beside another;
`raced` holds the messages that a retry stamped while the sweep held an older reading of the row;
`strayed` says that an earmark was left without a row.  A message may be delivered once more for
each doubt and no oftener, and is charged as taken without one; section 4 says what the others cost.

Abstracted: one group pays, and its plan does not change; a call is made once (the correlation
id removes duplicates); that a recipient opted out is a choice (`Suppress`), and so is every
reason to refuse a retry (`RefuseRetry`: no credits, kill switch, daily limit); the open circuit
is one of the ways a call may throw, and a retry that is skipped changes nothing; a failed
statement has no effect; a body has the same segments when it is sent again (a campaign's retry
sends the template as it was written, whose length may differ).  Cron waits five minutes after a
failure, so it never meets the invocation that logged it; an officer may.  The sweep waits
fifteen, longer than any invocation lives, so what it reads as stale is in no sender's hands.

## 3. Runs

"pass" runs hold; "violation" runs each show one disagreement between the code and what a
comment of it says, listed under `findings`.

| run | question | instance and why it is enough |
|---|---|---|
| `payouts` | Is cash (but for fees and what tellers hand out) or savings promised twice, is anything paid without approval, do the two ledgers settle together, is `PayoutPromise` implemented? | two withdrawals (M-Pesa, cash) that exceed the member's savings together, and a plain payout that exceeds the cash next to one of them; fee 1, a loan a teller may disburse by hand, a chart with and without the fee account, two deliveries, crashes. Conflicts are pairwise, three requests give one on each resource. |
| `dispatch_errors` | Does any failure of the dispatching invocation reopen a settled row or post a journal twice? | a plain payout and a withdrawal, all five faults, three charts, two deliveries, watchdog, repair sweep |
| `in_flight` | Is the reservation exact, does nothing stay in flight? | a loan payout under the threshold and a plain one above it, watchdog on, two deliveries, loan desk |
| `job_queue` | One pair of hands, bounded attempts, ended stays ended, every claim ends, types that stay due take turns | two invocations, two recurring jobs of two types and priorities, two attempts, a row due at once or a minute later, Ceiling = Threshold = 1 (the tightest the assumption allows), deaths, batches by hand. A batch may stop after its first claim, so without the rotation the urgent type would take every turn. |
| `payments_in` | Credited once, status tells the truth, keyed ledgers never twice, no decision undone, everything placed (booked, queued or noted) | fourteen scenarios, nine plain and five not: each product and purpose alone, delivered twice or overlapping with its replay, reconciled late or confirmed and reconciled, a plan that cannot be activated, and two receipts that meet in one loan (Debt 4, instalments of 2, payments of 3: an instalment is split between receipts, and the second receipt overflows into savings); one kill, rows left unmarked, callbacks that were never logged |
| `settlements` | Is the reservation exact under every fault, is the account overdrawn by more than fees, did a second officer agree, is a payout posted once, does nothing stay in flight? | two sweeps to a bank account that is still to be activated and a vendor payment, which fit in pairs but not with their fees, and not all three; answers and writes lost after the POST, two deliveries, watchdog |
| `campaigns` | Did three offices sign, can more leave a campaign than it raised (failed rows that Safaricom may still pay included), is what is raised what was donated, does money go where it was reviewed, is `PayoutPromise` implemented? | two withdrawals by different offices that exceed each donation, two donations, four members for three offices, two changes of office, two destinations, two deliveries of each result, crashes, no watchdog, no fault after the POST |
| `sms_credits` | Are credits promised twice, do the counters cover every open earmark, is a message delivered again without a doubt about it, is it charged as taken, does every earmark end? | two recipients in one call, sent or as a campaign, or one reminder; a body of two segments of which the allowance pays a part; the second message retried by cron and by an officer; the sweep in three steps between which they may act; a top-up or a new billing period; one fault of any kind |
| `two_accounts` | finding: the savings check is raced by another channel | two withdrawals, M-Pesa and bank |
| `loan_callback` | finding: the success of a loan payout aborts | one loan payout |
| `excess_lost` | finding: a suspended member's excess is neither booked nor queued | one deposit of 3 on a debt of 2 |
| `campaign_overdrawn` | finding: a withdrawal that timed out no longer counts as drawn | as `campaigns`, with the watchdog |

Each pass property has a mutant in `PROJECT.json`: a plausible bug in one definition that the
same run finds.

`CHECK_DEADLOCK FALSE` is set where a settled request or a placed payment leaves nothing to do;
`job_queue` checks deadlock.  No symmetry is used: the members of each set play different parts.

Bounds, all in the configurations: `MaxDeliveries` (how often Safaricom repeats itself; two is
the first repetition), `MaxKills` (one in `payments_in`; the killed handler is re-run by the
replay, which may itself be killed), `MaxAttempts` and `Cycle` (tick numbers modulo a number
that every rotation length divides), `MaxMoves` (changes of office: two let one office pass to a
person and on to another), `MaxChanges` (top-ups and billing periods), `MaxTries` (after how many
tries an officer gives a failure up; the code has no such limit) and `MaxFaults` (one: each
recovery is meant for one failure, and the proofs have no bound).

### Fairness

* Spine: WF of `Commit`, of the dispatching invocation and of an armed watchdog.  A transaction
  that was begun ends, QStash runs what it accepted.  Nothing of officers or of Safaricom: the
  in-flight property must hold if Safaricom never answers.
* Job queue: time passes, pg_cron fires in each tick, an invocation runs on or is killed.
  Nothing of the handlers' outcome.
* Payments in: an invocation runs on unless it is killed; the replay takes up what is logged;
  the sweep runs again and again.  Both are scheduled jobs.  Nothing of customers, officers or
  Safaricom.
* Settlements: WF of the dispatching invocation and of an armed watchdog, as in the spine.
* SMS credits: WF of all work taken together, i.e. while an invocation can go on or the sweep has
  a row to settle, some of it is done.  The code gives more (each invocation runs on by itself),
  and this is enough for `EarmarkEnds`.

## 4. Where the code falls short

Four disagreements have runs (table above).  The others were met on the way; where one touches a
property, the property, its premise or the instance of its run says so.

Payouts:

* One approved loan is paid twice by two requests with different keys: the loan is not asked
  whether another request is under way (`S/disbursements.service.ts:122`).
* A loan that is rejected, or disbursed by hand, between that gate and the POST is paid all the
  same: the claim (`S/disbursements.service.ts:521`) looks at the request alone, while the comment on
  the gate (line 115) says that it fixes "a rejected/already-disbursed loan could still be paid".
* Two tellers who disburse one loan at once both post its journal: the status is read without a lock
  and the update asks for none (`S/loans.service.ts:344`), although "Only approved loans can be
  disbursed" (line 350).  `OnlyFeesAndTellers` counts what they posted.
* A POST whose answer is lost is failed and its hold given back although Safaricom pays it; the
  comment in the catch block (`S/disbursements.service.ts:569`) says that "the Daraja POST never
  landed".  `FailedWasNotPaid` has the premise that excludes it, and so have `CampaignsBacked` and
  `ServicesKeepPromise` for the same catch block in `Settlements`.
* An approved row whose invocation dies before the claim is dispatched by nobody, in the spine
  and in the three services of `Settlements`.
* The tariff of settlements and vendor payments is not reserved: `OnlyFeesOverdraw` says that
  nothing else can overdraw the account.
* If the audit insert after the claim fails, the catch block gives the hold back although a
  result may have done so: `HoldMatchesStatus` is stated without `audit_error`.
* A crash between claim and watchdog leaves a dispatched row for ever: `in_flight` has no crash.
* With the watchdog on, a success after the timeout posts the journal and leaves row and hold as
  they are, so `OnlyFeesAndTellers` and `LedgersSettleTogether` are checked with QStash off.
* The fee of a payout is not reserved and a loan by hand asks for no cash: `OnlyFeesAndTellers` says
  that nothing else overdraws the account.
* A duplicated result of a plain payout posts the fee again.

Payments in:

* Two handlers of one C2B confirmation both repay an instalment, as the check is a plain read and
  the loan is added to unconditionally (`S/mpesa-c2b.service.ts:169`: "duplicate Safaricom retries
  return early").  An instalment paid in full is saved by the unique receipt on it, a part of one
  is not; nor is an invoice (`S/mpesa-c2b.service.ts:537`).
* A deposit into the welfare pool, a donation or a C2B invoice is booked where the sweep of orphans
  does not look, and is filed for an officer although it was booked, while the sweep is said to
  detect payments "that were recorded on the money ledger but never produced a domain record"
  (`S/mpesa-reconciliation.service.ts:274`, the query at 346).
* Reconciliation completes the prompt of a plan or of a loan and serves neither
  (`S/mpesa-reconciliation.service.ts:50`), and the late callback returns early:
  `docs/audits/PAYMENT_ARCHITECTURE_REDESIGN.md:555` says that "reconciliation completes the spine +
  allocation".  `payments_in` reconciles contributions and prompts of strangers.
* A plan that is paid for and cannot be activated leaves an audit entry and nothing in the queue
  of the officers (`S/mpesa-stk.service.ts:834-858`, `950-983`).
* C2B confirmations are answered before they are audited; `EveryPaymentPlaced` starts from the
  audit row.

Job queue:

* "No type can be permanently stuck at the back" (`lib/jobs/processor.ts:117`) is true of types that
  stay due (`StableTypesTakeTurns`).  The rotation is by tick number modulo how many types are due,
  so when a more urgent type is due in even ticks and a less urgent one in odd ticks only, a third
  type that is always due never leads, and is not served if each batch ends within its first type.

Text messages:

* The catch block of `dispatchBatch` also runs when recording an accepted batch fails: the
  earmarks are given back and the messages are sent again, while its comment
  (`S/sms.service.ts:2347`) says that the provider never confirmed.
* A failure is not claimed: cron and an officer who retry it at one time deliver the message twice,
  while `retryFailure` refuses a resolved one because re-sending "would be a duplicate to a real
  person and a second charge" (`S/sms.service.ts:2022`).  `DeliveredOnce` allows one more delivery
  for each overlap, and no other.
* The sweep settles what it read (`lib/jobs/handlers.ts:1577-1578`) without asking again how old the
  earmark is: when a retry has stamped the row in between, its fresh earmark is given back while the
  message is being sent, and the message goes out uncharged.  The sweep is said to return only "rows
  the provider never confirmed" (line 1551).  `AcceptedIsCharged` leaves the equality out for such a
  message (`raced`); that it is not charged too often, and not delivered again, is claimed of it too.
* A retry without credits spends a try; the comment at `S/sms.service.ts:2514` says that the count
  is untouched.
* The circuit breaker is asked twice for one call (`isProviderAvailable`, then the guarded call),
  and asking spends the probe of an expired circuit: the call is refused and the circuit stays
  half open for the life of the instance (`lib/sms/circuit-breaker.ts:56`).
* The drift report of the sweep compares the counter of bought credits with a sum that includes
  the allowance (`lib/jobs/handlers.ts:1609`), so it may report a drift where there is none.

## 5. Proofs

All theorems are for every value of the constants that satisfies the modules' assumptions.  The
assumptions are types, lock and time bounds that section 2 names, and that the sets of requests,
loans, receipts, donations and messages are finite: a sum needs that, and a table has it.  A
theorem that needs more says so in its `ASSUME`, and the list below says what fails without it.

**Sums.**  Balances are sums over rows (`SumFunctionOnSet` of the community modules, a fold in an
order nobody knows).  `SumTheorems` proves that the order plays no part: any element may be taken
out of a sum (`SumWithout`), and from it what an update, a renaming, a split or a larger summand
does.  The library's induction over finite sets takes an operator and cannot be used, so each
induction looks at a smallest subset of which the claim is wrong (`SmallestSet`, from the
well-foundedness of the subset ordering) and takes one more element out of it.

**Disbursements.**  `TypeCorrect` is inductive as it stands.  `SettledStaysSettled` needs that an
invocation between check and commit works on a row that does not exist yet (`InitiatingIsNew`),
else `Commit` could overwrite a settled row.  `PaidOnlyWhenAuthorised` strengthens with
`AuthorisedInv`: approvals are in place from the moment a row is released, and wherever an
invocation works on it; what Safaricom knows or the journal has then follows.
`ReservationExact` strengthens with `HoldInv`: the place of the dispatching invocation fixes the
status (`FlowAt`), so the catch block only ever meets a dispatched row whose hold is still
there.  It assumes `"audit_error" \notin Faults`: an audit insert that fails after the POST makes
the catch block give back what the callback may already have given back.
`SpineKeepsPromise` is the refinement: `WireInv` says what Safaricom may know at each status
(nothing before dispatch, no payment once failed), and every step then maps to one step of
`PayoutPromise` or to none.  It assumes that none of the three faults that make the catch block
run after the POST is possible; a lost answer refutes it otherwise.  `FailedWasNotPaid` reads the
same invariant: under that premise `UnpaidMeansUnpaid` holds.
`PostedOnce` (`JournalledOnce` under every fault) is inductive over the types: the posting and the
repost sweep look at the journal link, and `platformApprove` refuses a row that has one.
`LedgersTogether` adds `NoTimeout` (no watchdog, no timed-out row) to `HoldInv` and `WireInv`: a
paid payout whose result finds its B2C row is then dispatched or already completed, so the step
that posts the journal completes the row.  It assumes QStash off and no fault after the POST; a
timed-out or wrongly failed row would be journalled and stay what it is.
`SavingsCover` and `PromisesBounded` are about the two checks of `initiateDisbursement`.  Both rest
on `OneAtATime` (the lock of an account admits one request between its checks and its commit), and
state of that request that what it checked still holds: in `SavingsInv` that the amount is
withdrawable, in `ClaimsCovered` that opening balance and all claims leave room for it.
`SavingsCover` assumes `OneChannel`, that all withdrawals of a member are paid from one account:
the lock is on the account, the check on the member, and `two_accounts` shows what happens
otherwise.  For the cash account the amount of a request is a claim (`Claimed`) while it is
earmarked and after it was paid; claims bound holds and journals because the two never exist
together: a completed payout has given its hold back (`HoldInv`), an uncompleted one has posted
nothing (`LedgersSettleTogether`), and what a plain payout posts is its fee (`OthersBookFees`).
`PromisesBounded` is what the code guarantees, and what `payouts` checks as `OnlyFeesAndTellers`: no
promise beyond the balance but for fees, which nothing reserves, and disbursements by hand, which
check nothing.  It assumes QStash off, no fault after the POST and a chart that has the accounts a
payout posts to; a row that times out, or that a missing account leaves unposted, gives its hold
back before its journal exists.

**JobQueue.**  `RunsAlone`, `RetriesEnd`, `EndedStaysEnded` and `KeysStayUnique` follow from one
inductive invariant, `IInv`: a running invocation holds a processing row that nobody else holds,
the row is no older than the invocation has lived, hence at most Ceiling <= Threshold, hence not
stuck; it has seen the row's current attempts; and a row was run at most once more than it
counts attempts.  `KeysStayUnique` also covers rows that share a dedup key, which no run does.
`TypeCorrect` has the premise that powers of two are naturals (`PowersAreNat`), which the
prover's arithmetic does not know.

**PaymentsIn.**  `TypeCorrect` and `KeyedLedgersOnce` share the inductive invariant `IInv`: types,
the bound itself, and `PendingIsFresh` (a prompt that is pending was not reconciled: nothing is
booked without its receipt and nothing filed under its checkout id), without which a second
reconciliation could book again.  The argument is that whatever a step adds `Fits` the receipt
(`OnceFits`, `WaterfallFits`, `HandlersFit`), and that adding what fits keeps the bound
(`AddKeeps`).  The loan and the invoice are not among the keyed ledgers: the code adds to them
unconditionally, and section 4 says what follows.
`PlainPaymentsOnce` and `PlainSpineTruth` are about all ledgers of a receipt together, and hold of
the payments that `Plain` describes, a condition that is part of the property.  Each of its clauses
excludes a hazard of section 4 or of
`PROJECT.json` that breaks the property: products in which the sweep does not find a booking
(welfare, campaign, invoice), obligations, two handlers that repay the loan at once or a
repayment below one instalment (which may carry no stamp), a confirmation of what a prompt pays
to a loan or a plan too, and an STK payment that is both confirmed and reconciled.  Everything
else is free: any number of receipts that meet in one loan, deliveries, overlapping replays,
kills, lost log rows, officers.  The invariant, `PlacedInv`, has `Holding` (a handler past its
check is the only one of its kind, and what it checked is still so when it commits), `Record`
(what the payments row, the queue and the prompt say of each other: a receipt that was reconciled
has no payments row, one that waits in the queue is no repayment), `Books` (all of the payment or
nothing, in one place, as the spine says) and `StampsInOrder` (a stamped instalment is paid, so
that the next repayment stamps another one and the sweep finds it).  `TotalOfLedgers` turns the
sum over the ledgers into the seven terms.
`DecisionsAreFinal` needs the type
invariant only: every write of the queue is an insert that ignores conflicts, a resolution, or
a sweep over receipts the queue does not know.

**Settlements.**  `TypeCorrect` is inductive.  `ReservationExact` and `SettledStaysSettled` rest on
`FlowInv`, which ties the status to the place of the invocation: until the conversation id is
stored and the watchdog armed nobody else can move a processing row, so the catch block meets
only one whose hold nobody gave back.  `SecondOfficerAlways`
strengthens with `AuthorisedAt` (approvals are there from the moment a row is released) and
`BankInv` (a bank account was activated by someone but its creator and stays activated once).
`ThreeOfficesAlways` adds `SignedAt`: every signature is by another person and for another office,
the requester's among them, so that three offices are three people (`ThreePeople`) whatever they
hold by now.  `DestinationAlways` uses that an active campaign keeps its destination.
`JournalledOnce` uses `PostedAt`.  `ServicesKeepPromise` is the refinement; `WireAt` says what
Safaricom may know at each status.  It assumes that the two faults after the POST are not possible.
`RequestsBacked` (`OnlyFeesOverdraw` under every fault) strengthens with `CashInv`: what the rows
`Need` (the reservation while a row is open, its amount once it is journalled) never exceed what
was there and what came in.  Acceptance checks exactly that under the lock, and no later step
makes a row need more: a failure gives the hold back, a success turns it into a journal of the
same amount, and a timeout keeps it, so that a late result still finds it.  The tariff is the rest
of a journal (`NeedSplits`), and nothing reserves it.
`TotalsAreDonations` is inductive: a donation is added to the total once, by whichever handler
inserts it.  `DrawnWithinRaised` says that open and completed withdrawals never exceed the total,
under every fault.  It bounds what the code counts; that it also bounds what was promised to
beneficiaries (`CampaignsBacked`), a failed row that Safaricom may pay included, assumes that no
watchdog runs, as a timed-out withdrawal leaves the count (`NoTimeout`; run `campaign_overdrawn`),
and that no fault follows the POST, as the row of an accepted one then fails and leaves it too.

**SmsCredits.**  `MessageDeliveredOnce` and `MessageChargedAsTaken` follow from one invariant,
`IInv`.  `Shape` has the types, and that a retry points to a row that exists.  `Fine(m)` follows one
message without a doubt (`Clear`): one invocation at a time works on it (`Alone`), nothing happened
before its call is made (`Untouched`), and its `Books` are in order: taken at most once; charged
only if taken; earmarked or charged once taken, with the row saying so unless its invocation is
about to write it; no failure outstanding once taken.  What a step of the call or of the retry adds
is in `Standing` and `Retrying`.  The invariant is preserved message by message: a step that does
not touch a message leaves it fine (`Unmoved`), and one that does re-establishes its books
(`BatchMoves`, `RetryMoves`, and a lemma for each action).  `Swept(m)` is what
keeps the split sweep lawful: a row it has read is still as it read it, unless it is one to release
that a retry has stamped meanwhile (`raced`); one to consume cannot be stamped, since what was taken
has no failure outstanding.  There is no assumption on the faults: what they spoil is doubted, and
`BatchDies` shows that a death before anything was written casts a doubt only on what the provider
took and no row says so.

`AccountCoversEarmarks` and `GroupNeverOverspends` are about the account (`AccountInv`).  `Exact`:
the two counters cover the sums of what rows, calls that have no rows yet (`ticket`) and retries
that have not stamped theirs (`stamp`) hold open, and equal them until an earmark strays.  `Purse`
has the types and what makes a settlement lawful: each open earmark splits into a paid and an
allowance part of the size of its message, and a row that is not reserved holds none.  `Unborn`:
the rows of a call come with the call, so that turning a ticket into rows moves its sum and adds
nothing to old rows (`SumRenamed`, `SumFilled`).  Each step does one of four things to the
account (`Leaves`, `Earmarks`, `Settles`, `Loses`), and each of them keeps `Exact` and
`NotOverspent`.  That no settlement is cut off at zero is `Exact` again, and
`SmsCreditsTyped` needs it: without it the counters might leave the naturals.

Every invariant and action property that a run expects to hold is stated by a theorem, some under
premises that the list above explains, except `DeliveredOnce`: proved is its case without a doubt
(`MessageDeliveredOnce`), and that each doubt costs one delivery at most is model-checked.  Only
model-checked are also the liveness properties (`InFlightEnds` of both payout modules,
`ClaimedIsReleased`, `StableTypesTakeTurns`, `EveryPaymentPlaced`, `EarmarkEnds`), which need
fairness and ENABLED.

## 6. Plan

1. The safety core of the liveness properties as theorems: whoever is in flight has an invocation
   or an armed watchdog, an earmark that is open is in somebody's hands or the sweep's.
2. Extend `PaymentsIn` by the request row of a prompt of every purpose under reconciliation, and
   by payment requests.
3. `SmsCredits`: an organization as payer, and the circuit of one instance.
4. `Outbox`: relay and dead letter over the job queue.
5. `LoanLedger`: manual repayment, charges and the callback's waterfall on one loan.
6. `Shares`: transfers and dividend runs with maker-checker; conservation.

A run belongs to a question: when modules are added, the violation runs of what has been settled
in the code make room for them.
