----------------------------- MODULE SmsCredits -----------------------------
(***************************************************************************)
(* What one group pays for its text messages.                              *)
(*                                                                         *)
(*   messaging-billing.ts, migrations 144 and 160   the credit account     *)
(*   sms.service.ts send, dispatchBatch             a few recipients       *)
(*   sms.service.ts sendBulkCampaign                a chunk of a campaign  *)
(*   notifications.service.ts notifyMember          one reminder           *)
(*   sms.service.ts retryFailures, retryFailure     the second attempts    *)
(*   jobs/handlers.ts release_stale_reservations    the sweep              *)
(*                                                                         *)
(* A credit is earmarked before the provider is called and becomes a       *)
(* charge or is given back after it answered.  All of it is a sequence of  *)
(* autocommitted statements and one network call, and the invocation may   *)
(* die between any two of them.                                            *)
(*                                                                         *)
(* A message is one row of sms_usage_logs.  The circuit breaker is left    *)
(* open: a call may fail fast at any time, and a skipped retry changes     *)
(* nothing.  The ghosts are what the program cannot tell: what the provider*)
(* took, where a write about it was lost, and which runs overlapped.       *)
(***************************************************************************)
EXTENDS Integers, Sequences, FiniteSets, Functions

CONSTANTS
  Messages,
  Batches,      \* calls of send, sendBulkCampaign or notifyMember
  Recipients,   \* [Batches -> sequences of Messages], in the order of the rows
  Workloads,    \* [Batches -> what the call is, None when it is not made]
  Segments,     \* [Messages -> what the provider bills for the body]
  Opening,      \* billing_accounts.sms_credits at the start
  Included,     \* subscriptions.sms_allowance_included
  Retriers,     \* who may be retrying at one time
  MaxRetries,   \* [Messages -> sms_failures.max_retries]
  MaxTries,     \* bound: [Messages -> tries after which officers give a failure up]
  MaxChanges,   \* bound: top-ups and billing anniversaries
  Faults,       \* what may go wrong in a run
  MaxFaults     \* bound: times something goes wrong

None == "none"
Kinds == {"send", "campaign", "notify"}
AllRetriers == {"cron", "officer"}
AllFaults == {"crash", "answer_lost", "write_lost", "settle_lost"}
To(b) == {Recipients[b][i] : i \in DOMAIN Recipients[b]}

ASSUME BatchAssumption ==
  /\ Recipients \in [Batches -> Seq(Messages)]
  /\ \A b \in Batches : \A i, j \in DOMAIN Recipients[b] :
       Recipients[b][i] = Recipients[b][j] => i = j
  /\ \A b, c \in Batches : To(b) \cap To(c) # {} => b = c
  /\ Workloads \subseteq [Batches -> Kinds \cup {None}]
  /\ \A b \in Batches : Recipients[b] # <<>>
  /\ \A k \in Workloads : \A b \in Batches : k[b] = "notify" => Len(Recipients[b]) = 1

\* The rows of a table can be summed, and a call is no retry.
ASSUME TableAssumption ==
  IsFiniteSet(Messages) /\ IsFiniteSet(Batches) /\ Batches \cap Retriers = {}

ASSUME AmountAssumption ==
  /\ Segments \in [Messages -> Nat \ {0}]
  /\ Opening \in Nat /\ Included \in Nat
  /\ MaxRetries \in [Messages -> Nat] /\ MaxTries \in [Messages -> Nat]
  /\ MaxChanges \in Nat
  /\ Retriers \subseteq AllRetriers
  /\ Faults \subseteq AllFaults /\ MaxFaults \in Nat

VARIABLES
  account,   \* the row of billing_accounts
  bundled,   \* credits_from_allowance of each row of sms_usage_logs
  pending,   \* the same of an earmark that is not written on a row yet
  log,       \* sms_usage_logs
  failures,  \* sms_failures of each message, oldest first
  kind,      \* what each call is
  batch,     \* where the invocation of each call stands
  answer,    \* what it knows of the provider's verdict on each message
  retry,     \* where each retry stands
  sweep,     \* the rows a run of the sweep has read and not settled yet
  changes,   \* top-ups and billing anniversaries so far
  faults,    \* times something went wrong
  accepted,  \* ghost: times the provider took the message
  charged,   \* ghost: segments charged for the message
  doubts,    \* ghost: times a write was lost of it, or one more invocation took it up
  raced,     \* ghost: messages stamped by a retry after the sweep had read the row
  strayed    \* ghost: an earmark was left without a row to settle it

ghosts == <<accepted, charged, doubts, raced, strayed>>
bounds == <<changes, faults>>
money == <<account, bundled, pending>>
vars == <<money, log, failures, kind, sweep, batch, answer, retry, bounds, ghosts>>

-----------------------------------------------------------------------------
Statuses == {None, "queued", "sent", "failed"}
BillingStates == {None, "reserved", "consumed", "released"}
Row == [status : Statuses, billing : BillingStates, amount : Nat, receipt : BOOLEAN]
BatchSteps == {"idle", "ticket", "dispatch", "answered", "thrown", "logging", "consume",
               "release", "filing", "done"}
RetrySteps == {"idle", "chosen", "stamp", "send", "accepted", "consume", "release", "bump"}

TypeOK ==
  /\ account \in [credits : Nat, reserved : Nat, used : Nat, held : Nat]
  /\ log \in [Messages -> Row]
  /\ bundled \in [Messages -> Nat] /\ \A m \in Messages : bundled[m] <= log[m].amount
  /\ pending \in [Batches \cup Retriers -> Nat]
  /\ failures \in [Messages -> Seq([resolved : BOOLEAN, tries : Nat])]
  /\ kind \in Workloads
  /\ batch \in [Batches -> [at : BatchSteps, next : Nat]]
  /\ answer \in [Messages -> {None, "accepted", "rejected", "silent", "thrown"}]
  /\ retry \in [Retriers -> [at : RetrySteps, msg : Messages \cup {None}, row : Nat]]
  /\ sweep \in [consume : SUBSET Messages, release : SUBSET Messages]
  /\ changes \in 0..MaxChanges /\ faults \in 0..MaxFaults
  /\ accepted \in [Messages -> Nat] /\ charged \in [Messages -> Nat]
  /\ doubts \in [Messages -> Nat] /\ raced \subseteq Messages /\ strayed \in BOOLEAN

NoRow == [status |-> None, billing |-> None, amount |-> 0, receipt |-> FALSE]
Idle == [at |-> "idle", msg |-> None, row |-> 0]
Nothing == [consume |-> {}, release |-> {}]

Init ==
  /\ account = [credits |-> Opening, reserved |-> 0, used |-> 0, held |-> 0]
  /\ bundled = [m \in Messages |-> 0]
  /\ pending = [p \in Batches \cup Retriers |-> 0]
  /\ log = [m \in Messages |-> NoRow]
  /\ failures = [m \in Messages |-> <<>>]
  /\ kind \in Workloads
  /\ batch = [b \in Batches |-> [at |-> "idle", next |-> 1]]
  /\ answer = [m \in Messages |-> None]
  /\ retry = [r \in Retriers |-> Idle]
  /\ sweep = Nothing
  /\ changes = 0 /\ faults = 0
  /\ accepted = [m \in Messages |-> 0] /\ charged = [m \in Messages |-> 0]
  /\ doubts = [m \in Messages |-> 0] /\ raced = {} /\ strayed = FALSE

-----------------------------------------------------------------------------
(* The credit account.                                                     *)

\* A write about these messages is lost, or one more invocation takes them up.
Doubted(S) == [m \in Messages |-> IF m \in S THEN doubts[m] + 1 ELSE doubts[m]]

AtMost(a, b) == IF a < b THEN a ELSE b
AtLeast(a, b) == IF a > b THEN a ELSE b

AllowanceLeft == AtLeast(Included - account.used - account.held, 0)
FromAllowance(n) == AtMost(AllowanceLeft, n)

\* Mutant of Available: as if earmarked credits could be spent again.
AvailableUnreserved == account.credits
\* v_available: what is bought and not earmarked.
Available == account.credits - account.reserved

Affordable(n) == n - FromAllowance(n) <= Available

\* reserve_sms_credits: the allowance first, the rest from what was bought.
Earmarked(n) ==
  [account EXCEPT !.reserved = @ + n - FromAllowance(n), !.held = @ + FromAllowance(n)]

\* releaseUnticketedReservation
Unmarked(n, share) ==
  [account EXCEPT !.reserved = AtLeast(@ - (n - share), 0), !.held = AtLeast(@ - share, 0)]

Reserved(m) == log[m].billing = "reserved"

\* Mutant of AllowanceOf: the rows are counted, not their segments.
AllowanceOfRows(S) == SumFunctionOnSet([m \in Messages |-> IF bundled[m] > 0 THEN 1 ELSE 0], S)
\* allowance_count of migration 160
AllowanceOf(S) == SumFunctionOnSet(bundled, S)
PaidOf(S) == SumFunctionOnSet([m \in Messages |-> log[m].amount - bundled[m]], S)

\* settle_sms_credit_reservation: only rows still reserved are claimed.
Settle(ids, outcome) ==
  LET S == {m \in ids : Reserved(m)} IN
  /\ account' = [account EXCEPT
       !.reserved = AtLeast(@ - PaidOf(S), 0),
       !.credits  = IF outcome = "consume" THEN AtLeast(@ - PaidOf(S), 0) ELSE @,
       !.held     = AtLeast(@ - AllowanceOf(S), 0),
       !.used     = IF outcome = "consume" THEN @ + AllowanceOf(S) ELSE @]
  /\ log' = [m \in Messages |->
       IF m \in S
       THEN [log[m] EXCEPT !.billing = IF outcome = "consume" THEN "consumed" ELSE "released",
                           !.amount = 0]
       ELSE log[m]]
  /\ bundled' = [m \in Messages |-> IF m \in S THEN 0 ELSE bundled[m]]
  /\ charged' = [m \in Messages |->
       IF m \in S /\ outcome = "consume" THEN charged[m] + log[m].amount ELSE charged[m]]

Fault(f) == f \in Faults /\ faults < MaxFaults /\ faults' = faults + 1

\* settleReservation swallows what goes wrong: the sweep is the backstop.
Settled(ids, outcome) ==
  \/ Settle(ids, outcome) /\ UNCHANGED faults
  \/ Fault("settle_lost") /\ UNCHANGED <<account, bundled, log, charged>>

TopUp ==
  /\ changes < MaxChanges
  /\ changes' = changes + 1
  /\ account' = [account EXCEPT !.credits = @ + 1]
  /\ UNCHANGED <<bundled, pending, log, failures, kind, sweep, batch, answer, retry,
                 faults, ghosts>>

\* resetDueSmsAllowances: what is held is left to its own settlement.
ResetAllowance ==
  /\ changes < MaxChanges
  /\ changes' = changes + 1
  /\ account' = [account EXCEPT !.used = 0]
  /\ UNCHANGED <<bundled, pending, log, failures, kind, sweep, batch, answer, retry,
                 faults, ghosts>>

-----------------------------------------------------------------------------
(* A first attempt.                                                        *)

At(b, step) == batch[b].at = step
Goto(b, step) == batch' = [batch EXCEPT ![b].at = step, ![b].next = 1]
Cost(b) == SumFunctionOnSet(Segments, To(b))

\* Segments of the rows inserted before the i-th one.
Before(b, i) ==
  SumFunctionOnSet([j \in DOMAIN Recipients[b] |-> Segments[Recipients[b][j]]], 1..(i - 1))

\* Mutant of ShareOf: a row may carry more allowance than it has segments.
ShareUncapped(b, i) == AtLeast(FromAllowance(Cost(b)) - Before(b, i), 0)
\* fromAllowance of the i-th row: allowanceLeft is spent down row by row.
ShareOf(b, i) ==
  AtMost(AtLeast(FromAllowance(Cost(b)) - Before(b, i), 0), Segments[Recipients[b][i]])

NewRow(m) ==
  [status |-> "queued", billing |-> "reserved", amount |-> Segments[m], receipt |-> FALSE]
Inserted(b) == [m \in Messages |-> IF m \in To(b) THEN NewRow(m) ELSE log[m]]

\* send and sendBulkCampaign: earmark and rows in one transaction.
Queue(b) ==
  /\ At(b, "idle") /\ kind[b] \in {"send", "campaign"}
  /\ Affordable(Cost(b))
  /\ account' = Earmarked(Cost(b))
  /\ log' = Inserted(b)
  /\ bundled' = [m \in Messages |->
       IF m \in To(b) THEN ShareOf(b, CHOOSE i \in DOMAIN Recipients[b] : Recipients[b][i] = m)
       ELSE bundled[m]]
  /\ Goto(b, "dispatch")
  /\ UNCHANGED <<pending, failures, kind, sweep, answer, retry, bounds, ghosts>>

\* notifyMember: the earmark is committed alone.
ReserveNotice(b) ==
  /\ At(b, "idle") /\ kind[b] = "notify"
  /\ Affordable(Cost(b))
  /\ account' = Earmarked(Cost(b))
  /\ pending' = [pending EXCEPT ![b] = FromAllowance(Cost(b))]
  /\ Goto(b, "ticket")
  /\ UNCHANGED <<bundled, log, failures, kind, sweep, answer, retry, bounds, ghosts>>

\* insertSmsLog
InsertNotice(b) ==
  /\ At(b, "ticket")
  /\ log' = Inserted(b)
  /\ bundled' = [m \in Messages |-> IF m \in To(b) THEN pending[b] ELSE bundled[m]]
  /\ Goto(b, "dispatch")
  /\ UNCHANGED <<account, pending, failures, kind, sweep, answer, retry, bounds, ghosts>>

\* insertSmsLog fails: the earmark is handed back, unless the same outage takes that write too,
\* and the message is sent all the same.
NoticeUnrecorded(b) ==
  /\ At(b, "ticket") /\ Fault("write_lost")
  /\ \/ account' = Unmarked(Cost(b), pending[b]) /\ UNCHANGED strayed
     \/ strayed' = TRUE /\ UNCHANGED account
  /\ doubts' = Doubted(To(b))
  /\ Goto(b, "dispatch")
  /\ UNCHANGED <<bundled, pending, log, failures, kind, sweep, answer, retry, changes, accepted,
                 charged, raced>>

\* Only a bulk response may leave a message out.
Verdicts(b) ==
  IF kind[b] = "campaign" \/ Len(Recipients[b]) > 1 THEN {"accepted", "rejected", "silent"}
  ELSE {"accepted", "rejected"}

Answered(v) == [m \in Messages |-> IF m \in DOMAIN v THEN v[m] ELSE answer[m]]

\* sendSingleSms or sendBulkSmsChunked returns.
ProviderAnswers(b) ==
  /\ At(b, "dispatch")
  /\ \E v \in [To(b) -> Verdicts(b)] :
       /\ answer' = Answered(v)
       /\ accepted' = [m \in Messages |->
            IF m \in To(b) /\ v[m] = "accepted" THEN accepted[m] + 1 ELSE accepted[m]]
  /\ Goto(b, "answered")
  /\ UNCHANGED <<money, log, failures, kind, sweep, retry, bounds, charged, doubts, raced,
                 strayed>>

\* It throws, and nothing was taken: refused by the open circuit or never reached.
ProviderThrows(b) ==
  /\ At(b, "dispatch")
  /\ answer' = Answered([m \in To(b) |-> "thrown"])
  /\ Goto(b, "thrown")
  /\ UNCHANGED <<money, log, failures, kind, sweep, retry, bounds, ghosts>>

\* It throws although messages were taken: the answer is lost.
AnswerLost(b) ==
  /\ At(b, "dispatch") /\ Fault("answer_lost")
  /\ answer' = Answered([m \in To(b) |-> "thrown"])
  /\ \E S \in SUBSET To(b) \ {{}} :
       /\ accepted' = [m \in Messages |-> IF m \in S THEN accepted[m] + 1 ELSE accepted[m]]
       /\ doubts' = Doubted(S)
  /\ Goto(b, "thrown")
  /\ UNCHANGED <<money, log, failures, kind, sweep, retry, changes, charged, raced, strayed>>

-----------------------------------------------------------------------------
(* What is recorded of the answer.                                         *)

Verdict(m) ==
  IF log[m].status = None THEN log[m]
  ELSE [log[m] EXCEPT !.status = IF answer[m] = "accepted" THEN "sent" ELSE "failed",
                      !.receipt = answer[m] = "accepted"]
NewFailure == [resolved |-> FALSE, tries |-> 0]
WithFailure(m) == [failures EXCEPT ![m] = Append(@, NewFailure)]

Current(b) == Recipients[b][batch[b].next]
Advance(b, then) ==
  IF batch[b].next < Len(Recipients[b]) THEN batch' = [batch EXCEPT ![b].next = @ + 1]
  ELSE Goto(b, then)

\* dispatchBatch, one row of the loop: updateLogRow, and logFailure when rejected.
RecordRow(b) ==
  LET m == Current(b) IN
  /\ At(b, "answered") /\ kind[b] = "send"
  /\ log' = IF answer[m] = "silent" THEN log ELSE [log EXCEPT ![m] = Verdict(m)]
  /\ failures' = IF answer[m] = "rejected" THEN WithFailure(m) ELSE failures
  /\ Advance(b, "consume")
  /\ UNCHANGED <<money, kind, sweep, answer, retry, bounds, ghosts>>

\* A statement of that row fails, before or after the row or the failure was written: the
\* catch block takes the whole batch, accepted messages included.
RecordRowFails(b) ==
  LET m == Current(b) IN
  /\ At(b, "answered") /\ kind[b] = "send" /\ Fault("write_lost")
  /\ answer[m] # "silent"
  /\ log' \in {log, [log EXCEPT ![m] = Verdict(m)]}
  /\ \/ UNCHANGED failures
     \/ answer[m] = "rejected" /\ log' # log /\ failures' = WithFailure(m)
  /\ answer' = Answered([n \in To(b) |-> "thrown"])
  /\ doubts' = Doubted(To(b))
  /\ Goto(b, "thrown")
  /\ UNCHANGED <<money, kind, sweep, retry, changes, accepted, charged, raced, strayed>>

FailedRows(b) ==
  [m \in Messages |-> IF m \in To(b) THEN [log[m] EXCEPT !.status = "failed"] ELSE log[m]]

\* dispatchBatch, catch: every row is marked failed ...
CatchMarks(b) ==
  /\ At(b, "thrown") /\ kind[b] = "send"
  /\ log' = FailedRows(b)
  /\ Goto(b, "logging")
  /\ UNCHANGED <<money, failures, kind, sweep, answer, retry, bounds, ghosts>>

\* ... and then given its own retry, one by one.
CatchLogs(b) ==
  /\ At(b, "logging")
  /\ failures' = WithFailure(Current(b))
  /\ Advance(b, "consume")
  /\ UNCHANGED <<money, log, kind, sweep, answer, retry, bounds, ghosts>>

\* sendBulkCampaign, catch: both in one transaction.
CatchCampaign(b) ==
  /\ At(b, "thrown") /\ kind[b] = "campaign"
  /\ log' = FailedRows(b)
  /\ failures' = [m \in Messages |->
       IF m \in To(b) THEN Append(failures[m], NewFailure) ELSE failures[m]]
  /\ Goto(b, "consume")
  /\ UNCHANGED <<money, kind, sweep, answer, retry, bounds, ghosts>>

\* sendBulkCampaign: every row in one transaction; the failures come after the settlement.
RecordCampaign(b) ==
  /\ At(b, "answered") /\ kind[b] = "campaign"
  /\ log' = [m \in Messages |->
       IF m \in To(b) /\ answer[m] # "silent" THEN Verdict(m) ELSE log[m]]
  /\ Goto(b, "consume")
  /\ UNCHANGED <<money, failures, kind, sweep, answer, retry, bounds, ghosts>>

\* finaliseSmsLog, whether the provider answered or threw.
FinaliseNotice(b) ==
  /\ batch[b].at \in {"answered", "thrown"} /\ kind[b] = "notify"
  /\ log' = [m \in Messages |-> IF m \in To(b) THEN Verdict(m) ELSE log[m]]
  /\ Goto(b, "consume")
  /\ UNCHANGED <<money, failures, kind, sweep, answer, retry, bounds, ghosts>>

\* finaliseSmsLog swallows a failed update.
FinaliseLost(b) ==
  /\ batch[b].at \in {"answered", "thrown"} /\ kind[b] = "notify" /\ Fault("write_lost")
  /\ doubts' = Doubted(To(b))
  /\ Goto(b, "consume")
  /\ UNCHANGED <<money, log, failures, kind, sweep, answer, retry, changes, accepted, charged,
                 raced, strayed>>

-----------------------------------------------------------------------------
(* The settlement of the batch.                                            *)

Sent(b) == {m \in To(b) : answer[m] = "accepted"}
\* A message left out of a bulk answer stays reserved, but a campaign gives it back.
GivesBack(b) == {"rejected", "thrown"} \cup (IF kind[b] = "campaign" THEN {"silent"} ELSE {})
Failed(b) == {m \in To(b) : answer[m] \in GivesBack(b)}

ConsumeSent(b) ==
  /\ At(b, "consume")
  /\ Settled(Sent(b), "consume")
  /\ Goto(b, "release")
  /\ UNCHANGED <<pending, failures, kind, sweep, answer, retry, changes, accepted, doubts, raced,
                 strayed>>

ReleaseFailed(b) ==
  /\ At(b, "release")
  /\ Settled(Failed(b), "release")
  /\ Goto(b, IF kind[b] = "campaign" THEN "filing" ELSE "done")
  /\ UNCHANGED <<pending, failures, kind, sweep, answer, retry, changes, accepted, doubts, raced,
                 strayed>>

\* sendBulkCampaign: the retries of what the provider rejected.
FileFailure(b) ==
  LET m == Current(b) IN
  /\ At(b, "filing")
  /\ failures' = IF answer[m] = "rejected" THEN WithFailure(m) ELSE failures
  /\ Advance(b, "done")
  /\ UNCHANGED <<money, log, kind, sweep, answer, retry, bounds, ghosts>>

Live(b) == batch[b].at \notin {"idle", "done"}

\* Accepted, and nothing in the row says so.
OffRecord(m) == Reserved(m) /\ ~log[m].receipt /\ log[m].status # "sent"

\* The runtime kills the invocation, or a statement of it throws out of the call.
BatchDies(b) ==
  /\ Live(b) /\ Fault("crash")
  /\ Goto(b, "done")
  /\ strayed' = (strayed \/ At(b, "ticket"))
  /\ doubts' = Doubted({m \in Sent(b) : OffRecord(m)})
  /\ UNCHANGED <<money, log, failures, kind, sweep, answer, retry, changes, accepted, charged,
                 raced>>

-----------------------------------------------------------------------------
(* The second attempts.                                                    *)

RetryAt(r, step) == retry[r].at = step
Msg(r) == retry[r].msg
RetryGoto(r, step) == retry' = [retry EXCEPT ![r].at = step]
RetryEnds(r) == retry' = [retry EXCEPT ![r] = Idle]
Failure(r) == failures[Msg(r)][retry[r].row]
SetFailure(r, f) == failures' = [failures EXCEPT ![Msg(r)][retry[r].row] = f]

Busy(m) == \E b \in Batches : Live(b) /\ m \in To(b)
Retried(m) == \E r \in Retriers : retry[r].at # "idle" /\ retry[r].msg = m

Outstanding(f) == ~f.resolved

\* retryFailures (cron) reads what is due: five minutes after the failure its sender is gone.
\* retryFailure (officer) reads one row, due or not.  Neither claims it.
ChooseFailure(r, m, i) ==
  /\ RetryAt(r, "idle")
  /\ Outstanding(failures[m][i])
  /\ \/ r = "cron" /\ failures[m][i].tries < MaxRetries[m] /\ ~Busy(m)
     \/ r = "officer" /\ failures[m][i].tries < MaxTries[m]
  /\ retry' = [retry EXCEPT ![r] = [at |-> "chosen", msg |-> m, row |-> i]]
  /\ doubts' = IF Busy(m) \/ Retried(m) THEN Doubted({m}) ELSE doubts
  /\ UNCHANGED <<money, log, failures, kind, sweep, batch, answer, bounds, accepted, charged,
                 raced, strayed>>

\* The recipient has opted out since.
Suppress(r) ==
  /\ RetryAt(r, "chosen")
  /\ SetFailure(r, [Failure(r) EXCEPT !.resolved = TRUE])
  /\ RetryEnds(r)
  /\ UNCHANGED <<money, log, kind, sweep, batch, answer, bounds, ghosts>>

\* reserveCredits in a transaction of its own.
Rereserve(r) ==
  /\ RetryAt(r, "chosen")
  /\ Affordable(Segments[Msg(r)])
  /\ account' = Earmarked(Segments[Msg(r)])
  /\ pending' = [pending EXCEPT ![r] = FromAllowance(Segments[Msg(r)])]
  /\ RetryGoto(r, "stamp")
  /\ UNCHANGED <<bundled, log, failures, kind, sweep, batch, answer, bounds, ghosts>>

\* Not enough credits, the kill switch, the daily limit: the try is spent.
RefuseRetry(r) ==
  /\ RetryAt(r, "chosen")
  /\ RetryGoto(r, "bump")
  /\ UNCHANGED <<money, log, failures, kind, sweep, batch, answer, bounds, ghosts>>

\* A row the sweep has read, and will settle as it read it.
InSweep(m) == m \in sweep.consume \cup sweep.release

\* The earmark is written on the row, over whatever stood there, the sweep's reading included.
Stamp(r) ==
  /\ RetryAt(r, "stamp")
  /\ log' = [log EXCEPT ![Msg(r)].billing = "reserved", ![Msg(r)].amount = Segments[Msg(r)]]
  /\ bundled' = [bundled EXCEPT ![Msg(r)] = pending[r]]
  /\ strayed' = (strayed \/ Reserved(Msg(r)))
  /\ raced' = IF InSweep(Msg(r)) THEN raced \cup {Msg(r)} ELSE raced
  /\ RetryGoto(r, "send")
  /\ UNCHANGED <<account, pending, failures, kind, sweep, batch, answer, bounds, accepted,
                 charged, doubts>>

RetryAccepted(r) ==
  /\ RetryAt(r, "send")
  /\ accepted' = [accepted EXCEPT ![Msg(r)] = @ + 1]
  /\ RetryGoto(r, "accepted")
  /\ UNCHANGED <<money, log, failures, kind, sweep, batch, answer, bounds, charged, doubts, raced,
                 strayed>>

\* Rejected, refused by the open circuit, or never reached.
RetryRejected(r) ==
  /\ RetryAt(r, "send")
  /\ RetryGoto(r, "release")
  /\ UNCHANGED <<money, log, failures, kind, sweep, batch, answer, bounds, ghosts>>

RetryAnswerLost(r) ==
  /\ RetryAt(r, "send") /\ Fault("answer_lost")
  /\ accepted' = [accepted EXCEPT ![Msg(r)] = @ + 1]
  /\ doubts' = Doubted({Msg(r)})
  /\ RetryGoto(r, "release")
  /\ UNCHANGED <<money, log, failures, kind, sweep, batch, answer, changes, charged, raced,
                 strayed>>

\* Mutant of Resolved: the failure is left as it was.
ResolvedNever(f) == f
Resolved(f) == [f EXCEPT !.resolved = TRUE, !.tries = @ + 1]

\* Row and failure in one transaction.
RecordRetry(r) ==
  /\ RetryAt(r, "accepted")
  /\ log' = [log EXCEPT ![Msg(r)].status = "sent", ![Msg(r)].receipt = TRUE]
  /\ SetFailure(r, Resolved(Failure(r)))
  /\ RetryGoto(r, "consume")
  /\ UNCHANGED <<money, kind, sweep, batch, answer, bounds, ghosts>>

\* It fails, and the catch block takes the message for one that was not sent.
RecordRetryFails(r) ==
  /\ RetryAt(r, "accepted") /\ Fault("write_lost")
  /\ doubts' = Doubted({Msg(r)})
  /\ RetryGoto(r, "release")
  /\ UNCHANGED <<money, log, failures, kind, sweep, batch, answer, changes, accepted, charged,
                 raced, strayed>>

ConsumeRetry(r) ==
  /\ RetryAt(r, "consume")
  /\ Settled({Msg(r)}, "consume")
  /\ RetryEnds(r)
  /\ UNCHANGED <<pending, failures, kind, sweep, batch, answer, changes, accepted, doubts, raced,
                 strayed>>

ReleaseRetry(r) ==
  /\ RetryAt(r, "release")
  /\ Settled({Msg(r)}, "release")
  /\ RetryGoto(r, "bump")
  /\ UNCHANGED <<pending, failures, kind, sweep, batch, answer, changes, accepted, doubts, raced,
                 strayed>>

\* bumpRetry
Bump(r) ==
  /\ RetryAt(r, "bump")
  /\ SetFailure(r, [Failure(r) EXCEPT !.tries = @ + 1])
  /\ RetryEnds(r)
  /\ UNCHANGED <<money, log, kind, sweep, batch, answer, bounds, ghosts>>

RetryDies(r) ==
  /\ retry[r].at # "idle" /\ Fault("crash")
  /\ strayed' = (strayed \/ RetryAt(r, "stamp"))
  /\ doubts' = IF RetryAt(r, "accepted") THEN Doubted({Msg(r)}) ELSE doubts
  /\ RetryEnds(r)
  /\ UNCHANGED <<money, log, failures, kind, sweep, batch, answer, changes, accepted, charged,
                 raced>>

-----------------------------------------------------------------------------
(* The sweep of rows reserved for fifteen minutes: it reads them in one transaction and      *)
(* settles them in two others, while officers go on retrying.                                *)

\* Mutant of TakenByProvider: everything stale is released.
TakenByNobody(m) == FALSE
TakenByProvider(m) == log[m].receipt \/ log[m].status = "sent"

\* Its retry has stamped the row, a short while ago as no invocation lives that long.
Stamped(m) ==
  \E r \in Retriers : Msg(r) = m /\ retry[r].at \in {"send", "accepted", "consume", "release"}

\* Mutant of Stale: only rows never sent are looked at.
StaleQueued(m) == Reserved(m) /\ log[m].status = "queued" /\ ~Busy(m) /\ ~Stamped(m)
Stale(m) == Reserved(m) /\ ~Busy(m) /\ ~Stamped(m)

\* Which of the rows of a call are old enough depends on the clock.
SweepSelect ==
  /\ sweep = Nothing
  /\ \E S \in SUBSET {m \in Messages : Stale(m)} \ {{}} :
       sweep' = [consume |-> {m \in S : TakenByProvider(m)},
                 release |-> {m \in S : ~TakenByProvider(m)}]
  /\ UNCHANGED <<money, log, failures, kind, batch, answer, retry, bounds, ghosts>>

SweepConsume ==
  /\ sweep.consume # {}
  /\ Settled(sweep.consume, "consume")
  /\ sweep' = [sweep EXCEPT !.consume = {}]
  /\ UNCHANGED <<pending, failures, kind, batch, answer, retry, changes, accepted, doubts, raced,
                 strayed>>

SweepRelease ==
  /\ sweep.consume = {} /\ sweep.release # {}
  /\ Settled(sweep.release, "release")
  /\ sweep' = Nothing
  /\ UNCHANGED <<pending, failures, kind, batch, answer, retry, changes, accepted, doubts, raced,
                 strayed>>

\* The invocation that runs the sweep is killed: the next run reads again.
SweepDies ==
  /\ sweep # Nothing /\ Fault("crash")
  /\ sweep' = Nothing
  /\ UNCHANGED <<money, log, failures, kind, batch, answer, retry, changes, ghosts>>

SweepProceeds == SweepSelect \/ SweepConsume \/ SweepRelease

-----------------------------------------------------------------------------
BatchProceeds(b) ==
  \/ InsertNotice(b) \/ ProviderAnswers(b) \/ ProviderThrows(b)
  \/ RecordRow(b) \/ CatchMarks(b) \/ CatchLogs(b) \/ CatchCampaign(b) \/ RecordCampaign(b)
  \/ FinaliseNotice(b) \/ ConsumeSent(b) \/ ReleaseFailed(b) \/ FileFailure(b)

BatchFails(b) ==
  NoticeUnrecorded(b) \/ AnswerLost(b) \/ RecordRowFails(b) \/ FinaliseLost(b) \/ BatchDies(b)

RetryProceeds(r) ==
  \/ Suppress(r) \/ Rereserve(r) \/ RefuseRetry(r) \/ Stamp(r)
  \/ RetryAccepted(r) \/ RetryRejected(r) \/ RecordRetry(r)
  \/ ConsumeRetry(r) \/ ReleaseRetry(r) \/ Bump(r)

RetryFails(r) == RetryAnswerLost(r) \/ RecordRetryFails(r) \/ RetryDies(r)

Next ==
  \/ \E b \in Batches : Queue(b) \/ ReserveNotice(b) \/ BatchProceeds(b) \/ BatchFails(b)
  \/ \E r \in Retriers :
       \/ \E m \in Messages : \E i \in DOMAIN failures[m] : ChooseFailure(r, m, i)
       \/ RetryProceeds(r) \/ RetryFails(r)
  \/ SweepProceeds \/ SweepDies
  \/ TopUp \/ ResetAllowance

Spec == Init /\ [][Next]_vars

\* An invocation goes on or is killed, and the queue runs the sweep again and again.  That
\* some of this work is done while there is any is less than the code gives, and enough.
Work ==
  \/ \E b \in Batches : BatchProceeds(b)
  \/ \E r \in Retriers : RetryProceeds(r)
  \/ SweepProceeds

FairSpec == Spec /\ WF_vars(Work)

-----------------------------------------------------------------------------
(* Properties.                                                             *)

\* What is earmarked is there to be charged: neither the credits bought nor the allowance
\* are promised twice, whoever sends, retries and sweeps at one time.
NotOverspent ==
  /\ account.reserved <= account.credits
  /\ account.used + account.held <= Included

Tickets == {b \in Batches : At(b, "ticket")}
Stamps == {r \in Retriers : RetryAt(r, "stamp")}
Ticketed ==
  [paid |-> PaidOf(Messages)
              + SumFunctionOnSet([b \in Batches |-> Cost(b) - pending[b]], Tickets)
              + SumFunctionOnSet([r \in Retriers |-> Segments[Msg(r)] - pending[r]], Stamps),
   bundled |-> AllowanceOf(Messages)
              + SumFunctionOnSet(pending, Tickets) + SumFunctionOnSet(pending, Stamps)]

\* The counters of the account cover every open earmark, so that no settlement is cut off
\* at zero, and hold nothing besides, unless an earmark was left without its row: by a death
\* between the two commits, or by a retry that wrote over an earmark still open.
EarmarksExact ==
  /\ Ticketed.paid <= account.reserved /\ Ticketed.bundled <= account.held
  /\ ~strayed => Ticketed.paid = account.reserved /\ Ticketed.bundled = account.held

\* A message is charged for as often as the provider took it, no more at any time and no less
\* once its row is settled, unless a write was lost after the provider's answer or a second
\* invocation took the message up while one worked on it.  Never more through the race of the
\* sweep either: a retry may stamp the row between the reading and the settlement, which asks
\* for billing_state alone; the message may then go uncharged, and no other does.
AcceptedIsCharged ==
  \A m \in Messages : doubts[m] = 0 =>
    /\ charged[m] <= Segments[m] * accepted[m]
    /\ ~Reserved(m) /\ ~Busy(m) /\ ~Retried(m) /\ m \notin raced =>
         charged[m] = Segments[m] * accepted[m]

\* A recipient gets a message again only as often as a write about it was lost or one more
\* invocation took it up beside another: retryFailure and retryFailures refuse a resolved
\* failure but claim none, and however they, the calls, the sweep and deaths interleave, each
\* such doubt costs one delivery at most.
DeliveredOnce == \A m \in Messages : accepted[m] <= 1 + doubts[m]

\* No earmark stays open for ever: what an invocation leaves the sweep settles.
EarmarkEnds == \A m \in Messages : []<>~Reserved(m)
=============================================================================
