------------------------------ MODULE PaymentsIn ------------------------------
(***************************************************************************)
(* Money that members send in over M-Pesa: PayBill deposits, which reach   *)
(* the platform as a C2B confirmation, and STK prompts, which reach it as  *)
(* a result callback (and sometimes, for the same receipt, as a C2B        *)
(* confirmation too).  Both handlers run after the callback has been       *)
(* answered, both are re-run by the dead-letter replay, and what they      *)
(* cannot place is left in a queue that a treasurer or the staff empties.  *)
(*                                                                         *)
(* A handler is one database transaction at READ COMMITTED.  Its           *)
(* idempotency check comes first and the first statement that can block    *)
(* another handler of the receipt comes later, so an action Check and an   *)
(* action that applies and commits are enough to show their interleaving.  *)
(***************************************************************************)
EXTENDS Integers, FiniteSets, Functions

CONSTANTS
    Receipts,       \* M-Pesa transactions, each with one receipt number
    Amount,         \* what each of them moves
    Scenarios,      \* what the receipts may be payments of: functions from Receipts to Payments
    Debt,           \* what the member's open loan instalments add up to
    Step,           \* the size of one instalment
    MaxDeliveries,  \* bound: how often Safaricom delivers one callback at most
    MaxKills,       \* bound: how many invocations the platform kills
    Faults          \* what else may fail, out of {"unlogged", "unmarked"}

\* Where an account reference leads a confirmation: to the product of a membership, to the
\* obligations of a suspended one, to a campaign or an invoice, to a group but no product of
\* it ("unplaced"), or to no group.
Routes == {"savings", "welfare", "loan", "obligations", "campaign", "invoice", "unplaced", "nowhere"}

\* What an STK request was for; a "stranger" means to contribute but matches no member, the
\* "unsold" is a plan that cannot be activated (none is recorded, the payment is too small, the
\* tier is not for sale), and a PayBill deposit has no request.
Purposes == {"deposit", "contribution", "stranger", "loan", "plan", "unsold"}

Payments ==
    [route    : Routes,
     purpose  : Purposes,
     copies   : 1 .. MaxDeliveries, \* how often each of its callbacks is delivered
     notified : BOOLEAN,    \* Safaricom sends a C2B confirmation for it
     overlap  : BOOLEAN,    \* two handlers may work on it at the same time
     late     : BOOLEAN]    \* its STK request may be pending for more than five minutes

None == "none"

ASSUME PaymentsAssumption ==
    /\ IsFiniteSet(Receipts) /\ None \notin Receipts
    /\ Amount \in [Receipts -> Nat \ {0}]
    /\ Scenarios \subseteq [Receipts -> Payments]
    /\ Debt \in Nat /\ Step \in Nat \ {0}
    /\ MaxDeliveries \in Nat /\ MaxKills \in Nat

\* The member's loan: instalments of one size, paid in order.
Instalments == 1 .. (Debt + Step - 1) \div Step

\* The two kinds of callback, each audited in a row of mpesa_callbacks of its own.
Deliveries == Receipts \X {"c2b", "stk"} \X (1 .. MaxDeliveries)
\* A row is handled by the invocation that received it and by the replay job.
Workers == Deliveries \X {"live", "replay"}

Receipt(d) == d[1]
Kind(d) == d[2]

VARIABLES
    pay,        \* what each receipt pays for; it never changes
    money,      \* what became of the customer's payment
    row,        \* mpesa_callbacks: one audit row per delivery
    pc,         \* where each invocation is
    prompt,     \* the STK request and the payments row found by its checkout id
    paid,       \* who wrote the payments row that carries the receipt
    spine,      \* allocation_status of that row
    booked,     \* what each ledger holds for a receipt
    stamp,      \* the receipt each instalment carries, if any
    owed,       \* what is left of the instalments
    queue,      \* mpesa_unrouted, keyed by the receipt or by the checkout id
    kills       \* how many invocations have been killed

vars == <<pay, money, row, pc, prompt, paid, spine, booked, stamp, owed, queue, kills>>
ledger == <<prompt, paid, spine, booked, stamp, owed, queue>>

Prompted(t) == pay[t].purpose # "deposit"
Subscribes(t) == pay[t].purpose \in {"plan", "unsold"}

\* contributions with and without the receipt, welfare_pool_contributions, loan_repayments,
\* campaign_donations, invoices.paid_amount and subscriptions.
Ledgers == {"savings", "unreceipted", "welfare", "loan", "campaign", "invoice", "plan"}
Nothing == [l \in Ledgers |-> 0]

TypeOK ==
    /\ pay \in Scenarios
    /\ money \in [Receipts -> {"none", "moved", "refused"}]
    /\ row \in [Deliveries -> {"none", "acked", "logged", "processed"}]
    /\ pc \in [Workers -> {"idle", "acked", "start", "passed", "done"}]
    /\ prompt \in [Receipts -> {"none", "pending", "completed", "failed"}]
    /\ paid \in [Receipts -> {"none", "paybill", "prompt"}]
    /\ spine \in [Receipts -> {"received", "allocated", "unrouted"}]
    /\ booked \in [Receipts -> [Ledgers -> Nat]]
    /\ stamp \in [Instalments -> Receipts \cup {None}]
    /\ owed \in Nat
    /\ queue \in [Receipts -> [{"receipt", "checkout"} -> {"none", "open", "resolved"}]]
    /\ kills \in 0 .. MaxKills

Init ==
    /\ pay \in Scenarios
    /\ money = [t \in Receipts |-> "none"]
    /\ row = [d \in Deliveries |-> "none"]
    /\ pc = [w \in Workers |-> "idle"]
    /\ prompt = [t \in Receipts |-> IF Prompted(t) THEN "pending" ELSE "none"]
    /\ paid = [t \in Receipts |-> "none"]
    /\ spine = [t \in Receipts |-> "received"]
    /\ booked = [t \in Receipts |-> Nothing]
    /\ stamp = [i \in Instalments |-> None]
    /\ owed = Debt
    /\ queue = [t \in Receipts |-> [k \in {"receipt", "checkout"} |-> "none"]]
    /\ kills = 0

-------------------------------------------------------------------------------
(* What one handler adds to the ledgers.                                   *)

\* Mutant of Once: the INSERT has no ON CONFLICT clause.
OnceMore(t, l, n) == [Nothing EXCEPT ![l] = n]

\* INSERT ... ON CONFLICT DO NOTHING on the receipt, or on the payment.
Once(t, l, n) == [Nothing EXCEPT ![l] = IF booked[t][l] > 0 THEN 0 ELSE n]

\* Mutant of Absorbed: a payment is not capped by what is owed.
AbsorbedWhole(t) == Amount[t]

Absorbed(t) == IF owed < Amount[t] THEN owed ELSE Amount[t]

\* The oldest instalment that is not paid.  A receipt is stamped on the first instalment it
\* pays, unless an earlier receipt is there already, and on no other.
Oldest == (Debt - owed) \div Step + 1
Stamps(added) == added["loan"] > 0 /\ stamp[Oldest] = None
Stamped(t) == \E i \in Instalments : stamp[i] = t

\* applyLoanWaterfall: instalments first, what is left goes to savings.  A membership held to
\* its obligations may not save: c2bToUnrouted is called for what is left and files nothing.
Waterfall(t, obligations) ==
    [Nothing EXCEPT
        !["loan"] = Absorbed(t),
        !["savings"] = IF obligations \/ booked[t]["savings"] > 0
                       THEN 0 ELSE Amount[t] - Absorbed(t)]

Lends(t) == \/ pay[t].route = "loan"
            \/ pay[t].route = "obligations" /\ owed > 0

FromPaybill(t) ==
    CASE pay[t].route = "savings"  -> Once(t, "savings", Amount[t])
      [] pay[t].route = "welfare"  -> Once(t, "welfare", Amount[t])
      [] pay[t].route = "campaign" -> Once(t, "campaign", Amount[t])
      [] pay[t].route = "invoice"  -> [Nothing EXCEPT !["invoice"] = Amount[t]]
      [] Lends(t)              -> Waterfall(t, pay[t].route = "obligations")
      [] OTHER                 -> Nothing

\* An activation that fails is logged and swallowed: the payment completes all the same.
FromPrompt(t) ==
    CASE pay[t].purpose = "contribution" -> Once(t, "savings", Amount[t])
      [] pay[t].purpose = "loan"         -> Waterfall(t, FALSE)
      [] pay[t].purpose = "plan"         -> Once(t, "plan", Amount[t])
      [] OTHER                       -> Nothing

\* markSpineAllocated is called by the handlers of member money only, and only when they
\* inserted something.
Allocates(added) == \E l \in {"savings", "welfare", "loan"} : added[l] > 0

Add(t, added) ==
    /\ booked' = [booked EXCEPT ![t] = [l \in Ledgers |-> @[l] + added[l]]]
    /\ owed' = owed - added["loan"]
    /\ stamp' = [i \in Instalments |-> IF Stamps(added) /\ i = Oldest THEN t ELSE stamp[i]]

\* A second stamp of one receipt breaks a unique constraint.
StampConflict(t, added) == Stamps(added) /\ Stamped(t)

\* Mutant of File: a receipt that is filed again is opened again.
FileAgain(t, key) == queue' = [queue EXCEPT ![t][key] = "open"]

\* INSERT ... ON CONFLICT (receipt) DO NOTHING.
File(t, key) == queue' = [queue EXCEPT ![t][key] = IF @ = "none" THEN "open" ELSE @]

\* Mutant of MarkSpine: a row that was unrouted cannot be allocated any more.
MarkSpineOnce(t, to) == spine' = [spine EXCEPT ![t] = IF @ = "received" THEN to ELSE @]

\* markSpineAllocated and markSpineUnrouted on the row of the receipt, if there is one.
MarkSpine(t, to) ==
    spine' = [spine EXCEPT ![t] = IF @ = "received" \/ (@ = "unrouted" /\ to = "allocated")
                                  THEN to ELSE @]

-------------------------------------------------------------------------------
(* Safaricom.                                                              *)

\* Only payments that Safaricom reports change anything here.
Pay(t) ==
    /\ money[t] = "none" /\ (pay[t].notified \/ Prompted(t))
    /\ money' = [money EXCEPT ![t] = "moved"]
    /\ UNCHANGED <<pay, row, pc, kills, ledger>>

Refuse(t) ==
    /\ money[t] = "none" /\ Prompted(t)
    /\ money' = [money EXCEPT ![t] = "refused"]
    /\ UNCHANGED <<pay, row, pc, kills, ledger>>

Undelivered(d) ==
    /\ row[d] = "none" /\ d[3] <= pay[Receipt(d)].copies
    /\ d[3] > 1 => row[<<d[1], d[2], d[3] - 1>>] # "none"

\* The C2B route answers first and audits the callback in the same background task.
DeliverConfirmation(d) ==
    /\ Kind(d) = "c2b" /\ pay[Receipt(d)].notified /\ money[Receipt(d)] = "moved"
    /\ Undelivered(d)
    /\ row' = [row EXCEPT ![d] = "acked"]
    /\ pc' = [pc EXCEPT ![<<d, "live">>] = "acked"]
    /\ UNCHANGED <<pay, money, kills, ledger>>

\* The STK route audits the callback before it answers.
DeliverResult(d) ==
    /\ Kind(d) = "stk" /\ Prompted(Receipt(d)) /\ money[Receipt(d)] # "none"
    /\ Undelivered(d)
    /\ row' = [row EXCEPT ![d] = "logged"]
    /\ pc' = [pc EXCEPT ![<<d, "live">>] = "start"]
    /\ UNCHANGED <<pay, money, kills, ledger>>

-------------------------------------------------------------------------------
(* The invocations that handle a callback.                                 *)

LogCallback(d) ==
    /\ pc[<<d, "live">>] = "acked"
    /\ row' = [row EXCEPT ![d] = "logged"]
    /\ pc' = [pc EXCEPT ![<<d, "live">>] = "start"]
    /\ UNCHANGED <<pay, money, kills, ledger>>

\* Rows older than two minutes: a live handler that is slower than that is overtaken.
Replay(d) ==
    /\ row[d] = "logged" /\ pc[<<d, "replay">>] = "idle"
    /\ pay[Receipt(d)].overlap \/ pc[<<d, "live">>] = "idle"
    /\ pc' = [pc EXCEPT ![<<d, "replay">>] = "start"]
    /\ UNCHANGED <<pay, money, row, kills, ledger>>

\* Another transaction about this receipt is open past its idempotency check.
Open(t, kinds) == \E w \in Workers : /\ Receipt(w[1]) = t /\ Kind(w[1]) \in kinds
                                     /\ pc[w] = "passed"

MayEnter(w) == pay[Receipt(w[1])].overlap \/ ~ Open(Receipt(w[1]), {"c2b", "stk"})

\* A confirmation is a duplicate if a payments row carries the receipt.
CheckConfirmation(w) ==
    /\ Kind(w[1]) = "c2b" /\ pc[w] = "start" /\ MayEnter(w)
    /\ pc' = [pc EXCEPT ![w] = IF paid[Receipt(w[1])] # "none" THEN "done" ELSE "passed"]
    /\ UNCHANGED <<pay, money, row, kills, ledger>>

\* The statuses of the payments rows found by the receipt or by the checkout id: one of them
\* is read, whichever the database returns first.
Existing(t) == {prompt[t]} \cup (IF paid[t] = "paybill" THEN {"completed"} ELSE {})

\* A result takes the lock of its STK request first and checks under it.
CheckResult(w) ==
    LET t == Receipt(w[1]) IN
    /\ Kind(w[1]) = "stk" /\ pc[w] = "start" /\ MayEnter(w)
    /\ money[t] = "moved" /\ ~ Open(t, {"stk"})
    /\ \E status \in Existing(t) :
         pc' = [pc EXCEPT ![w] = IF status = "completed" THEN "done" ELSE "passed"]
    /\ UNCHANGED <<pay, money, row, kills, ledger>>

ApplyRefusal(w) ==
    LET t == Receipt(w[1]) IN
    /\ Kind(w[1]) = "stk" /\ pc[w] = "start" /\ money[t] = "refused" /\ ~ Open(t, {"stk"})
    /\ prompt' = [prompt EXCEPT ![t] = IF @ = "pending" THEN "failed" ELSE @]
    /\ pc' = [pc EXCEPT ![w] = "done"]
    /\ UNCHANGED <<pay, money, row, kills, paid, spine, booked, stamp, owed, queue>>

\* recordC2BInbound: only a reference that leads to a group is recorded.
Recorded(t) == IF pay[t].route # "nowhere" /\ paid[t] = "none" THEN "paybill" ELSE paid[t]


\* What c2bToUnrouted and its twin are called for.
Unplaceable(t, added) ==
    \/ pay[t].route \in {"unplaced", "nowhere"}
    \/ pay[t].route = "obligations" /\ added["loan"] < Amount[t]

\* Both refuse to file a receipt that has a completed payments row, the one that this very
\* transaction inserted included.
ApplyConfirmation(w) ==
    LET t == Receipt(w[1])
        added == FromPaybill(t)
    IN
    /\ Kind(w[1]) = "c2b" /\ pc[w] = "passed"
    /\ ~ StampConflict(t, added)
    /\ paid' = [paid EXCEPT ![t] = Recorded(t)]
    /\ Add(t, added)
    /\ IF Allocates(added) THEN MarkSpine(t, "allocated") ELSE UNCHANGED spine
    /\ IF Unplaceable(t, added) /\ Recorded(t) = "none" THEN File(t, "receipt") ELSE UNCHANGED queue
    /\ pc' = [pc EXCEPT ![w] = "done"]
    /\ UNCHANGED <<pay, money, row, kills, prompt>>

ApplyResult(w) ==
    LET t == Receipt(w[1])
        added == FromPrompt(t)
    IN
    /\ Kind(w[1]) = "stk" /\ pc[w] = "passed"
    /\ paid[t] # "paybill" /\ ~ StampConflict(t, added)
    /\ paid' = [paid EXCEPT ![t] = "prompt"]
    /\ prompt' = [prompt EXCEPT ![t] = "completed"]
    /\ Add(t, added)
    /\ CASE Allocates(added)          -> MarkSpine(t, "allocated")
         [] pay[t].purpose = "stranger"   -> MarkSpine(t, "unrouted")
         [] OTHER                     -> UNCHANGED spine
    /\ IF pay[t].purpose = "stranger" THEN File(t, "receipt") ELSE UNCHANGED queue
    /\ pc' = [pc EXCEPT ![w] = "done"]
    /\ UNCHANGED <<pay, money, row, kills>>

\* A unique constraint is broken: the transaction rolls back and the row keeps its error.
Abort(w) ==
    LET t == Receipt(w[1])
        added == IF Kind(w[1]) = "c2b" THEN FromPaybill(t) ELSE FromPrompt(t)
    IN
    /\ pc[w] = "passed"
    /\ \/ StampConflict(t, added)
       \/ Kind(w[1]) = "stk" /\ paid[t] = "paybill"
    /\ pc' = [pc EXCEPT ![w] = "idle"]
    /\ UNCHANGED <<pay, money, row, kills, ledger>>

\* markCallbackProcessed swallows its own failure.
Finish(w) ==
    /\ pc[w] = "done"
    /\ pc' = [pc EXCEPT ![w] = "idle"]
    /\ \/ row' = [row EXCEPT ![w[1]] = "processed"]
       \/ "unmarked" \in Faults /\ UNCHANGED row
    /\ UNCHANGED <<pay, money, kills, ledger>>

Kill(w) ==
    /\ kills < MaxKills /\ pc[w] # "idle"
    /\ pc[w] = "acked" => "unlogged" \in Faults
    /\ pc' = [pc EXCEPT ![w] = "idle"]
    /\ kills' = kills + 1
    /\ UNCHANGED <<pay, money, row, ledger>>

-------------------------------------------------------------------------------
(* The scheduled jobs and the people who empty the queue.                  *)

\* runReconciliation on an STK request that is still pending: Safaricom knows the outcome but
\* not the receipt.
Reconcile(t) ==
    /\ pay[t].late /\ prompt[t] = "pending" /\ money[t] # "none" /\ ~ Open(t, {"stk"})
    /\ prompt' = [prompt EXCEPT ![t] = IF money[t] = "moved" THEN "completed" ELSE "failed"]
    /\ IF money[t] = "moved" /\ pay[t].purpose = "contribution"
       THEN Add(t, [Nothing EXCEPT !["unreceipted"] = Amount[t]])
       ELSE UNCHANGED <<booked, owed, stamp>>
    /\ IF money[t] = "moved" /\ pay[t].purpose = "stranger" THEN File(t, "checkout") ELSE UNCHANGED queue
    /\ UNCHANGED <<pay, money, row, pc, kills, paid, spine>>

\* Mutant of Orphan: repayments are not asked.
OrphanUnlessSaved(t) == /\ paid[t] = "paybill" /\ booked[t]["savings"] = 0
                        /\ queue[t]["receipt"] = "none"

\* A completed PayBill receipt with no contribution and no instalment stamped with it.  (That
\* its payments row belongs to no invoice is so of every confirmation.)
Orphan(t) == /\ paid[t] = "paybill" /\ booked[t]["savings"] = 0 /\ ~ Stamped(t)
             /\ queue[t]["receipt"] = "none"

Sweep ==
    /\ \E t \in Receipts : Orphan(t)
    /\ queue' = [t \in Receipts |-> IF Orphan(t) THEN [queue[t] EXCEPT !["receipt"] = "open"]
                                                 ELSE queue[t]]
    /\ UNCHANGED <<pay, money, row, pc, kills, prompt, paid, spine, booked, stamp, owed>>

Resolve(t, key) == queue' = [queue EXCEPT ![t][key] = "resolved"]

\* A treasurer, or the staff, gives the receipt to a member as a contribution; a row that was
\* filed under the checkout id has no payments row.
Allocate(t, key) ==
    LET added == Once(t, IF key = "receipt" THEN "savings" ELSE "unreceipted", Amount[t]) IN
    /\ queue[t][key] = "open" /\ ~ Subscribes(t)
    /\ Resolve(t, key)
    /\ Add(t, added)
    /\ IF key = "receipt" /\ Allocates(added) /\ paid[t] # "none"
       THEN MarkSpine(t, "allocated") ELSE UNCHANGED spine
    /\ UNCHANGED <<pay, money, row, pc, kills, prompt, paid>>

Dismiss(t, key) ==
    /\ queue[t][key] = "open"
    /\ Resolve(t, key)
    /\ UNCHANGED <<pay, money, row, pc, kills, prompt, paid, spine, booked, stamp, owed>>

\* The staff activates the plan a queued receipt was meant to buy.
StaffActivate(t) ==
    /\ queue[t]["receipt"] = "open" /\ Subscribes(t)
    /\ Resolve(t, "receipt")
    /\ paid' = [paid EXCEPT ![t] = IF @ = "none" THEN "paybill" ELSE @]
    /\ Add(t, Once(t, "plan", Amount[t]))
    /\ MarkSpine(t, "allocated")
    /\ UNCHANGED <<pay, money, row, pc, kills, prompt>>

-------------------------------------------------------------------------------
Customer == \E t \in Receipts : Pay(t) \/ Refuse(t)
Callback == \E d \in Deliveries : DeliverConfirmation(d) \/ DeliverResult(d)
Handle(w) == \/ CheckConfirmation(w) \/ CheckResult(w) \/ ApplyRefusal(w)
             \/ ApplyConfirmation(w) \/ ApplyResult(w) \/ Abort(w) \/ Finish(w)
Officers == \E t \in Receipts : \/ StaffActivate(t)
                                \/ \E key \in {"receipt", "checkout"} : Allocate(t, key) \/ Dismiss(t, key)

Next ==
    \/ Customer \/ Callback \/ Officers \/ Sweep
    \/ \E d \in Deliveries : LogCallback(d) \/ Replay(d)
    \/ \E w \in Workers : Handle(w) \/ Kill(w)
    \/ \E t \in Receipts : Reconcile(t)

Spec == Init /\ [][Next]_vars

\* Invocations run on unless they are killed; the replay and the sweep are scheduled for ever.
\* Nothing is assumed of customers, of Safaricom or of the officers.
FairSpec ==
    /\ Spec
    /\ \A d \in Deliveries : WF_vars(LogCallback(d)) /\ WF_vars(Replay(d))
    /\ \A w \in Workers : WF_vars(Handle(w))
    /\ WF_vars(Sweep)

-------------------------------------------------------------------------------
Total(t) == SumFunctionOnSet(booked[t], Ledgers)

\* Payments whose place is decided by one check: a confirmation that the sweep can find again
\* in the ledgers, a repayment of a whole instalment or more that no second handler and no other
\* kind of callback books too, an STK payment that is confirmed or reconciled but not both.
Plain(p, n) ==
    /\ p.notified => p.route \in {"savings", "loan", "unplaced", "nowhere"}
    /\ p.notified /\ p.route = "loan" => p.purpose = "deposit" /\ ~ p.overlap /\ Step <= n
    /\ p.notified /\ p.purpose \in {"contribution", "stranger"} => ~ p.late /\ p.route # "nowhere"
    /\ p.notified /\ p.purpose \in {"plan", "unsold"} => p.route \in {"unplaced", "nowhere"}
    /\ p.purpose = "loan" => ~ p.notified /\ Step <= n

AllPlain == \A t \in Receipts : Plain(pay[t], Amount[t])

\* No plain receipt is worth more in the ledgers than the customer paid, however often its
\* callbacks are delivered, replayed and re-run, and whoever resolves it by hand.
CreditedOnce == AllPlain => \A t \in Receipts : Total(t) <= Amount[t]

\* The allocation status of a plain payment is what its ledgers say: an allocated payment is
\* booked in full, and one that is received or unrouted holds no member money yet.
SpineTellsTruth ==
    AllPlain => \A t \in Receipts : paid[t] # "none" =>
        IF spine[t] = "allocated" THEN Total(t) = Amount[t]
        ELSE \A l \in {"savings", "welfare", "loan"} : booked[t][l] = 0

\* Ledgers whose inserts are keyed by the receipt or by the payment, or made under the lock of
\* the STK request.  What is added to a loan or to an invoice is not keyed.
Keyed == {"savings", "unreceipted", "welfare", "campaign", "plan"}

\* No keyed ledger holds more of a receipt than was paid, whatever the receipt is for and
\* whichever handlers, jobs and officers touch it at once.
KeyedOnce == \A t \in Receipts, l \in Keyed : booked[t][l] <= Amount[t]

\* Decisions stand: a replayed callback or a sweep never reopens what an officer resolved,
\* and never takes back that a payment was allocated.
DecisionsStand ==
    [][\A t \in Receipts :
         /\ spine[t] = "allocated" => spine'[t] = "allocated"
         /\ \A key \in {"receipt", "checkout"} :
              queue[t][key] = "resolved" => queue'[t][key] = "resolved"]_vars

\* All that tells of a plan that was paid for and cannot be activated is an audit entry of the
\* transaction that completes the payment.
Noted(t) == paid[t] = "prompt" /\ pay[t].purpose = "unsold"

\* Once a confirmation or a result is audited, every shilling of it is booked or queued, or
\* else noted as a plan that the staff has to look at.
Placed(t) == \/ Total(t) >= Amount[t] \/ Noted(t)
             \/ \E key \in {"receipt", "checkout"} : queue[t][key] # "none"

EveryPaymentPlaced ==
    \A d \in Deliveries :
        (row[d] = "logged" /\ money[Receipt(d)] = "moved") ~> Placed(Receipt(d))
===============================================================================
