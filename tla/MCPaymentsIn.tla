---------------------------- MODULE MCPaymentsIn ----------------------------
(***************************************************************************)
(* Small instances of PaymentsIn.  Receipts meet only in the loan they     *)
(* repay and in the sweep, so one receipt at a time is enough for every    *)
(* other product: the second one of such a scenario is never paid.         *)
(***************************************************************************)
EXTENDS PaymentsIn, TLC

CONSTANTS t1, t2

Deposit(route) == [route |-> route, purpose |-> "deposit", copies |-> 1,
                   notified |-> TRUE, overlap |-> TRUE, late |-> FALSE]
Prompt(purpose, route) == [Deposit(route) EXCEPT !.purpose = purpose]

\* Each callback is delivered twice.
Twice(p) == [p EXCEPT !.copies = 2]
\* Handled by one invocation at a time.
Alone(p) == [p EXCEPT !.overlap = FALSE]
\* Its STK request is reconciled, and Safaricom sends no confirmation for it.
Late(p) == [p EXCEPT !.late = TRUE, !.notified = FALSE]
\* Never paid: nothing is delivered.
Unpaid == [Deposit("nowhere") EXCEPT !.notified = FALSE]

One(p) == t1 :> p @@ t2 :> Unpaid
Pair(p, q) == t1 :> p @@ t2 :> q

\* Products that the sweep does not ask, two handlers on one repayment, and an STK payment that
\* is confirmed and reconciled.
Entangled ==
    {One(p) : p \in {Deposit("welfare"), Deposit("campaign"), Deposit("invoice"), Deposit("loan"),
                     [Prompt("contribution", "savings") EXCEPT !.late = TRUE]}}

Plainly ==
    {One(p) : p \in {Twice(Deposit("savings")), Deposit("nowhere"), Deposit("unplaced"),
                     Prompt("contribution", "savings"),
                     Prompt("plan", "nowhere"), Prompt("unsold", "nowhere"),
                     Late(Prompt("contribution", "savings")),
                     Late(Prompt("stranger", "nowhere"))}}
    \cup {Pair(Alone(Twice(Deposit("loan"))), [Prompt("loan", "nowhere") EXCEPT !.notified = FALSE])}

Everyday == Plainly \cup Entangled

Obligations == {One(Alone(Deposit("obligations")))}

Three == t1 :> 3 @@ t2 :> 3
============================================================================
