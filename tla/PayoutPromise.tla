---------------------------- MODULE PayoutPromise ----------------------------
(***************************************************************************)
(* What the disbursement spine promises about the money of one request,    *)
(* whatever the approvals, the network and the callbacks do:               *)
(*                                                                         *)
(*   - money leaves the group only while it is earmarked for that request, *)
(*   - it leaves at most once,                                             *)
(*   - an earmark that was given back never turns into a payment.          *)
(*                                                                         *)
(* The header of migration 066 (C1 reservation, C2 idempotency) and the    *)
(* comments of lib/services/disbursements.service.ts are where the promise *)
(* comes from; Disbursements.tla is the code that has to keep it.          *)
(***************************************************************************)
CONSTANT Keys      \* idempotency keys: one request (row) per key

VARIABLE money     \* money[k]: where the money of request k stands

MoneyStates == {"absent", "held", "paid", "void"}

PInit == money = [k \in Keys |-> "absent"]

\* The request is accepted and its amount is earmarked.
Hold(k) ==
  /\ money[k] = "absent"
  /\ money' = [money EXCEPT ![k] = "held"]

\* The money leaves the group.
Pay(k) ==
  /\ money[k] = "held"
  /\ money' = [money EXCEPT ![k] = "paid"]

\* The earmark is given back: the request will never be paid.
Void(k) ==
  /\ money[k] = "held"
  /\ money' = [money EXCEPT ![k] = "void"]

PNext == \E k \in Keys : Hold(k) \/ Pay(k) \/ Void(k)

PSpec == PInit /\ [][PNext]_money
=============================================================================
