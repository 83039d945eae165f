--------------------------- MODULE PaymentsInProofs ---------------------------
(***************************************************************************)
(* What holds of PaymentsIn for any number of receipts, any scenario and   *)
(* any number of deliveries and kills: every variable keeps its type, no   *)
(* keyed ledger holds more of a receipt than was paid, and the decisions   *)
(* of officers and handlers stand.  Then, for the payments that one check  *)
(* decides, that all ledgers together credit a receipt once and that the   *)
(* spine says where it is.                                                 *)
(***************************************************************************)
EXTENDS PaymentsIn, SumTheorems

\* Only what a handler may add: no more to the loan than is owed, and to a keyed ledger
\* no more than is still missing of the payment.
Fits(t, added) ==
    /\ added \in [Ledgers -> Nat]
    /\ added["loan"] <= owed
    /\ \A l \in Keyed : booked[t][l] <= Amount[t] => booked[t][l] + added[l] <= Amount[t]

\* An INSERT that ignores conflicts adds the payment, or nothing if something is there.
LEMMA OnceFits ==
    ASSUME TypeOK, NEW t \in Receipts, NEW l \in Ledgers \ {"loan"}
    PROVE  Fits(t, Once(t, l, Amount[t]))
    <1>1. Amount[t] \in Nat  BY PaymentsAssumption
    <1>2. booked[t] \in [Ledgers -> Nat]  BY DEF TypeOK
    <1>3. Once(t, l, Amount[t]) \in [Ledgers -> Nat]
      BY <1>1 DEF Once, Nothing
    <1>4. \A k \in Ledgers : Once(t, l, Amount[t])[k] =
            IF k = l THEN (IF booked[t][l] > 0 THEN 0 ELSE Amount[t]) ELSE 0
      BY DEF Once, Nothing
    <1>5. Once(t, l, Amount[t])["loan"] = 0  BY <1>4 DEF Ledgers
    <1>6. owed \in Nat  BY DEF TypeOK
    <1>7. \A k \in Keyed : booked[t][k] <= Amount[t]
                           => booked[t][k] + Once(t, l, Amount[t])[k] <= Amount[t]
      <2> SUFFICES ASSUME NEW k \in Keyed, booked[t][k] <= Amount[t]
                   PROVE  booked[t][k] + Once(t, l, Amount[t])[k] <= Amount[t]
        OBVIOUS
      <2>1. k \in Ledgers  BY DEF Keyed, Ledgers
      <2>2. booked[t][k] \in Nat  BY <1>2, <2>1
      <2> QED BY <1>1, <1>4, <2>1, <2>2
    <1> QED BY <1>3, <1>5, <1>6, <1>7 DEF Fits

LEMMA NothingFits ==
    ASSUME TypeOK, NEW t \in Receipts
    PROVE  Fits(t, Nothing)
    <1>1. Nothing \in [Ledgers -> Nat] /\ \A k \in Ledgers : Nothing[k] = 0  BY DEF Nothing
    <1>2. booked[t] \in [Ledgers -> Nat] /\ owed \in Nat  BY DEF TypeOK
    <1> QED BY <1>1, <1>2 DEF Fits, Keyed, Ledgers

LEMMA WaterfallFits ==
    ASSUME TypeOK, NEW t \in Receipts, NEW o \in BOOLEAN
    PROVE  Fits(t, Waterfall(t, o))
    <1>1. Amount[t] \in Nat /\ owed \in Nat /\ booked[t] \in [Ledgers -> Nat]
      BY PaymentsAssumption DEF TypeOK
    <1>2. Absorbed(t) \in Nat /\ Absorbed(t) <= owed /\ Absorbed(t) <= Amount[t]
      BY <1>1 DEF Absorbed
    <1>3. Amount[t] - Absorbed(t) \in Nat  BY <1>1, <1>2
    <1>4. Waterfall(t, o) \in [Ledgers -> Nat]
      BY <1>2, <1>3 DEF Waterfall, Nothing
    <1>5. \A k \in Ledgers : Waterfall(t, o)[k] =
            IF k = "loan" THEN Absorbed(t)
            ELSE IF k = "savings" THEN (IF o \/ booked[t]["savings"] > 0
                                        THEN 0 ELSE Amount[t] - Absorbed(t))
            ELSE 0
      BY DEF Waterfall, Nothing, Ledgers
    <1>6. Waterfall(t, o)["loan"] <= owed  BY <1>2, <1>5 DEF Ledgers
    <1>7. \A k \in Keyed : booked[t][k] <= Amount[t]
                           => booked[t][k] + Waterfall(t, o)[k] <= Amount[t]
      <2> SUFFICES ASSUME NEW k \in Keyed, booked[t][k] <= Amount[t]
                   PROVE  booked[t][k] + Waterfall(t, o)[k] <= Amount[t]
        OBVIOUS
      <2>1. k \in Ledgers /\ k # "loan"  BY DEF Keyed, Ledgers
      <2>2. booked[t][k] \in Nat  BY <1>1, <2>1
      <2>3. CASE k = "savings"  BY <1>1, <1>2, <1>5, <2>1, <2>2, <2>3
      <2>4. CASE k # "savings"  BY <1>5, <2>1, <2>2, <2>4
      <2> QED BY <2>3, <2>4
    <1> QED BY <1>4, <1>6, <1>7 DEF Fits

\* Whatever callback a handler works on, what it adds fits.
LEMMA HandlersFit ==
    ASSUME TypeOK, NEW t \in Receipts
    PROVE  Fits(t, FromPaybill(t)) /\ Fits(t, FromPrompt(t))
    <1> DEFINE O(l) == Fits(t, Once(t, l, Amount[t]))
    <1>1. O("savings") /\ O("welfare") /\ O("campaign") /\ O("plan")
      BY OnceFits DEF Ledgers
    <1>2. Fits(t, [Nothing EXCEPT !["invoice"] = Amount[t]])
      <2> DEFINE a == [Nothing EXCEPT !["invoice"] = Amount[t]]
      <2>1. Amount[t] \in Nat /\ owed \in Nat /\ booked[t] \in [Ledgers -> Nat]
        BY PaymentsAssumption DEF TypeOK
      <2>2. a \in [Ledgers -> Nat]  BY <2>1 DEF Nothing
      <2>3. \A k \in Ledgers \ {"invoice"} : a[k] = 0  BY DEF Nothing
      <2>4. \A k \in Keyed : k \in Ledgers \ {"invoice"}  BY DEF Keyed, Ledgers
      <2>5. a["loan"] = 0  BY <2>3 DEF Ledgers
      <2> HIDE DEF a
      <2>6. \A k \in Keyed : booked[t][k] \in Nat  BY <2>1, <2>4
      <2>7. \A k \in Keyed : booked[t][k] <= Amount[t] => booked[t][k] + a[k] <= Amount[t]
        BY <2>3, <2>4, <2>6
      <2>8. Fits(t, a)  BY <2>1, <2>2, <2>5, <2>7 DEF Fits
      <2> QED BY <2>8 DEF a
    <1>3. Fits(t, Nothing)  BY NothingFits
    <1>4. \A o \in BOOLEAN : Fits(t, Waterfall(t, o))  BY WaterfallFits
    <1>5. (pay[t].route = "obligations") \in BOOLEAN  OBVIOUS
    <1>6. Fits(t, FromPaybill(t))  BY <1>1, <1>2, <1>3, <1>4, <1>5 DEF FromPaybill
    <1>7. Fits(t, FromPrompt(t))  BY <1>1, <1>3, <1>4 DEF FromPrompt
    <1> QED BY <1>6, <1>7

-------------------------------------------------------------------------------
(* The invariant *)

\* A prompt that is still pending was not reconciled: nothing was booked without its receipt
\* and nothing was filed under its checkout id.
PendingIsFresh ==
    \A t \in Receipts : prompt[t] = "pending" =>
        booked[t]["unreceipted"] = 0 /\ queue[t]["checkout"] = "none"

IInv == TypeOK /\ KeyedOnce /\ PendingIsFresh

LEMMA InitIInv == Init => IInv
    <1> SUFFICES ASSUME Init PROVE IInv  OBVIOUS
    <1>1. MaxKills \in Nat /\ Debt \in Nat /\ Amount \in [Receipts -> Nat]
      BY PaymentsAssumption
    <1>2. Nothing \in [Ledgers -> Nat] /\ \A l \in Ledgers : Nothing[l] = 0  BY DEF Nothing
    <1>3. TypeOK  BY <1>1, <1>2 DEF Init, TypeOK
    <1>4. KeyedOnce
      BY <1>1, <1>2 DEF Init, KeyedOnce, Keyed, Ledgers
    <1>5. PendingIsFresh
      BY <1>2 DEF Init, PendingIsFresh, Ledgers
    <1> QED BY <1>3, <1>4, <1>5 DEF IInv

\* A step that leaves the ledgers alone.
LEMMA QuietKeeps ==
    ASSUME IInv, UNCHANGED <<pay, ledger>>,
           money' \in [Receipts -> {"none", "moved", "refused"}],
           row' \in [Deliveries -> {"none", "acked", "logged", "processed"}],
           pc' \in [Workers -> {"idle", "acked", "start", "passed", "done"}],
           kills' \in 0 .. MaxKills
    PROVE  IInv'
    BY DEF IInv, TypeOK, KeyedOnce, PendingIsFresh, ledger

\* What Add does to the ledgers of all receipts.
LEMMA AddKeeps ==
    ASSUME TypeOK, KeyedOnce, NEW t \in Receipts, NEW added, Fits(t, added), Add(t, added)
    PROVE  /\ booked' \in [Receipts -> [Ledgers -> Nat]]
           /\ owed' \in Nat
           /\ stamp' \in [Instalments -> Receipts \cup {None}]
           /\ KeyedOnce'
           /\ \A u \in Receipts : u # t => booked'[u] = booked[u]
           /\ \A l \in Ledgers : booked'[t][l] = booked[t][l] + added[l]
    <1>1. booked \in [Receipts -> [Ledgers -> Nat]] /\ owed \in Nat
          /\ added \in [Ledgers -> Nat]
      BY DEF TypeOK, Fits
    <1>2. booked' = [booked EXCEPT ![t] = [l \in Ledgers |-> booked[t][l] + added[l]]]
      BY DEF Add
    <1>3. [l \in Ledgers |-> booked[t][l] + added[l]] \in [Ledgers -> Nat]  BY <1>1
    <1>4. booked' \in [Receipts -> [Ledgers -> Nat]]  BY <1>1, <1>2, <1>3
    <1>5. \A u \in Receipts : u # t => booked'[u] = booked[u]  BY <1>1, <1>2
    <1>6. \A l \in Ledgers : booked'[t][l] = booked[t][l] + added[l]  BY <1>1, <1>2
    <1>7. added["loan"] \in Nat /\ added["loan"] <= owed  BY <1>1 DEF Fits, Ledgers
    <1>8. owed' \in Nat  BY <1>1, <1>7 DEF Add
    <1>9. stamp' \in [Instalments -> Receipts \cup {None}]  BY DEF Add, TypeOK
    <1>10. KeyedOnce'
      <2> SUFFICES ASSUME NEW u \in Receipts, NEW l \in Keyed
                   PROVE  booked'[u][l] <= Amount[u]
        BY DEF KeyedOnce
      <2>1. booked[u][l] <= Amount[u]  BY DEF KeyedOnce
      <2>2. l \in Ledgers  BY DEF Keyed, Ledgers
      <2>3. CASE u = t  BY <1>6, <2>1, <2>2, <2>3 DEF Fits
      <2>4. CASE u # t  BY <1>5, <2>1, <2>4
      <2> QED BY <2>3, <2>4
    <1> QED BY <1>4, <1>5, <1>6, <1>8, <1>9, <1>10

\* A callback, the log and the replay.
LEMMA DeliveryStep ==
    ASSUME IInv, NEW d \in Deliveries,
           DeliverConfirmation(d) \/ DeliverResult(d) \/ LogCallback(d) \/ Replay(d)
    PROVE  IInv'
    <1>1. <<d, "live">> \in Workers /\ <<d, "replay">> \in Workers  BY DEF Workers
    <1>2. UNCHANGED <<pay, money, kills, ledger>>
      BY DEF DeliverConfirmation, DeliverResult, LogCallback, Replay
    <1>3. row' \in [Deliveries -> {"none", "acked", "logged", "processed"}]
      BY DEF IInv, TypeOK, DeliverConfirmation, DeliverResult, LogCallback, Replay
    <1>4. pc' \in [Workers -> {"idle", "acked", "start", "passed", "done"}]
      <2>1. pc' = [pc EXCEPT ![<<d, "live">>] = "acked"]
            \/ pc' = [pc EXCEPT ![<<d, "live">>] = "start"]
            \/ pc' = [pc EXCEPT ![<<d, "replay">>] = "start"]
        BY DEF DeliverConfirmation, DeliverResult, LogCallback, Replay
      <2>2. pc \in [Workers -> {"idle", "acked", "start", "passed", "done"}]  BY DEF IInv, TypeOK
      <2> QED BY <1>1, <2>1, <2>2
    <1> QED BY <1>2, <1>3, <1>4, QuietKeeps DEF IInv, TypeOK

\* The steps of a handler that touch no ledger.
LEMMA QuietWorkerStep ==
    ASSUME IInv, NEW w \in Workers,
           CheckConfirmation(w) \/ CheckResult(w) \/ Abort(w) \/ Finish(w) \/ Kill(w)
    PROVE  IInv'
    <1>1. UNCHANGED <<pay, money, ledger>>
      BY DEF CheckConfirmation, CheckResult, Abort, Finish, Kill
    <1>2. w[1] \in Deliveries  BY DEF Workers
    <1>3. row' \in [Deliveries -> {"none", "acked", "logged", "processed"}]
      BY <1>2 DEF IInv, TypeOK, CheckConfirmation, CheckResult, Abort, Finish, Kill
    <1>4. pc' \in [Workers -> {"idle", "acked", "start", "passed", "done"}]
      <2>1. pc \in [Workers -> {"idle", "acked", "start", "passed", "done"}]  BY DEF IInv, TypeOK
      <2>2. \E place \in {"idle", "passed", "done"} : pc' = [pc EXCEPT ![w] = place]
        <3>1. CASE CheckConfirmation(w)  BY <3>1 DEF CheckConfirmation
        <3>2. CASE CheckResult(w)  BY <3>2 DEF CheckResult
        <3>3. CASE Abort(w) \/ Finish(w) \/ Kill(w)  BY <3>3 DEF Abort, Finish, Kill
        <3> QED BY <3>1, <3>2, <3>3
      <2> QED BY <2>1, <2>2
    <1>5. kills' \in 0 .. MaxKills
      BY PaymentsAssumption
         DEF IInv, TypeOK, CheckConfirmation, CheckResult, Abort, Finish, Kill
    <1> QED BY <1>1, <1>3, <1>4, <1>5, QuietKeeps DEF IInv, TypeOK

\* A confirmation never books without its receipt.
LEMMA PaybillReceipted ==
    ASSUME NEW t \in Receipts
    PROVE  FromPaybill(t)["unreceipted"] = 0
    <1>1. \A l \in Ledgers \ {"unreceipted"} : Once(t, l, Amount[t])["unreceipted"] = 0
      BY DEF Once, Nothing, Ledgers
    <1>2. \A o \in BOOLEAN : Waterfall(t, o)["unreceipted"] = 0
      BY DEF Waterfall, Nothing, Ledgers
    <1>3. Nothing["unreceipted"] = 0 /\ [Nothing EXCEPT !["invoice"] = Amount[t]]["unreceipted"] = 0
      BY DEF Nothing, Ledgers
    <1>4. (pay[t].route = "obligations") \in BOOLEAN  OBVIOUS
    <1>5. {"savings", "welfare", "campaign"} \subseteq Ledgers \ {"unreceipted"}  BY DEF Ledgers
    <1> QED BY <1>1, <1>2, <1>3, <1>4, <1>5 DEF FromPaybill

LEMMA MarkType ==
    ASSUME TypeOK, NEW t, NEW to \in {"allocated", "unrouted"}, MarkSpine(t, to)
    PROVE  spine' \in [Receipts -> {"received", "allocated", "unrouted"}]
    BY DEF TypeOK, MarkSpine

LEMMA FileType ==
    ASSUME TypeOK, NEW t \in Receipts, NEW key \in {"receipt", "checkout"},
           File(t, key) \/ Resolve(t, key)
    PROVE  /\ queue' \in [Receipts -> [{"receipt", "checkout"} -> {"none", "open", "resolved"}]]
           /\ \A u \in Receipts, k \in {"receipt", "checkout"} :
                u # t \/ k # key => queue'[u][k] = queue[u][k]
    <1> DEFINE K == {"receipt", "checkout"}
               S == {"none", "open", "resolved"}
    <1>1. queue \in [Receipts -> [K -> S]]  BY DEF TypeOK
    <1>2. \E x \in S : queue' = [queue EXCEPT ![t] = [queue[t] EXCEPT ![key] = x]]
      <2>1. CASE Resolve(t, key)  BY <2>1 DEF Resolve
      <2>2. CASE File(t, key)
        <3>1. queue[t][key] \in S  BY <1>1
        <3>2. queue' = [queue EXCEPT ![t] =
                 [queue[t] EXCEPT ![key] = IF queue[t][key] = "none" THEN "open" ELSE queue[t][key]]]
          BY <2>2 DEF File
        <3>3. CASE queue[t][key] = "none"  BY <3>2, <3>3
        <3>4. CASE queue[t][key] # "none"  BY <3>1, <3>2, <3>4
        <3> QED BY <3>3, <3>4
      <2> QED BY <2>1, <2>2
    <1>3. PICK x \in S : queue' = [queue EXCEPT ![t] = [queue[t] EXCEPT ![key] = x]]
      BY <1>2
    <1>4. [queue[t] EXCEPT ![key] = x] \in [K -> S]  BY <1>1
    <1> QED BY <1>1, <1>3, <1>4

LEMMA CustomerStep ==
    ASSUME IInv, NEW t \in Receipts, Pay(t) \/ Refuse(t)
    PROVE  IInv'
    <1>1. UNCHANGED <<pay, row, pc, kills, ledger>>  BY DEF Pay, Refuse
    <1>2. money' \in [Receipts -> {"none", "moved", "refused"}]
      <2>1. money' = [money EXCEPT ![t] = "moved"] \/ money' = [money EXCEPT ![t] = "refused"]
        BY Zenon DEF Pay, Refuse
      <2>2. money \in [Receipts -> {"none", "moved", "refused"}]  BY DEF IInv, TypeOK
      <2> QED BY <2>1, <2>2
    <1> QED BY <1>1, <1>2, QuietKeeps DEF IInv, TypeOK

LEMMA RefusalStep ==
    ASSUME IInv, NEW w \in Workers, ApplyRefusal(w)
    PROVE  IInv'
    <1> DEFINE t == Receipt(w[1])
    <1>1. t \in Receipts  BY DEF Workers, Deliveries, Receipt
    <1>2. prompt' \in [Receipts -> {"none", "pending", "completed", "failed"}]
      <2>1. prompt \in [Receipts -> {"none", "pending", "completed", "failed"}]
        BY DEF IInv, TypeOK
      <2>2. prompt' = [prompt EXCEPT ![t] = IF prompt[t] = "pending" THEN "failed" ELSE prompt[t]]
        BY DEF ApplyRefusal
      <2> QED BY <1>1, <2>1, <2>2
    <1>3. pc' \in [Workers -> {"idle", "acked", "start", "passed", "done"}]
      BY DEF IInv, TypeOK, ApplyRefusal
    <1>4. UNCHANGED <<pay, money, row, kills, paid, spine, booked, stamp, owed, queue>>
      BY DEF ApplyRefusal
    <1>5. \A u \in Receipts : prompt'[u] = "pending" => prompt[u] = "pending"
      <2>1. prompt' = [prompt EXCEPT ![t] = IF prompt[t] = "pending" THEN "failed" ELSE prompt[t]]
        BY DEF ApplyRefusal
      <2>2. prompt \in [Receipts -> {"none", "pending", "completed", "failed"}]
        BY DEF IInv, TypeOK
      <2>3. CASE prompt[t] = "pending"  BY <1>1, <2>1, <2>2, <2>3
      <2>4. CASE prompt[t] # "pending"  BY <1>1, <2>1, <2>2, <2>4
      <2> QED BY <2>3, <2>4
    <1> QED BY <1>2, <1>3, <1>4, <1>5 DEF IInv, TypeOK, KeyedOnce, PendingIsFresh

\* A handler of a confirmation commits.
LEMMA ConfirmationStep ==
    ASSUME IInv, NEW w \in Workers, ApplyConfirmation(w)
    PROVE  IInv'
    <1> DEFINE t == Receipt(w[1])
               added == FromPaybill(t)
    <1>1. t \in Receipts  BY DEF Workers, Deliveries, Receipt
    <1>2. TypeOK /\ KeyedOnce /\ PendingIsFresh  BY DEF IInv
    <1>3. Fits(t, added) /\ added["unreceipted"] = 0  BY <1>1, <1>2, HandlersFit, PaybillReceipted
    <1>4. Add(t, added)  BY DEF ApplyConfirmation
    <1>5. UNCHANGED <<pay, money, row, kills, prompt>>  BY DEF ApplyConfirmation
    <1>6. paid' \in [Receipts -> {"none", "paybill", "prompt"}]
      BY <1>1, <1>2 DEF TypeOK, ApplyConfirmation, Recorded
    <1>7. pc' \in [Workers -> {"idle", "acked", "start", "passed", "done"}]
      BY <1>2 DEF TypeOK, ApplyConfirmation
    <1>8. spine' \in [Receipts -> {"received", "allocated", "unrouted"}]
      <2>1. MarkSpine(t, "allocated") \/ UNCHANGED spine  BY DEF ApplyConfirmation
      <2> QED BY <1>2, <2>1, MarkType DEF TypeOK
    <1>9. /\ queue' \in [Receipts -> [{"receipt", "checkout"} -> {"none", "open", "resolved"}]]
          /\ \A u \in Receipts : queue'[u]["checkout"] = queue[u]["checkout"]
      <2>1. File(t, "receipt") \/ UNCHANGED queue  BY DEF ApplyConfirmation
      <2>2. CASE File(t, "receipt")  BY <1>1, <1>2, <2>2, FileType
      <2>3. CASE UNCHANGED queue  BY <1>2, <2>3 DEF TypeOK
      <2> QED BY <2>1, <2>2, <2>3
    <1> HIDE DEF added, t
    <1>10. /\ booked' \in [Receipts -> [Ledgers -> Nat]] /\ owed' \in Nat
           /\ stamp' \in [Instalments -> Receipts \cup {None}] /\ KeyedOnce'
           /\ \A u \in Receipts : u # t => booked'[u] = booked[u]
           /\ \A l \in Ledgers : booked'[t][l] = booked[t][l] + added[l]
      BY <1>1, <1>2, <1>3, <1>4, AddKeeps
    <1>11. TypeOK'  BY <1>2, <1>5, <1>6, <1>7, <1>8, <1>9, <1>10 DEF TypeOK
    <1>12. PendingIsFresh'
      <2> SUFFICES ASSUME NEW u \in Receipts, prompt'[u] = "pending"
                   PROVE  booked'[u]["unreceipted"] = 0 /\ queue'[u]["checkout"] = "none"
        BY DEF PendingIsFresh
      <2>1. booked[u]["unreceipted"] = 0 /\ queue[u]["checkout"] = "none"
        BY <1>2, <1>5 DEF PendingIsFresh
      <2>2. booked'[u]["unreceipted"] = 0
        <3>1. CASE u = t  BY <1>3, <1>10, <2>1, <3>1 DEF Ledgers
        <3>2. CASE u # t  BY <1>10, <2>1, <3>2
        <3> QED BY <3>1, <3>2
      <2> QED BY <1>9, <2>1, <2>2
    <1> QED BY <1>10, <1>11, <1>12 DEF IInv

\* A handler of an STK result commits; the prompt is not pending any more.
LEMMA ResultStep ==
    ASSUME IInv, NEW w \in Workers, ApplyResult(w)
    PROVE  IInv'
    <1> DEFINE t == Receipt(w[1])
               added == FromPrompt(t)
    <1>1. t \in Receipts  BY DEF Workers, Deliveries, Receipt
    <1>2. TypeOK /\ KeyedOnce /\ PendingIsFresh  BY DEF IInv
    <1>3. Fits(t, added)  BY <1>1, <1>2, HandlersFit
    <1>4. Add(t, added)  BY DEF ApplyResult
    <1>5. UNCHANGED <<pay, money, row, kills>>  BY DEF ApplyResult
    <1>6. /\ paid' \in [Receipts -> {"none", "paybill", "prompt"}]
          /\ prompt' \in [Receipts -> {"none", "pending", "completed", "failed"}]
      BY <1>1, <1>2 DEF TypeOK, ApplyResult
    <1>7. pc' \in [Workers -> {"idle", "acked", "start", "passed", "done"}]
      BY <1>2 DEF TypeOK, ApplyResult
    <1>8. spine' \in [Receipts -> {"received", "allocated", "unrouted"}]
      <2>1. MarkSpine(t, "allocated") \/ MarkSpine(t, "unrouted") \/ UNCHANGED spine
        BY Zenon DEF ApplyResult
      <2> QED BY <1>2, <2>1, MarkType DEF TypeOK
    <1>9. /\ queue' \in [Receipts -> [{"receipt", "checkout"} -> {"none", "open", "resolved"}]]
          /\ \A u \in Receipts : queue'[u]["checkout"] = queue[u]["checkout"]
      <2>1. File(t, "receipt") \/ UNCHANGED queue  BY DEF ApplyResult
      <2>2. CASE File(t, "receipt")  BY <1>1, <1>2, <2>2, FileType
      <2>3. CASE UNCHANGED queue  BY <1>2, <2>3 DEF TypeOK
      <2> QED BY <2>1, <2>2, <2>3
    <1>10. prompt'[t] = "completed" /\ \A u \in Receipts : u # t => prompt'[u] = prompt[u]
      BY <1>1, <1>2 DEF TypeOK, ApplyResult
    <1> HIDE DEF added, t
    <1>11. /\ booked' \in [Receipts -> [Ledgers -> Nat]] /\ owed' \in Nat
           /\ stamp' \in [Instalments -> Receipts \cup {None}] /\ KeyedOnce'
           /\ \A u \in Receipts : u # t => booked'[u] = booked[u]
      BY <1>1, <1>2, <1>3, <1>4, AddKeeps
    <1>12. TypeOK'  BY <1>2, <1>5, <1>6, <1>7, <1>8, <1>9, <1>11 DEF TypeOK
    <1>13. PendingIsFresh'  BY <1>2, <1>9, <1>10, <1>11 DEF PendingIsFresh
    <1> QED BY <1>11, <1>12, <1>13 DEF IInv

\* The ledgers of a receipt that is reconciled or resolved by hand.
LEMMA ReconcileStep ==
    ASSUME IInv, NEW t \in Receipts, Reconcile(t)
    PROVE  IInv'
    <1> DEFINE added == [Nothing EXCEPT !["unreceipted"] = Amount[t]]
    <1>1. TypeOK /\ KeyedOnce /\ PendingIsFresh  BY DEF IInv
    <1>2. prompt[t] = "pending" /\ booked[t]["unreceipted"] = 0  BY <1>1 DEF Reconcile, PendingIsFresh
    <1>3. Amount[t] \in Nat /\ owed \in Nat /\ booked[t] \in [Ledgers -> Nat]
      BY <1>1, PaymentsAssumption DEF TypeOK
    <1>4. Fits(t, added)
      <2>1. added \in [Ledgers -> Nat]  BY <1>3 DEF Nothing
      <2>2. \A k \in Ledgers : added[k] = IF k = "unreceipted" THEN Amount[t] ELSE 0
        BY DEF Nothing
      <2>3. added["loan"] = 0  BY <2>2 DEF Ledgers
      <2> HIDE DEF added
      <2>4. \A k \in Keyed : booked[t][k] <= Amount[t] => booked[t][k] + added[k] <= Amount[t]
        <3> SUFFICES ASSUME NEW k \in Keyed, booked[t][k] <= Amount[t]
                     PROVE  booked[t][k] + added[k] <= Amount[t]
          OBVIOUS
        <3>1. k \in Ledgers  BY DEF Keyed, Ledgers
        <3>2. booked[t][k] \in Nat  BY <1>3, <3>1
        <3>3. CASE k = "unreceipted"  BY <1>2, <1>3, <2>2, <3>1, <3>3
        <3>4. CASE k # "unreceipted"  BY <2>2, <3>1, <3>2, <3>4
        <3> QED BY <3>3, <3>4
      <2> QED BY <1>3, <2>1, <2>3, <2>4 DEF Fits
    <1>5. UNCHANGED <<pay, money, row, pc, kills, paid, spine>>  BY DEF Reconcile
    <1>6. /\ prompt' \in [Receipts -> {"none", "pending", "completed", "failed"}]
          /\ prompt'[t] # "pending"
          /\ \A u \in Receipts : u # t => prompt'[u] = prompt[u]
      <2>1. prompt \in [Receipts -> {"none", "pending", "completed", "failed"}]
        BY <1>1 DEF TypeOK
      <2>2. prompt' = [prompt EXCEPT ![t] = "completed"] \/ prompt' = [prompt EXCEPT ![t] = "failed"]
        BY DEF Reconcile
      <2> QED BY <2>1, <2>2
    <1>7. /\ queue' \in [Receipts -> [{"receipt", "checkout"} -> {"none", "open", "resolved"}]]
          /\ \A u \in Receipts : u # t => queue'[u]["checkout"] = queue[u]["checkout"]
      <2>1. File(t, "checkout") \/ UNCHANGED queue  BY DEF Reconcile
      <2>2. CASE File(t, "checkout")  BY <1>1, <2>2, FileType
      <2>3. CASE UNCHANGED queue  BY <1>1, <2>3 DEF TypeOK
      <2> QED BY <2>1, <2>2, <2>3
    <1>8. /\ booked' \in [Receipts -> [Ledgers -> Nat]] /\ owed' \in Nat
          /\ stamp' \in [Instalments -> Receipts \cup {None}] /\ KeyedOnce'
          /\ \A u \in Receipts : u # t => booked'[u] = booked[u]
      <2>1. Add(t, added) \/ UNCHANGED <<booked, owed, stamp>>  BY DEF Reconcile
      <2> HIDE DEF added
      <2>2. CASE Add(t, added)  BY <1>1, <1>4, <2>2, AddKeeps
      <2>3. CASE UNCHANGED <<booked, owed, stamp>>  BY <1>1, <2>3 DEF TypeOK, KeyedOnce
      <2> QED BY <2>1, <2>2, <2>3
    <1>9. TypeOK'  BY <1>1, <1>5, <1>6, <1>7, <1>8 DEF TypeOK
    <1>10. PendingIsFresh'  BY <1>1, <1>6, <1>7, <1>8 DEF PendingIsFresh
    <1> QED BY <1>8, <1>9, <1>10 DEF IInv

LEMMA SweepType ==
    ASSUME TypeOK, Sweep
    PROVE  /\ queue' \in [Receipts -> [{"receipt", "checkout"} -> {"none", "open", "resolved"}]]
           /\ \A u \in Receipts : queue'[u]["checkout"] = queue[u]["checkout"]
    <1>1. queue \in [Receipts -> [{"receipt", "checkout"} -> {"none", "open", "resolved"}]]
      BY DEF TypeOK
    <1>2. queue' = [t \in Receipts |-> IF Orphan(t) THEN [queue[t] EXCEPT !["receipt"] = "open"]
                                                    ELSE queue[t]]
      BY DEF Sweep
    <1> HIDE DEF Orphan
    <1> QED BY <1>1, <1>2

LEMMA SweepStep ==
    ASSUME IInv, Sweep
    PROVE  IInv'
    <1>1. TypeOK /\ KeyedOnce /\ PendingIsFresh  BY DEF IInv
    <1>2. /\ queue' \in [Receipts -> [{"receipt", "checkout"} -> {"none", "open", "resolved"}]]
          /\ \A u \in Receipts : queue'[u]["checkout"] = queue[u]["checkout"]
      BY <1>1, SweepType
    <1>3. UNCHANGED <<pay, money, row, pc, kills, prompt, paid, spine, booked, stamp, owed>>
      BY DEF Sweep
    <1> QED BY <1>1, <1>2, <1>3 DEF IInv, TypeOK, KeyedOnce, PendingIsFresh

LEMMA DismissStep ==
    ASSUME IInv, NEW t \in Receipts, NEW key \in {"receipt", "checkout"}, Dismiss(t, key)
    PROVE  IInv'
    <1>1. TypeOK /\ KeyedOnce /\ PendingIsFresh  BY DEF IInv
    <1>2. queue[t][key] = "open" /\ Resolve(t, key)  BY DEF Dismiss
    <1>3. /\ queue' \in [Receipts -> [{"receipt", "checkout"} -> {"none", "open", "resolved"}]]
          /\ \A u \in Receipts, k \in {"receipt", "checkout"} :
               u # t \/ k # key => queue'[u][k] = queue[u][k]
      BY <1>1, <1>2, FileType
    <1>4. UNCHANGED <<pay, money, row, pc, kills, prompt, paid, spine, booked, stamp, owed>>
      BY DEF Dismiss
    <1>5. PendingIsFresh'  BY <1>1, <1>2, <1>3, <1>4 DEF PendingIsFresh
    <1>6. TypeOK' /\ KeyedOnce'  BY <1>1, <1>3, <1>4 DEF TypeOK, KeyedOnce
    <1> QED BY <1>5, <1>6 DEF IInv

\* An officer books a queued receipt.
LEMMA AllocateStep ==
    ASSUME IInv, NEW t \in Receipts, NEW key \in {"receipt", "checkout"}, Allocate(t, key)
    PROVE  IInv'
    <1> DEFINE l == IF key = "receipt" THEN "savings" ELSE "unreceipted"
               added == Once(t, l, Amount[t])
    <1>1. TypeOK /\ KeyedOnce /\ PendingIsFresh  BY DEF IInv
    <1>2. queue[t][key] = "open" /\ Resolve(t, key) /\ Add(t, added)  BY DEF Allocate
    <1>3. l \in Ledgers \ {"loan"}  BY DEF Ledgers
    <1>4. Fits(t, added)  BY <1>1, <1>3, OnceFits
    <1>5. key = "receipt" => added["unreceipted"] = 0  BY DEF Once, Nothing, Ledgers
    <1>6. UNCHANGED <<pay, money, row, pc, kills, prompt, paid>>  BY DEF Allocate
    <1>7. spine' \in [Receipts -> {"received", "allocated", "unrouted"}]
      <2>1. MarkSpine(t, "allocated") \/ UNCHANGED spine  BY DEF Allocate
      <2> QED BY <1>1, <2>1, MarkType DEF TypeOK
    <1>8. /\ queue' \in [Receipts -> [{"receipt", "checkout"} -> {"none", "open", "resolved"}]]
          /\ \A u \in Receipts, k \in {"receipt", "checkout"} :
               u # t \/ k # key => queue'[u][k] = queue[u][k]
      BY <1>1, <1>2, FileType
    <1> HIDE DEF added, l
    <1>9. /\ booked' \in [Receipts -> [Ledgers -> Nat]] /\ owed' \in Nat
          /\ stamp' \in [Instalments -> Receipts \cup {None}] /\ KeyedOnce'
          /\ \A u \in Receipts : u # t => booked'[u] = booked[u]
          /\ \A k \in Ledgers : booked'[t][k] = booked[t][k] + added[k]
      BY <1>1, <1>2, <1>4, AddKeeps
    <1>10. TypeOK'  BY <1>1, <1>6, <1>7, <1>8, <1>9 DEF TypeOK
    <1>11. PendingIsFresh'
      <2> SUFFICES ASSUME NEW u \in Receipts, prompt'[u] = "pending"
                   PROVE  booked'[u]["unreceipted"] = 0 /\ queue'[u]["checkout"] = "none"
        BY DEF PendingIsFresh
      <2>1. booked[u]["unreceipted"] = 0 /\ queue[u]["checkout"] = "none"
        BY <1>1, <1>6 DEF PendingIsFresh
      <2>2. CASE u # t  BY <1>8, <1>9, <2>1, <2>2
      <2>3. CASE u = t
        <3>1. key = "receipt"  BY <1>2, <2>1, <2>3
        <3>2. booked'[u]["unreceipted"] = 0  BY <1>5, <1>9, <2>1, <2>3, <3>1 DEF Ledgers
        <3> QED BY <1>8, <2>1, <2>3, <3>1, <3>2
      <2> QED BY <2>2, <2>3
    <1> QED BY <1>9, <1>10, <1>11 DEF IInv

LEMMA ActivateStep ==
    ASSUME IInv, NEW t \in Receipts, StaffActivate(t)
    PROVE  IInv'
    <1> DEFINE added == Once(t, "plan", Amount[t])
    <1>1. TypeOK /\ KeyedOnce /\ PendingIsFresh  BY DEF IInv
    <1>2. Resolve(t, "receipt") /\ Add(t, added) /\ MarkSpine(t, "allocated")  BY DEF StaffActivate
    <1>3. Fits(t, added)  BY <1>1, OnceFits DEF Ledgers
    <1>4. added["unreceipted"] = 0  BY DEF Once, Nothing, Ledgers
    <1>5. UNCHANGED <<pay, money, row, pc, kills, prompt>>  BY DEF StaffActivate
    <1>6. paid' \in [Receipts -> {"none", "paybill", "prompt"}]
      BY <1>1 DEF TypeOK, StaffActivate
    <1>7. spine' \in [Receipts -> {"received", "allocated", "unrouted"}]  BY <1>1, <1>2, MarkType
    <1>8. /\ queue' \in [Receipts -> [{"receipt", "checkout"} -> {"none", "open", "resolved"}]]
          /\ \A u \in Receipts : queue'[u]["checkout"] = queue[u]["checkout"]
      BY <1>1, <1>2, FileType
    <1> HIDE DEF added
    <1>9. /\ booked' \in [Receipts -> [Ledgers -> Nat]] /\ owed' \in Nat
          /\ stamp' \in [Instalments -> Receipts \cup {None}] /\ KeyedOnce'
          /\ \A u \in Receipts : u # t => booked'[u] = booked[u]
          /\ \A k \in Ledgers : booked'[t][k] = booked[t][k] + added[k]
      BY <1>1, <1>2, <1>3, AddKeeps
    <1>10. TypeOK'  BY <1>1, <1>5, <1>6, <1>7, <1>8, <1>9 DEF TypeOK
    <1>11. PendingIsFresh'
      <2> SUFFICES ASSUME NEW u \in Receipts, prompt'[u] = "pending"
                   PROVE  booked'[u]["unreceipted"] = 0 /\ queue'[u]["checkout"] = "none"
        BY DEF PendingIsFresh
      <2>1. booked[u]["unreceipted"] = 0 /\ queue[u]["checkout"] = "none"
        BY <1>1, <1>5 DEF PendingIsFresh
      <2>2. CASE u # t  BY <1>8, <1>9, <2>1, <2>2
      <2>3. CASE u = t  BY <1>4, <1>8, <1>9, <2>1, <2>3 DEF Ledgers
      <2> QED BY <2>2, <2>3
    <1> QED BY <1>9, <1>10, <1>11 DEF IInv

LEMMA StepIInv == IInv /\ [Next]_vars => IInv'
    <1> SUFFICES ASSUME IInv, [Next]_vars PROVE IInv'  OBVIOUS
    <1>1. CASE Customer  BY <1>1, CustomerStep DEF Customer
    <1>2. CASE Callback  BY <1>2, DeliveryStep DEF Callback
    <1>3. CASE Officers  BY <1>3, ActivateStep, AllocateStep, DismissStep DEF Officers
    <1>4. CASE Sweep  BY <1>4, SweepStep
    <1>5. CASE \E d \in Deliveries : LogCallback(d) \/ Replay(d)  BY <1>5, DeliveryStep
    <1>6. CASE \E w \in Workers : Handle(w) \/ Kill(w)
      BY <1>6, QuietWorkerStep, RefusalStep, ConfirmationStep, ResultStep DEF Handle
    <1>7. CASE \E t \in Receipts : Reconcile(t)  BY <1>7, ReconcileStep
    <1>8. CASE UNCHANGED vars
      BY <1>8 DEF vars, IInv, TypeOK, KeyedOnce, PendingIsFresh
    <1> QED BY <1>1, <1>2, <1>3, <1>4, <1>5, <1>6, <1>7, <1>8 DEF Next

-------------------------------------------------------------------------------
(* The theorems *)

\* Every variable keeps its type.
THEOREM TypeCorrect == Spec => []TypeOK
    <1>1. IInv => TypeOK  BY DEF IInv
    <1> QED BY <1>1, InitIInv, StepIInv, PTL DEF Spec

\* The keyed ledgers hold no more of a receipt than was paid, whatever it is for, however
\* often its callbacks are delivered and whichever handlers overlap.
THEOREM KeyedLedgersOnce == Spec => []KeyedOnce
    <1>1. IInv => KeyedOnce  BY DEF IInv
    <1> QED BY <1>1, InitIInv, StepIInv, PTL DEF Spec

-------------------------------------------------------------------------------
(* Decisions *)

Resolved == \A t \in Receipts, key \in {"receipt", "checkout"} :
              queue[t][key] = "resolved" => queue'[t][key] = "resolved"
Allocated == \A t \in Receipts : spine[t] = "allocated" => spine'[t] = "allocated"

LEMMA MarkStands ==
    ASSUME TypeOK, NEW t \in Receipts, NEW to \in {"allocated", "unrouted"},
           MarkSpine(t, to) \/ UNCHANGED spine
    PROVE  Allocated
    <1>1. spine \in [Receipts -> {"received", "allocated", "unrouted"}]  BY DEF TypeOK
    <1>2. CASE UNCHANGED spine  BY <1>2 DEF Allocated
    <1>3. CASE MarkSpine(t, to)
      <2>1. \A u \in Receipts : u # t => spine'[u] = spine[u]  BY <1>1, <1>3 DEF MarkSpine
      <2>2. spine[t] = "allocated" => spine'[t] = "allocated"  BY <1>1, <1>3 DEF MarkSpine
      <2> QED BY <2>1, <2>2 DEF Allocated
    <1> QED BY <1>2, <1>3

LEMMA FileStands ==
    ASSUME TypeOK, NEW t \in Receipts, NEW key \in {"receipt", "checkout"},
           File(t, key) \/ Resolve(t, key) \/ UNCHANGED queue
    PROVE  Resolved
    <1>1. queue \in [Receipts -> [{"receipt", "checkout"} -> {"none", "open", "resolved"}]]
      BY DEF TypeOK
    <1>2. CASE UNCHANGED queue  BY <1>2 DEF Resolved
    <1>3. CASE File(t, key) \/ Resolve(t, key)
      <2>1. \A u \in Receipts, k \in {"receipt", "checkout"} :
               u # t \/ k # key => queue'[u][k] = queue[u][k]
        BY <1>3, FileType
      <2>2. queue[t][key] = "resolved" => queue'[t][key] = "resolved"
        BY <1>1, <1>3 DEF File, Resolve
      <2> QED BY <2>1, <2>2 DEF Resolved
    <1> QED BY <1>2, <1>3

\* The sweep files a receipt only if the queue does not know it yet.
LEMMA SweepStands ==
    ASSUME TypeOK, Sweep
    PROVE  Resolved
    <1>1. queue' = [t \in Receipts |-> IF Orphan(t) THEN [queue[t] EXCEPT !["receipt"] = "open"]
                                                    ELSE queue[t]]
      BY DEF Sweep
    <1>2. queue \in [Receipts -> [{"receipt", "checkout"} -> {"none", "open", "resolved"}]]
      BY DEF TypeOK
    <1>3. SUFFICES ASSUME NEW t \in Receipts, NEW key \in {"receipt", "checkout"},
                          queue[t][key] = "resolved"
                   PROVE  queue'[t][key] = "resolved"
      BY DEF Resolved
    <1>4. CASE Orphan(t)
      <2>1. queue[t]["receipt"] = "none"  BY <1>4 DEF Orphan
      <2>2. key # "receipt"  BY <1>3, <2>1
      <2> QED BY <1>1, <1>2, <1>3, <1>4, <2>2
    <1>5. CASE ~ Orphan(t)  BY <1>1, <1>3, <1>5
    <1> QED BY <1>4, <1>5

LEMMA DecisionStep == TypeOK /\ [Next]_vars => Allocated /\ Resolved
    <1> SUFFICES ASSUME TypeOK, [Next]_vars PROVE Allocated /\ Resolved  OBVIOUS
    <1>1. UNCHANGED <<spine, queue>> => Allocated /\ Resolved  BY DEF Allocated, Resolved
    <1>2. CASE Customer  BY <1>1, <1>2 DEF Customer, Pay, Refuse, ledger
    <1>3. CASE Callback  BY <1>1, <1>3 DEF Callback, DeliverConfirmation, DeliverResult, ledger
    <1>4. CASE Officers
      <2>1. ASSUME NEW t \in Receipts, StaffActivate(t) PROVE Allocated /\ Resolved
        BY <2>1, MarkStands, FileStands DEF StaffActivate
      <2>2. ASSUME NEW t \in Receipts, NEW key \in {"receipt", "checkout"}, Allocate(t, key)
            PROVE  Allocated /\ Resolved
        <3>1. MarkSpine(t, "allocated") \/ UNCHANGED spine  BY <2>2 DEF Allocate
        <3>2. Resolve(t, key)  BY <2>2 DEF Allocate
        <3> QED BY <3>1, <3>2, MarkStands, FileStands
      <2>3. ASSUME NEW t \in Receipts, NEW key \in {"receipt", "checkout"}, Dismiss(t, key)
            PROVE  Allocated /\ Resolved
        <3>1. UNCHANGED spine /\ Resolve(t, key)  BY <2>3 DEF Dismiss
        <3> QED BY <3>1, MarkStands, FileStands
      <2> QED BY <1>4, <2>1, <2>2, <2>3 DEF Officers
    <1>5. CASE Sweep
      <2>1. UNCHANGED spine  BY <1>5 DEF Sweep
      <2> QED BY <1>5, <2>1, SweepStands DEF Allocated
    <1>6. CASE \E d \in Deliveries : LogCallback(d) \/ Replay(d)
      BY <1>1, <1>6 DEF LogCallback, Replay, ledger
    <1>7. ASSUME NEW w \in Workers, Handle(w) \/ Kill(w) PROVE Allocated /\ Resolved
      <2> DEFINE t == Receipt(w[1])
      <2>1. t \in Receipts  BY DEF Workers, Deliveries, Receipt
      <2>2. CASE CheckConfirmation(w) \/ CheckResult(w) \/ Abort(w) \/ Finish(w) \/ Kill(w)
        <3>1. UNCHANGED ledger
          BY <2>2 DEF CheckConfirmation, CheckResult, Abort, Finish, Kill
        <3> QED BY <1>1, <3>1 DEF ledger
      <2>3. CASE ApplyRefusal(w)  BY <1>1, <2>3 DEF ApplyRefusal
      <2>4. CASE ApplyConfirmation(w)
        <3>1. MarkSpine(t, "allocated") \/ UNCHANGED spine  BY <2>4 DEF ApplyConfirmation
        <3>2. File(t, "receipt") \/ UNCHANGED queue  BY <2>4 DEF ApplyConfirmation
        <3> QED BY <2>1, <3>1, <3>2, MarkStands, FileStands
      <2>5. CASE ApplyResult(w)
        <3>1. MarkSpine(t, "allocated") \/ MarkSpine(t, "unrouted") \/ UNCHANGED spine
          BY <2>5, Zenon DEF ApplyResult
        <3>2. File(t, "receipt") \/ UNCHANGED queue  BY <2>5 DEF ApplyResult
        <3> QED BY <2>1, <3>1, <3>2, MarkStands, FileStands
      <2> QED BY <1>7, <2>2, <2>3, <2>4, <2>5 DEF Handle
    <1>8. ASSUME NEW t \in Receipts, Reconcile(t) PROVE Allocated /\ Resolved
      <2>1. UNCHANGED spine /\ (File(t, "checkout") \/ UNCHANGED queue)  BY <1>8 DEF Reconcile
      <2> QED BY <2>1, MarkStands, FileStands
    <1>9. CASE UNCHANGED vars  BY <1>1, <1>9 DEF vars
    <1> QED BY <1>2, <1>3, <1>4, <1>5, <1>6, <1>7, <1>8, <1>9 DEF Next

\* No replay, sweep or late handler reopens what an officer resolved or takes an allocation
\* back, in any scenario and under every fault.
THEOREM DecisionsAreFinal == Spec => DecisionsStand
    <1>1. TypeOK /\ [Next]_vars =>
            [\A t \in Receipts :
               /\ spine[t] = "allocated" => spine'[t] = "allocated"
               /\ \A key \in {"receipt", "checkout"} :
                    queue[t][key] = "resolved" => queue'[t][key] = "resolved"]_vars
      BY DecisionStep DEF Allocated, Resolved
    <1> QED BY <1>1, TypeCorrect, PTL DEF Spec, DecisionsStand

-------------------------------------------------------------------------------
(* Payments whose place in the ledgers is decided by one check alone.      *)

\* A payment that may go to the loan.
Lender(t) == pay[t].purpose = "loan" \/ (pay[t].notified /\ pay[t].route = "loan")

\* Only what Safaricom reports is delivered and handled.
Reported(d) == IF Kind(d) = "c2b" THEN pay[Receipt(d)].notified ELSE Prompted(Receipt(d))
Starts ==
    /\ \A d \in Deliveries : row[d] # "none" => Reported(d)
    /\ \A w \in Workers : pc[w] # "idle" => Reported(w[1])

\* No two handlers of one kind are past their check.
Exclusive(t, kind) ==
    \A v, w \in Workers :
        (/\ pc[v] = "passed" /\ pc[w] = "passed"
         /\ Receipt(v[1]) = t /\ Receipt(w[1]) = t
         /\ Kind(v[1]) = kind /\ Kind(w[1]) = kind)
        => v = w

\* The check of a result holds until the handler commits; so does the check of a confirmation
\* that repays the loan.
Holding ==
    \A t \in Receipts :
        /\ Exclusive(t, "stk")
        /\ Open(t, {"stk"}) => prompt[t] # "completed"
        /\ Lender(t) => Exclusive(t, "c2b")
        /\ Lender(t) /\ Open(t, {"c2b"}) => paid[t] = "none"

\* The payments row and the queue of a receipt.
Record(t) ==
    /\ paid[t] = "prompt" => prompt[t] = "completed"
    /\ paid[t] = "paybill" => pay[t].notified
    /\ paid[t] = "none" =>
         /\ spine[t] = "received"
         /\ booked[t]["loan"] = 0
         /\ booked[t]["savings"] > 0 => pay[t].purpose = "deposit" /\ pay[t].route = "nowhere"
         /\ queue[t]["receipt"] # "none" => pay[t].notified /\ pay[t].route = "nowhere"
    /\ queue[t]["receipt"] # "none" => ~ Lender(t)
    /\ paid[t] = "paybill" /\ pay[t].route = "loan" => booked[t]["savings"] > 0 \/ Stamped(t)
    /\ queue[t]["checkout"] # "none" => pay[t].purpose = "stranger"
    /\ booked[t]["unreceipted"] > 0 \/ queue[t]["checkout"] # "none" =>
         /\ paid[t] = "none" /\ prompt[t] = "completed"
         /\ ~ pay[t].notified /\ pay[t].purpose # "deposit"

\* The ledgers of a receipt: all of it or nothing, in one place, as the spine says.
Books(t) ==
    /\ booked[t]["welfare"] = 0 /\ booked[t]["campaign"] = 0 /\ booked[t]["invoice"] = 0
    /\ booked[t]["plan"] \in {0, Amount[t]}
    /\ booked[t]["unreceipted"] \in {0, Amount[t]}
    /\ booked[t]["savings"] + booked[t]["loan"] \in {0, Amount[t]}
    /\ pay[t].purpose \in {"plan", "unsold"} =>
         booked[t]["savings"] = 0 /\ booked[t]["loan"] = 0 /\ booked[t]["unreceipted"] = 0
    /\ pay[t].purpose \notin {"plan", "unsold"} => booked[t]["plan"] = 0
    /\ ~ Lender(t) => booked[t]["loan"] = 0
    /\ paid[t] # "none" =>
         IF spine[t] = "allocated"
         THEN booked[t]["savings"] + booked[t]["loan"] + booked[t]["plan"] = Amount[t]
         ELSE booked[t]["savings"] = 0 /\ booked[t]["loan"] = 0

Kept(t) == Record(t) /\ Books(t)

\* The instalments that carry a stamp are paid.
StampsInOrder ==
    /\ owed <= Debt
    /\ \A i \in Instalments : stamp[i] # None => i < Oldest \/ owed = 0

PlacedInv ==
    /\ TypeOK /\ AllPlain /\ Starts /\ Holding /\ StampsInOrder
    /\ \A t \in Receipts : Kept(t)

\* The product and the purpose are what the row of the scenario says they are.
LEMMA Paying ==
    ASSUME TypeOK, NEW t \in Receipts
    PROVE  /\ pay[t] \in Payments
           /\ Amount[t] \in Nat \ {0}
           /\ \A l \in Ledgers : booked[t][l] \in Nat
    <1>1. pay \in [Receipts -> Payments]  BY PaymentsAssumption DEF TypeOK
    <1> QED BY <1>1, PaymentsAssumption DEF TypeOK

LEMMA WorkerOf ==
    ASSUME NEW w \in Workers
    PROVE  /\ w[1] \in Deliveries /\ Receipt(w[1]) \in Receipts
           /\ Kind(w[1]) \in {"c2b", "stk"}
    BY DEF Workers, Deliveries, Receipt, Kind

LEMMA InitPlaced ==
    ASSUME AllPlain, Init
    PROVE  PlacedInv
    <1>1. TypeOK  BY InitIInv DEF IInv
    <1>2. AllPlain  OBVIOUS
    <1>3. Starts  BY WorkerOf DEF Init, Starts
    <1>4. Holding
      <2>1. \A w \in Workers : pc[w] = "idle"  BY DEF Init
      <2> QED BY <2>1 DEF Holding, Exclusive, Open
    <1>5. StampsInOrder  BY PaymentsAssumption DEF Init, StampsInOrder
    <1>6. ASSUME NEW t \in Receipts PROVE Kept(t)
      <2>1. /\ paid[t] = "none" /\ spine[t] = "received"
            /\ queue[t]["receipt"] = "none" /\ queue[t]["checkout"] = "none"
            /\ \A l \in Ledgers : booked[t][l] = 0
        BY DEF Init, Nothing
      <2> QED BY <2>1, <1>1, Paying DEF Kept, Record, Books, Ledgers
    <1> QED BY <1>1, <1>2, <1>3, <1>4, <1>5, <1>6 DEF PlacedInv

-------------------------------------------------------------------------------
(* Who is past the check.                                                  *)

LEMMA StartsStep ==
    ASSUME TypeOK, Starts, [Next]_vars
    PROVE  Starts' /\ pay' = pay
    <1> USE DEF Starts, Reported, Prompted
    <1>1. CASE Customer  BY <1>1 DEF Customer, Pay, Refuse
    <1>2. ASSUME NEW d \in Deliveries, DeliverConfirmation(d) \/ DeliverResult(d)
          PROVE  Starts' /\ pay' = pay
      <2>1. Reported(d) /\ pay' = pay
        BY <1>2 DEF DeliverConfirmation, DeliverResult
      <2>2. \A e \in Deliveries : e # d => row'[e] = row[e]
        BY <1>2 DEF TypeOK, DeliverConfirmation, DeliverResult
      <2>3. \A w \in Workers : w # <<d, "live">> => pc'[w] = pc[w]
        BY <1>2 DEF TypeOK, DeliverConfirmation, DeliverResult
      <2> QED BY <2>1, <2>2, <2>3
    <1>3. CASE Officers
      BY <1>3 DEF Officers, StaffActivate, Allocate, Dismiss
    <1>4. CASE Sweep  BY <1>4 DEF Sweep
    <1>5. ASSUME NEW d \in Deliveries, LogCallback(d) \/ Replay(d)
          PROVE  Starts' /\ pay' = pay
      <2>0. <<d, "live">> \in Workers  BY DEF Workers
      <2>1. Reported(d) /\ pay' = pay
        BY <1>5, <2>0 DEF LogCallback, Replay
      <2>2. \A e \in Deliveries : e # d => row'[e] = row[e]
        BY <1>5 DEF TypeOK, LogCallback, Replay
      <2>3. \A w \in Workers : w[1] # d => pc'[w] = pc[w]
        BY <1>5 DEF TypeOK, LogCallback, Replay
      <2> QED BY <2>1, <2>2, <2>3
    <1>6. ASSUME NEW w \in Workers, Handle(w) \/ Kill(w)
          PROVE  Starts' /\ pay' = pay
      <2>1. pc[w] # "idle" /\ pay' = pay
        BY <1>6 DEF Handle, Kill, CheckConfirmation, CheckResult, ApplyRefusal,
                    ApplyConfirmation, ApplyResult, Abort, Finish
      <2>2. Reported(w[1]) /\ w[1] \in Deliveries  BY <2>1, WorkerOf
      <2>3. \A e \in Deliveries : e # w[1] => row'[e] = row[e]
        BY <1>6 DEF TypeOK, Handle, Kill, CheckConfirmation, CheckResult, ApplyRefusal,
                    ApplyConfirmation, ApplyResult, Abort, Finish
      <2>4. \A v \in Workers : v # w => pc'[v] = pc[v]
        BY <1>6 DEF TypeOK, Handle, Kill, CheckConfirmation, CheckResult, ApplyRefusal,
                    ApplyConfirmation, ApplyResult, Abort, Finish
      <2> QED BY <2>1, <2>2, <2>3, <2>4
    <1>7. CASE \E t \in Receipts : Reconcile(t)  BY <1>7 DEF Reconcile
    <1>8. CASE UNCHANGED vars  BY <1>8 DEF vars
    <1> QED BY <1>1, <1>2, <1>3, <1>4, <1>5, <1>6, <1>7, <1>8 DEF Next, Callback

\* A step after which nobody else is past a check, and which writes neither the prompt nor the
\* payments row of a receipt whose handler is.
LEMMA HoldingKept ==
    ASSUME Holding, pay' = pay,
           \A w \in Workers : pc'[w] = "passed" => pc[w] = "passed",
           \A t \in Receipts : /\ Open(t, {"stk"})' => prompt'[t] = prompt[t]
                               /\ Lender(t) /\ Open(t, {"c2b"})' => paid'[t] = paid[t]
    PROVE  Holding'
    <1> SUFFICES ASSUME NEW t \in Receipts
                 PROVE  /\ Exclusive(t, "stk")'
                        /\ Open(t, {"stk"})' => prompt'[t] # "completed"
                        /\ Lender(t) => Exclusive(t, "c2b")'
                        /\ Lender(t) /\ Open(t, {"c2b"})' => paid'[t] = "none"
      BY DEF Holding, Lender
    <1>1. \A k \in {"stk", "c2b"} : Exclusive(t, k) => Exclusive(t, k)'  BY DEF Exclusive
    <1>2. \A k \in {"stk", "c2b"} : Open(t, {k})' => Open(t, {k})  BY DEF Open
    <1> QED BY <1>1, <1>2 DEF Holding

\* The confirmation of a repayment checks alone.
LEMMA LenderConfirmed ==
    ASSUME PlacedInv, NEW w \in Workers, Kind(w[1]) = "c2b", pc[w] # "idle",
           Lender(Receipt(w[1]))
    PROVE  LET p == pay[Receipt(w[1])] IN
           /\ p.notified /\ p.route = "loan" /\ p.purpose = "deposit" /\ ~ p.overlap
           /\ Step <= Amount[Receipt(w[1])]
    <1> DEFINE t == Receipt(w[1])
    <1>1. t \in Receipts /\ Reported(w[1])  BY WorkerOf DEF PlacedInv, Starts
    <1>2. pay[t].notified  BY <1>1 DEF Reported
    <1>3. Plain(pay[t], Amount[t])  BY <1>1 DEF PlacedInv, AllPlain
    <1> QED BY <1>2, <1>3 DEF Plain, Lender

LEMMA ConfirmationHolds ==
    ASSUME PlacedInv, NEW w \in Workers, CheckConfirmation(w)
    PROVE  Holding'
    <1> DEFINE t == Receipt(w[1])
    <1>1. t \in Receipts  BY WorkerOf
    <1>2. UNCHANGED <<pay, prompt, paid>> /\ Kind(w[1]) = "c2b"
      BY DEF CheckConfirmation, ledger
    <1>3. pc' = [pc EXCEPT ![w] = IF paid[t] # "none" THEN "done" ELSE "passed"]
      BY DEF CheckConfirmation
    <1>4. \A v \in Workers : v # w => pc'[v] = pc[v]  BY <1>3 DEF PlacedInv, TypeOK
    <1>5. ASSUME Lender(t), pc'[w] = "passed"
          PROVE  paid[t] = "none" /\ \A v \in Workers : Receipt(v[1]) = t => pc[v] # "passed"
      <2>1. pc[w] = "start" /\ pc \in [Workers -> {"idle", "acked", "start", "passed", "done"}]
        BY DEF CheckConfirmation, PlacedInv, TypeOK
      <2>2. ~ pay[t].overlap  BY <1>2, <1>5, <2>1, LenderConfirmed
      <2>3. ~ Open(t, {"c2b", "stk"})  BY <2>2 DEF CheckConfirmation, MayEnter
      <2>4. paid[t] = "none"  BY <1>3, <1>5, <2>1
      <2> QED BY <2>3, <2>4, WorkerOf DEF Open
    <1> SUFFICES ASSUME NEW u \in Receipts
                 PROVE  /\ Exclusive(u, "stk")'
                        /\ Open(u, {"stk"})' => prompt'[u] # "completed"
                        /\ Lender(u) => Exclusive(u, "c2b")'
                        /\ Lender(u) /\ Open(u, {"c2b"})' => paid'[u] = "none"
      BY <1>2 DEF Holding, Lender
    <1>6. /\ Exclusive(u, "stk") /\ (Open(u, {"stk"}) => prompt[u] # "completed")
          /\ Lender(u) => Exclusive(u, "c2b")
          /\ Lender(u) /\ Open(u, {"c2b"}) => paid[u] = "none"
      BY DEF PlacedInv, Holding
    <1>7. Exclusive(u, "stk")' /\ (Open(u, {"stk"})' => Open(u, {"stk"}))
      BY <1>2, <1>4, <1>6 DEF Exclusive, Open
    <1>8. ASSUME Lender(u) PROVE Exclusive(u, "c2b")'
      <2>1. CASE u = t /\ pc'[w] = "passed"
        BY <1>4, <1>5, <1>8, <2>1 DEF Exclusive
      <2>2. CASE ~ (u = t /\ pc'[w] = "passed")
        BY <1>4, <1>6, <1>8, <2>2 DEF Exclusive
      <2> QED BY <2>1, <2>2
    <1>9. ASSUME Lender(u), Open(u, {"c2b"})' PROVE paid'[u] = "none"
      <2>1. CASE u = t /\ pc'[w] = "passed"  BY <1>2, <1>5, <1>9, <2>1
      <2>2. CASE ~ (u = t /\ pc'[w] = "passed")
        <3>1. Open(u, {"c2b"})  BY <1>4, <1>9, <2>2 DEF Open
        <3> QED BY <1>2, <1>6, <1>9, <3>1
      <2> QED BY <2>1, <2>2
    <1> QED BY <1>2, <1>6, <1>7, <1>8, <1>9

\* A result is checked under the lock of its STK request.
LEMMA ResultHolds ==
    ASSUME PlacedInv, NEW w \in Workers, CheckResult(w)
    PROVE  Holding'
    <1> DEFINE t == Receipt(w[1])
    <1>1. t \in Receipts  BY WorkerOf
    <1>2. UNCHANGED <<pay, prompt, paid>> /\ Kind(w[1]) = "stk"  BY DEF CheckResult, ledger
    <1>3. PICK status \in Existing(t) :
             pc' = [pc EXCEPT ![w] = IF status = "completed" THEN "done" ELSE "passed"]
      BY DEF CheckResult
    <1>4. \A v \in Workers : v # w => pc'[v] = pc[v]  BY <1>3 DEF PlacedInv, TypeOK
    <1>5. pc'[w] = "passed" => prompt[t] # "completed"
      BY <1>3 DEF Existing, PlacedInv, TypeOK
    <1>6. \A v \in Workers : Receipt(v[1]) = t /\ Kind(v[1]) = "stk" => pc[v] # "passed"
      BY DEF CheckResult, Open
    <1> SUFFICES ASSUME NEW u \in Receipts
                 PROVE  /\ Exclusive(u, "stk")'
                        /\ Open(u, {"stk"})' => prompt'[u] # "completed"
                        /\ Lender(u) => Exclusive(u, "c2b")'
                        /\ Lender(u) /\ Open(u, {"c2b"})' => paid'[u] = "none"
      BY <1>2 DEF Holding, Lender
    <1>7. /\ Exclusive(u, "stk") /\ (Open(u, {"stk"}) => prompt[u] # "completed")
          /\ Lender(u) => Exclusive(u, "c2b")
          /\ Lender(u) /\ Open(u, {"c2b"}) => paid[u] = "none"
      BY DEF PlacedInv, Holding
    <1>8. (Exclusive(u, "c2b") => Exclusive(u, "c2b")') /\ (Open(u, {"c2b"})' => Open(u, {"c2b"}))
      BY <1>2, <1>4 DEF Exclusive, Open
    <1>9. Exclusive(u, "stk")'
      <2>1. CASE u = t  BY <1>4, <1>6, <2>1 DEF Exclusive
      <2>2. CASE u # t  BY <1>4, <1>7, <2>2 DEF Exclusive
      <2> QED BY <2>1, <2>2
    <1>10. ASSUME Open(u, {"stk"})' PROVE prompt'[u] # "completed"
      <2>1. CASE u = t /\ pc'[w] = "passed"  BY <1>2, <1>5, <2>1
      <2>2. CASE ~ (u = t /\ pc'[w] = "passed")
        <3>1. Open(u, {"stk"})  BY <1>4, <1>10, <2>2 DEF Open
        <3> QED BY <1>2, <1>7, <3>1
      <2> QED BY <2>1, <2>2
    <1> QED BY <1>2, <1>7, <1>8, <1>9, <1>10

\* A result is never the repayment of a receipt that is confirmed too.
LEMMA LenderPrompted ==
    ASSUME PlacedInv, NEW t \in Receipts, Lender(t), Prompted(t)
    PROVE  /\ pay[t].purpose = "loan" /\ ~ pay[t].notified /\ Step <= Amount[t]
           /\ \A v \in Workers : Receipt(v[1]) = t => Kind(v[1]) = "stk" \/ pc[v] = "idle"
    <1>1. Plain(pay[t], Amount[t])  BY DEF PlacedInv, AllPlain
    <1>2. pay[t].purpose = "loan" /\ ~ pay[t].notified /\ Step <= Amount[t]
      BY <1>1 DEF Plain, Lender, Prompted
    <1>3. \A v \in Workers : pc[v] # "idle" => Reported(v[1])  BY DEF PlacedInv, Starts
    <1> QED BY <1>2, <1>3, WorkerOf DEF Reported

LEMMA HoldingStep ==
    ASSUME PlacedInv, [Next]_vars
    PROVE  Holding'
    <1>0. pay' = pay  BY StartsStep DEF PlacedInv
    <1> DEFINE Fewer == \A w \in Workers : pc'[w] = "passed" => pc[w] = "passed"
               Writes == \A t \in Receipts :
                            /\ Open(t, {"stk"})' => prompt'[t] = prompt[t]
                            /\ Lender(t) /\ Open(t, {"c2b"})' => paid'[t] = paid[t]
    <1>a. Fewer /\ Writes => Holding'  BY <1>0, HoldingKept DEF PlacedInv
    <1>b. UNCHANGED <<prompt, paid>> => Writes  OBVIOUS
    <1>t. /\ pc \in [Workers -> {"idle", "acked", "start", "passed", "done"}]
          /\ prompt \in [Receipts -> {"none", "pending", "completed", "failed"}]
          /\ paid \in [Receipts -> {"none", "paybill", "prompt"}]
      BY DEF PlacedInv, TypeOK
    <1>1. CASE Customer  BY <1>1, <1>a, <1>b DEF Customer, Pay, Refuse, ledger
    <1>2. CASE Callback
      <2>1. Fewer  BY <1>2, <1>t DEF Callback, DeliverConfirmation, DeliverResult
      <2> QED BY <1>2, <2>1, <1>a, <1>b DEF Callback, DeliverConfirmation, DeliverResult, ledger
    <1>3. CASE Officers
      <2>1. Fewer  BY <1>3 DEF Officers, StaffActivate, Allocate, Dismiss
      <2>2. ASSUME NEW t \in Receipts, StaffActivate(t) PROVE Writes
        <3>1. ~ Lender(t)
          BY <2>2 DEF StaffActivate, Subscribes, PlacedInv, AllPlain, Plain, Lender
        <3>2. prompt' = prompt /\ \A u \in Receipts : u # t => paid'[u] = paid[u]
          BY <2>2, <1>t DEF StaffActivate
        <3> QED BY <3>1, <3>2
      <2>3. ASSUME NEW t \in Receipts, NEW key \in {"receipt", "checkout"},
                   Allocate(t, key) \/ Dismiss(t, key)
            PROVE  Writes
        BY <2>3 DEF Allocate, Dismiss
      <2>4. Writes  BY <1>3, <2>2, <2>3 DEF Officers
      <2> QED BY <2>1, <2>4, <1>a
    <1>4. CASE Sweep  BY <1>4, <1>a, <1>b DEF Sweep
    <1>5. CASE \E d \in Deliveries : LogCallback(d) \/ Replay(d)
      <2>1. Fewer  BY <1>5, <1>t DEF LogCallback, Replay
      <2> QED BY <1>5, <2>1, <1>a, <1>b DEF LogCallback, Replay, ledger
    <1>6. ASSUME NEW w \in Workers, Handle(w) \/ Kill(w) PROVE Holding'
      <2> DEFINE t == Receipt(w[1])
      <2>0. t \in Receipts  BY WorkerOf
      <2>1. CASE CheckConfirmation(w)  BY <2>1, ConfirmationHolds
      <2>2. CASE CheckResult(w)  BY <2>2, ResultHolds
      <2>3. CASE Abort(w) \/ Finish(w) \/ Kill(w)
        <3>1. Fewer  BY <2>3, <1>t DEF Abort, Finish, Kill
        <3> QED BY <2>3, <3>1, <1>a, <1>b DEF Abort, Finish, Kill, ledger
      <2>4. CASE ApplyRefusal(w)
        <3>1. Fewer /\ paid' = paid  BY <2>4, <1>t DEF ApplyRefusal
        <3>2. \A u \in Receipts : u # t => prompt'[u] = prompt[u]  BY <2>4, <1>t DEF ApplyRefusal
        <3>3. ~ Open(t, {"stk"})'
          <4>1. ~ Open(t, {"stk"})  BY <2>4 DEF ApplyRefusal
          <4> QED BY <3>1, <4>1 DEF Open
        <3> QED BY <3>1, <3>2, <3>3, <1>a
      <2>5. CASE ApplyConfirmation(w)
        <3>1. Fewer /\ prompt' = prompt  BY <2>5, <1>t DEF ApplyConfirmation
        <3>2. \A u \in Receipts : u # t => paid'[u] = paid[u]  BY <2>5, <1>t DEF ApplyConfirmation
        <3>3. Kind(w[1]) = "c2b" /\ pc[w] = "passed" /\ pc'[w] = "done"
          BY <2>5, <1>t DEF ApplyConfirmation
        <3>4. ASSUME Lender(t) PROVE ~ Open(t, {"c2b"})'
          <4>1. Exclusive(t, "c2b")  BY <3>4, <2>0 DEF PlacedInv, Holding
          <4> QED BY <3>1, <3>3, <4>1 DEF Exclusive, Open
        <3> QED BY <3>1, <3>2, <3>4, <1>a
      <2>6. CASE ApplyResult(w)
        <3>1. Fewer  BY <2>6, <1>t DEF ApplyResult
        <3>2. \A u \in Receipts : u # t => paid'[u] = paid[u] /\ prompt'[u] = prompt[u]
          BY <2>6, <1>t DEF ApplyResult
        <3>3. Kind(w[1]) = "stk" /\ pc[w] = "passed" /\ pc'[w] = "done"
          BY <2>6, <1>t DEF ApplyResult
        <3>4. ~ Open(t, {"stk"})'
          <4>1. Exclusive(t, "stk")  BY <2>0 DEF PlacedInv, Holding
          <4> QED BY <3>1, <3>3, <4>1 DEF Exclusive, Open
        <3>5. ASSUME Lender(t) PROVE ~ Open(t, {"c2b"})'
          <4>1. Prompted(t)  BY <3>3 DEF PlacedInv, Starts, Reported
          <4>2. \A v \in Workers : Receipt(v[1]) = t => Kind(v[1]) = "stk" \/ pc[v] = "idle"
            BY <2>0, <3>5, <4>1, LenderPrompted
          <4> QED BY <3>1, <4>2 DEF Open
        <3> QED BY <3>1, <3>2, <3>4, <3>5, <1>a
      <2> QED BY <1>6, <2>1, <2>2, <2>3, <2>4, <2>5, <2>6 DEF Handle
    <1>7. ASSUME NEW t \in Receipts, Reconcile(t) PROVE Holding'
      <2>1. Fewer /\ paid' = paid  BY <1>7 DEF Reconcile
      <2>2. \A u \in Receipts : u # t => prompt'[u] = prompt[u]  BY <1>7, <1>t DEF Reconcile
      <2>3. ~ Open(t, {"stk"})'  BY <1>7 DEF Reconcile, Open
      <2> QED BY <2>1, <2>2, <2>3, <1>a
    <1>8. CASE UNCHANGED vars  BY <1>8, <1>a DEF vars
    <1> QED BY <1>1, <1>2, <1>3, <1>4, <1>5, <1>6, <1>7, <1>8 DEF Next

-------------------------------------------------------------------------------
(* What the handlers add to a plain payment.                               *)

LEMMA ConfirmationAdds ==
    ASSUME TypeOK, NEW t \in Receipts, Plain(pay[t], Amount[t]), pay[t].notified
    PROVE  LET added == FromPaybill(t) IN
           /\ \A l \in Ledgers \ {"savings", "loan"} : added[l] = 0
           /\ added["loan"] = IF pay[t].route = "loan" THEN Absorbed(t) ELSE 0
           /\ added["savings"] =
                IF pay[t].route \notin {"savings", "loan"} \/ booked[t]["savings"] > 0 THEN 0
                ELSE IF pay[t].route = "loan" THEN Amount[t] - Absorbed(t) ELSE Amount[t]
    <1>1. pay[t].route \in {"savings", "loan", "unplaced", "nowhere"}  BY DEF Plain
    <1>2. CASE pay[t].route = "savings"
      <2> DEFINE a == Once(t, "savings", Amount[t])
      <2>1. FromPaybill(t) = a  BY <1>2 DEF FromPaybill, Lends
      <2>2. \A l \in Ledgers : a[l] = IF l = "savings"
                                     THEN (IF booked[t]["savings"] > 0 THEN 0 ELSE Amount[t]) ELSE 0
        BY DEF Once, Nothing
      <2> HIDE DEF a
      <2> QED BY <1>2, <2>1, <2>2 DEF Ledgers
    <1>3. CASE pay[t].route = "loan"
      <2>1. Waterfall(t, FALSE)["loan"] = Absorbed(t)
            /\ Waterfall(t, FALSE)["savings"] = (IF booked[t]["savings"] > 0 THEN 0
                                                ELSE Amount[t] - Absorbed(t))
            /\ \A l \in Ledgers \ {"savings", "loan"} : Waterfall(t, FALSE)[l] = 0
        BY DEF Waterfall, Nothing, Ledgers
      <2>2. FromPaybill(t) = Waterfall(t, FALSE)  BY <1>3 DEF FromPaybill, Lends
      <2> QED BY <1>3, <2>1, <2>2
    <1>4. CASE pay[t].route \in {"unplaced", "nowhere"}
      <2>1. FromPaybill(t) = Nothing  BY <1>4 DEF FromPaybill, Lends
      <2> QED BY <1>4, <2>1 DEF Nothing, Ledgers
    <1> QED BY <1>1, <1>2, <1>3, <1>4

LEMMA ResultAdds ==
    ASSUME TypeOK, NEW t \in Receipts, Prompted(t)
    PROVE  LET added == FromPrompt(t) IN
           /\ \A l \in Ledgers \ {"savings", "loan", "plan"} : added[l] = 0
           /\ added["loan"] = IF pay[t].purpose = "loan" THEN Absorbed(t) ELSE 0
           /\ added["plan"] = IF pay[t].purpose = "plan" /\ ~(booked[t]["plan"] > 0)
                              THEN Amount[t] ELSE 0
           /\ added["savings"] =
                IF pay[t].purpose \notin {"contribution", "loan"} \/ booked[t]["savings"] > 0 THEN 0
                ELSE IF pay[t].purpose = "loan" THEN Amount[t] - Absorbed(t) ELSE Amount[t]
    <1>1. pay[t].purpose \in {"contribution", "stranger", "loan", "plan", "unsold"}
      BY Paying DEF Payments, Purposes, Prompted
    <1>2. CASE pay[t].purpose = "contribution"
      BY <1>2 DEF FromPrompt, Once, Nothing, Ledgers
    <1>3. CASE pay[t].purpose = "plan"
      BY <1>3 DEF FromPrompt, Once, Nothing, Ledgers
    <1>4. CASE pay[t].purpose = "loan"
      <2>1. FromPrompt(t) = Waterfall(t, FALSE)  BY <1>4 DEF FromPrompt
      <2> QED BY <1>4, <2>1 DEF Waterfall, Nothing, Ledgers
    <1>5. CASE pay[t].purpose \in {"stranger", "unsold"}
      <2>1. FromPrompt(t) = Nothing  BY <1>5 DEF FromPrompt
      <2> QED BY <1>5, <2>1 DEF Nothing, Ledgers
    <1> QED BY <1>1, <1>2, <1>3, <1>4, <1>5

-------------------------------------------------------------------------------
(* The instalments.                                                        *)

LEMMA DivisionGrows ==
    ASSUME NEW x \in Nat, NEW s \in Nat \ {0}, NEW y \in Nat
    PROVE  /\ x \div s \in Nat
           /\ x <= y => x \div s <= y \div s
           /\ x + s <= y => x \div s + 1 <= y \div s
    OBVIOUS

\* The next instalment is one of the loan's.
LEMMA OldestIsDue ==
    ASSUME TypeOK, StampsInOrder, owed > 0
    PROVE  Oldest \in Instalments /\ stamp[Oldest] = None
    <1>1. owed \in Nat /\ Debt \in Nat /\ Step \in Nat \ {0} /\ owed <= Debt
      BY PaymentsAssumption DEF TypeOK, StampsInOrder
    <1>2. Debt - owed \in Nat /\ Debt + Step - 1 \in Nat /\ Debt - owed + Step <= Debt + Step - 1
      BY <1>1
    <1>3. (Debt - owed) \div Step \in Nat /\ (Debt + Step - 1) \div Step \in Nat
          /\ (Debt - owed) \div Step + 1 <= (Debt + Step - 1) \div Step
      BY <1>1, <1>2, DivisionGrows
    <1>4. Oldest \in Instalments  BY <1>3 DEF Oldest, Instalments
    <1>5. stamp[Oldest] # None => Oldest < Oldest  BY <1>1, <1>4 DEF StampsInOrder
    <1> QED BY <1>3, <1>4, <1>5 DEF Oldest

\* A stamp is never overwritten.
LEMMA StampsStay ==
    ASSUME NEW t, NEW added, Add(t, added), NEW u \in Receipts, Stamped(u)
    PROVE  Stamped(u)'
    <1>1. PICK i \in Instalments : stamp[i] = u  BY DEF Stamped
    <1>2. u # None  BY PaymentsAssumption
    <1>3. ~(Stamps(added) /\ i = Oldest)  BY <1>1, <1>2 DEF Stamps
    <1>4. stamp'[i] = u  BY <1>1, <1>3 DEF Add
    <1> QED BY <1>4 DEF Stamped

\* A repayment of an instalment or more stamps the oldest one and takes the loan past it.
LEMMA RepaymentStamps ==
    ASSUME TypeOK, StampsInOrder, NEW t \in Receipts, NEW added, Fits(t, added), Add(t, added),
           added["loan"] > 0 => added["loan"] = owed \/ Step <= added["loan"]
    PROVE  StampsInOrder' /\ (added["loan"] > 0 => Stamped(t)')
    <1>1. /\ owed \in Nat /\ Debt \in Nat /\ Step \in Nat \ {0} /\ owed <= Debt
          /\ added["loan"] \in Nat /\ added["loan"] <= owed
      BY PaymentsAssumption DEF TypeOK, StampsInOrder, Fits, Ledgers
    <1>2. owed' = owed - added["loan"]  BY DEF Add
    <1>3. \A i \in Instalments : stamp'[i] = IF Stamps(added) /\ i = Oldest THEN t ELSE stamp[i]
      BY DEF Add
    <1>4. ASSUME added["loan"] > 0
          PROVE  Oldest \in Instalments /\ stamp[Oldest] = None /\ stamp'[Oldest] = t
      <2>1. owed > 0  BY <1>1, <1>4
      <2>2. Oldest \in Instalments /\ stamp[Oldest] = None  BY <2>1, OldestIsDue
      <2> QED BY <1>3, <1>4, <2>2 DEF Stamps
    <1>5. ASSUME NEW i \in Instalments, stamp'[i] # None  PROVE i < Oldest' \/ owed' = 0
      <2>1. CASE added["loan"] = 0
        <3>1. stamp'[i] = stamp[i] /\ owed' = owed  BY <1>1, <1>2, <1>3, <2>1 DEF Stamps
        <3>2. Oldest' = Oldest  BY <3>1 DEF Oldest
        <3> QED BY <1>5, <3>1, <3>2 DEF StampsInOrder
      <2>2. CASE added["loan"] > 0 /\ owed' # 0
        <3>1. Step <= added["loan"] /\ owed' \in Nat  BY <1>1, <1>2, <2>2
        <3>2. Debt - owed \in Nat /\ Debt - owed' \in Nat /\ (Debt - owed) + Step <= Debt - owed'
          BY <1>1, <1>2, <3>1
        <3>3. Oldest \in Nat /\ Oldest' \in Nat /\ Oldest + 1 <= Oldest'
          <4> DEFINE x == Debt - owed
                     y == Debt - owed'
          <4>1. x \in Nat /\ y \in Nat /\ x + Step <= y  BY <3>2
          <4>2. Oldest = x \div Step + 1 /\ Oldest' = y \div Step + 1  BY DEF Oldest
          <4> HIDE DEF x, y
          <4>3. x \div Step \in Nat /\ x \div Step + 1 <= y \div Step  BY <1>1, <4>1, DivisionGrows
          <4>4. y \div Step \in Nat  BY <1>1, <4>1, DivisionGrows
          <4> QED BY <4>2, <4>3, <4>4
        <3>4. i \in Nat  BY DEF Instalments
        <3>5. i <= Oldest
          <4>1. CASE i = Oldest  BY <3>3, <4>1
          <4>2. CASE i # Oldest
            <5>1. stamp[i] # None  BY <1>3, <1>5, <4>2
            <5>2. owed # 0  BY <1>1, <2>2
            <5> QED BY <3>3, <3>4, <5>1, <5>2 DEF StampsInOrder
          <4> QED BY <4>1, <4>2
        <3> QED BY <3>3, <3>4, <3>5
      <2> QED BY <1>1, <2>1, <2>2
    <1>6. owed' <= Debt  BY <1>1, <1>2
    <1>7. StampsInOrder'  BY <1>5, <1>6 DEF StampsInOrder
    <1> QED BY <1>4, <1>7 DEF Stamped

-------------------------------------------------------------------------------
(* Receipts that a step books.                                             *)

\* A receipt that a step leaves alone.
LEMMA ElsewhereKept ==
    ASSUME NEW u \in Receipts, Kept(u), pay' = pay,
           prompt'[u] = prompt[u], paid'[u] = paid[u], spine'[u] = spine[u],
           booked'[u] = booked[u], Stamped(u) => Stamped(u)',
           \A k \in {"receipt", "checkout"} : queue'[u][k] = queue[u][k]
    PROVE  Kept(u)'
    <1>1. Record(u)'  BY DEF Kept, Record, Lender
    <1>2. Books(u)'  BY DEF Kept, Books, Lender
    <1> QED BY <1>1, <1>2 DEF Kept

LEMMA MarkedAs ==
    ASSUME TypeOK, NEW t \in Receipts, NEW to \in {"allocated", "unrouted"}, MarkSpine(t, to)
    PROVE  /\ to = "allocated" => spine'[t] = "allocated"
           /\ to = "unrouted" /\ spine[t] # "received" => spine'[t] = spine[t]
           /\ to = "unrouted" /\ spine[t] = "received" => spine'[t] = "unrouted"
           /\ \A u \in Receipts : u # t => spine'[u] = spine[u]
    <1>1. spine \in [Receipts -> {"received", "allocated", "unrouted"}]  BY DEF TypeOK
    <1> QED BY <1>1 DEF MarkSpine

LEMMA AbsorbedBounds ==
    ASSUME TypeOK, NEW t \in Receipts
    PROVE  /\ Absorbed(t) \in Nat /\ Absorbed(t) <= Amount[t]
           /\ Absorbed(t) = owed \/ Absorbed(t) = Amount[t]
    BY Paying DEF TypeOK, Absorbed

\* What a handler that commits knows of the receipt and of the others.
LEMMA AddedTo ==
    ASSUME PlacedInv, NEW t \in Receipts, NEW added, Fits(t, added), Add(t, added), pay' = pay,
           added["loan"] > 0 => added["loan"] = owed \/ Step <= added["loan"]
    PROVE  /\ \A l \in Ledgers : added[l] \in Nat /\ booked'[t][l] = booked[t][l] + added[l]
           /\ \A u \in Receipts : u # t => booked'[u] = booked[u]
           /\ \A u \in Receipts : Stamped(u) => Stamped(u)'
           /\ added["loan"] > 0 => Stamped(t)'
           /\ StampsInOrder'
    <1>1. TypeOK /\ StampsInOrder  BY DEF PlacedInv
    <1>2. booked \in [Receipts -> [Ledgers -> Nat]]  BY <1>1 DEF TypeOK
    <1>3. /\ booked' = [booked EXCEPT ![t] = [l \in Ledgers |-> booked[t][l] + added[l]]]
          /\ added \in [Ledgers -> Nat]
      BY DEF Add, Fits
    <1>4. \A l \in Ledgers : added[l] \in Nat /\ booked'[t][l] = booked[t][l] + added[l]
      BY <1>2, <1>3
    <1>5. \A u \in Receipts : u # t => booked'[u] = booked[u]  BY <1>2, <1>3
    <1>6. \A u \in Receipts : Stamped(u) => Stamped(u)'  BY StampsStay
    <1>7. StampsInOrder' /\ (added["loan"] > 0 => Stamped(t)')  BY <1>1, RepaymentStamps
    <1> QED BY <1>4, <1>5, <1>6, <1>7

LEMMA ConfirmationKeeps ==
    ASSUME PlacedInv, NEW w \in Workers, ApplyConfirmation(w)
    PROVE  StampsInOrder' /\ \A u \in Receipts : Kept(u)'
    <1> DEFINE t == Receipt(w[1])
               added == FromPaybill(t)
               A == Amount[t]
    <1>1. t \in Receipts  BY WorkerOf
    <1>2. TypeOK /\ Kept(t) /\ Plain(pay[t], A)  BY <1>1 DEF PlacedInv, AllPlain
    <1>3. /\ Kind(w[1]) = "c2b" /\ pc[w] = "passed" /\ Add(t, added)
          /\ UNCHANGED <<pay, prompt>>
      BY DEF ApplyConfirmation
    <1>4. pay[t].notified  BY <1>3 DEF PlacedInv, Starts, Reported
    <1>5. /\ \A l \in Ledgers \ {"savings", "loan"} : added[l] = 0
          /\ added["loan"] = IF pay[t].route = "loan" THEN Absorbed(t) ELSE 0
          /\ added["savings"] =
               IF pay[t].route \notin {"savings", "loan"} \/ booked[t]["savings"] > 0 THEN 0
               ELSE IF pay[t].route = "loan" THEN A - Absorbed(t) ELSE A
      BY <1>1, <1>2, <1>4, ConfirmationAdds
    <1>6. /\ Absorbed(t) \in Nat /\ Absorbed(t) <= A
          /\ Absorbed(t) = owed \/ Absorbed(t) = A
      BY <1>1, <1>2, AbsorbedBounds
    <1>7. added["loan"] > 0 => added["loan"] = owed \/ Step <= added["loan"]
      BY <1>2, <1>4, <1>5, <1>6 DEF Plain
    <1>8. Fits(t, added)  BY <1>1, <1>2, HandlersFit
    <1>9. paid' = [paid EXCEPT ![t] = Recorded(t)]  BY DEF ApplyConfirmation
    <1>10. /\ Allocates(added) => MarkSpine(t, "allocated")
           /\ ~ Allocates(added) => spine' = spine
      BY DEF ApplyConfirmation
    <1>11. /\ Unplaceable(t, added) /\ Recorded(t) = "none" => File(t, "receipt")
           /\ ~(Unplaceable(t, added) /\ Recorded(t) = "none") => queue' = queue
      BY DEF ApplyConfirmation
    <1>12. Lender(t) => paid[t] = "none"
      <2>1. Open(t, {"c2b"})  BY <1>3 DEF Open
      <2> QED BY <1>1, <2>1 DEF PlacedInv, Holding
    <1> HIDE DEF added, t
    <1>13. /\ \A l \in Ledgers : added[l] \in Nat /\ booked'[t][l] = booked[t][l] + added[l]
           /\ \A u \in Receipts : u # t => booked'[u] = booked[u]
           /\ \A u \in Receipts : Stamped(u) => Stamped(u)'
           /\ added["loan"] > 0 => Stamped(t)'
           /\ StampsInOrder'
      BY <1>1, <1>3, <1>7, <1>8, AddedTo
    <1>14. /\ added["savings"] > 0 \/ added["loan"] > 0 => spine'[t] = "allocated"
           /\ ~(added["savings"] > 0 \/ added["loan"] > 0) => spine'[t] = spine[t]
           /\ \A u \in Receipts : u # t => spine'[u] = spine[u]
      <2>1. Allocates(added) <=> added["savings"] > 0 \/ added["loan"] > 0
        <3>1. added["welfare"] = 0  BY <1>5 DEF Ledgers
        <3> QED BY <3>1 DEF Allocates
      <2> QED BY <1>1, <1>2, <1>10, <2>1, MarkedAs
    <1>15. /\ paid'[t] = IF pay[t].route # "nowhere" /\ paid[t] = "none" THEN "paybill" ELSE paid[t]
           /\ \A u \in Receipts : u # t => paid'[u] = paid[u]
      BY <1>1, <1>2, <1>9 DEF TypeOK, Recorded
    <1>16. /\ \A u \in Receipts, k \in {"receipt", "checkout"} :
                u # t \/ k # "receipt" => queue'[u][k] = queue[u][k]
           /\ queue'[t]["receipt"] # queue[t]["receipt"] =>
                pay[t].route = "nowhere" /\ paid'[t] = "none"
      <2>1. CASE Unplaceable(t, added) /\ Recorded(t) = "none"
        <3>1. pay[t].route = "nowhere"
          BY <1>2, <1>4, <2>1 DEF Plain, Unplaceable, Recorded
        <3>2. File(t, "receipt")  BY <1>11, <2>1
        <3> QED BY <1>1, <1>2, <1>15, <2>1, <3>1, <3>2, FileType DEF Recorded
      <2>2. CASE ~(Unplaceable(t, added) /\ Recorded(t) = "none")
        BY <1>11, <2>2
      <2> QED BY <2>1, <2>2
    <1>17. ASSUME NEW u \in Receipts, u # t PROVE Kept(u)'
      <2>1. Kept(u)  BY DEF PlacedInv
      <2> QED BY <1>3, <1>13, <1>14, <1>15, <1>16, <1>17, <2>1, ElsewhereKept
    <1>18. /\ booked'[t]["savings"] = booked[t]["savings"] + added["savings"]
           /\ booked'[t]["loan"] = booked[t]["loan"] + added["loan"]
           /\ \A l \in Ledgers \ {"savings", "loan"} : booked'[t][l] = booked[t][l]
           /\ \A l \in Ledgers : booked[t][l] \in Nat
           /\ A \in Nat \ {0}
      <2>1. \A l \in Ledgers : booked[t][l] \in Nat /\ A \in Nat \ {0}  BY <1>1, <1>2, Paying
      <2>2. \A l \in Ledgers \ {"savings", "loan"} : booked'[t][l] = booked[t][l]
        BY <1>5, <1>13, <2>1
      <2> QED BY <1>13, <2>1, <2>2 DEF Ledgers
    <1>19. /\ booked'[t]["welfare"] = booked[t]["welfare"]
           /\ booked'[t]["campaign"] = booked[t]["campaign"]
           /\ booked'[t]["invoice"] = booked[t]["invoice"]
           /\ booked'[t]["plan"] = booked[t]["plan"]
           /\ booked'[t]["unreceipted"] = booked[t]["unreceipted"]
           /\ booked[t]["savings"] \in Nat /\ booked[t]["loan"] \in Nat
           /\ booked[t]["plan"] \in Nat /\ booked[t]["unreceipted"] \in Nat
      BY <1>18 DEF Ledgers
    <1>20. pay[t].purpose # "loan"  BY <1>2, <1>4 DEF Plain
    <1>21. Record(t) /\ Books(t)  BY <1>2 DEF Kept
    <1>22. queue'[t]["checkout"] = queue[t]["checkout"]  BY <1>1, <1>16
    <1>23. ASSUME pay[t].route = "savings" PROVE Kept(t)'
      <2>1. booked[t]["loan"] = 0 /\ pay[t].purpose \notin {"plan", "unsold"} /\ ~ Lender(t)
        BY <1>2, <1>4, <1>20, <1>21, <1>23 DEF Plain, Lender, Books
      <2>2. booked'[t]["loan"] = 0 /\ booked'[t]["savings"] = A /\ spine'[t] = "allocated"
        BY <1>5, <1>14, <1>18, <1>19, <1>21, <1>23, <2>1 DEF Books, Record
      <2>3. paid'[t] # "none"  BY <1>15, <1>23
      <2>4. Record(t)'
        BY <1>2, <1>3, <1>4, <1>15, <1>16, <1>19, <1>21, <1>22, <1>23, <2>1, <2>2, <2>3
           DEF Record, Lender
      <2>5. Books(t)'
        BY <1>3, <1>4, <1>18, <1>19, <1>21, <1>23, <2>1, <2>2 DEF Books, Lender
      <2> QED BY <2>4, <2>5 DEF Kept
    <1>24. ASSUME pay[t].route = "loan" PROVE Kept(t)'
      <2>1. Lender(t) /\ paid[t] = "none" /\ pay[t].purpose = "deposit"
        BY <1>2, <1>4, <1>12, <1>24 DEF Lender, Plain
      <2>2. booked[t]["savings"] = 0 /\ booked[t]["loan"] = 0
        BY <1>19, <1>21, <1>24, <2>1 DEF Record
      <2>3. booked'[t]["loan"] = Absorbed(t) /\ booked'[t]["savings"] = A - Absorbed(t)
        BY <1>5, <1>6, <1>18, <1>24, <2>2
      <2>4. spine'[t] = "allocated"  BY <1>5, <1>6, <1>14, <1>18, <1>24, <2>2
      <2>5. paid'[t] = "paybill"  BY <1>15, <1>24, <2>1
      <2>6. booked'[t]["savings"] > 0 \/ Stamped(t)'
        BY <1>5, <1>6, <1>13, <1>18, <1>24, <2>3
      <2>7. Record(t)'
        BY <1>3, <1>4, <1>16, <1>19, <1>21, <1>22, <1>24, <2>1, <2>5, <2>6 DEF Record, Lender
      <2>8. booked'[t]["plan"] = 0  BY <1>19, <1>21, <2>1 DEF Books
      <2>9. booked'[t]["savings"] + booked'[t]["loan"] = A  BY <1>6, <1>18, <2>3
      <2>10. booked'[t]["savings"] + booked'[t]["loan"] + booked'[t]["plan"] = A
        BY <1>18, <2>8, <2>9
      <2>11. Books(t)'
        BY <1>3, <1>4, <1>19, <1>21, <1>24, <2>1, <2>4, <2>8, <2>9, <2>10 DEF Books, Lender
      <2> QED BY <2>7, <2>11 DEF Kept
    <1>25. ASSUME pay[t].route \in {"unplaced", "nowhere"} PROVE Kept(t)'
      <2>1. added["savings"] = 0 /\ added["loan"] = 0 /\ ~ Lender(t)
        BY <1>5, <1>20, <1>25 DEF Lender
      <2>2. /\ booked'[t]["savings"] = booked[t]["savings"]
            /\ booked'[t]["loan"] = booked[t]["loan"]
            /\ spine'[t] = spine[t]
        BY <1>14, <1>18, <1>19, <2>1
      <2>3. Record(t)'
        BY <1>3, <1>4, <1>15, <1>16, <1>19, <1>21, <1>22, <1>25, <2>1, <2>2
           DEF Record, Lender
      <2>4. paid[t] = "none" /\ paid'[t] # "none" =>
              spine[t] = "received" /\ booked[t]["savings"] = 0 /\ booked[t]["loan"] = 0
        BY <1>15, <1>19, <1>21 DEF Record
      <2>5. Books(t)'
        BY <1>3, <1>4, <1>19, <1>21, <1>25, <2>1, <2>2, <2>4 DEF Books, Lender
      <2> QED BY <2>3, <2>5 DEF Kept
    <1>26. Kept(t)'  BY <1>2, <1>4, <1>23, <1>24, <1>25 DEF Plain
    <1> QED BY <1>13, <1>17, <1>26

\* A result finds a receipt that nothing was booked for and that no payments row carries.
LEMMA ResultKeeps ==
    ASSUME PlacedInv, NEW w \in Workers, ApplyResult(w)
    PROVE  StampsInOrder' /\ \A u \in Receipts : Kept(u)'
    <1> DEFINE t == Receipt(w[1])
               added == FromPrompt(t)
               A == Amount[t]
    <1>1. t \in Receipts  BY WorkerOf
    <1>2. /\ TypeOK /\ Record(t) /\ Books(t) /\ Plain(pay[t], A)
          /\ pay[t] \in Payments /\ A \in Nat \ {0}
          /\ \A l \in Ledgers : booked[t][l] \in Nat
      BY <1>1, Paying DEF PlacedInv, AllPlain, Kept
    <1>3. /\ Kind(w[1]) = "stk" /\ pc[w] = "passed" /\ Add(t, added)
          /\ pay' = pay /\ paid[t] # "paybill"
      BY DEF ApplyResult
    <1>4. Prompted(t)  BY <1>3 DEF PlacedInv, Starts, Reported
    <1>5. paid[t] = "none"
      <2>1. Open(t, {"stk"})  BY <1>3 DEF Open
      <2>2. prompt[t] # "completed"  BY <1>1, <2>1 DEF PlacedInv, Holding
      <2> QED BY <1>1, <1>2, <1>3, <2>2 DEF TypeOK, Record
    <1>6. /\ booked[t]["savings"] = 0 /\ booked[t]["loan"] = 0 /\ booked[t]["unreceipted"] = 0
          /\ spine[t] = "received" /\ queue[t]["checkout"] = "none"
      <2>1. Open(t, {"stk"})  BY <1>3 DEF Open
      <2>2. prompt[t] # "completed"  BY <1>1, <2>1 DEF PlacedInv, Holding
      <2>3. ~(booked[t]["savings"] > 0) /\ ~(booked[t]["unreceipted"] > 0)
        BY <1>2, <1>4, <1>5, <2>2 DEF Record, Prompted
      <2>4. booked[t]["savings"] \in Nat /\ booked[t]["unreceipted"] \in Nat
        BY <1>2 DEF Ledgers
      <2> QED BY <1>2, <1>5, <2>2, <2>3, <2>4 DEF Record
    <1>7. /\ \A l \in Ledgers \ {"savings", "loan", "plan"} : added[l] = 0
          /\ added["loan"] = IF pay[t].purpose = "loan" THEN Absorbed(t) ELSE 0
          /\ added["plan"] = IF pay[t].purpose = "plan" /\ ~(booked[t]["plan"] > 0) THEN A ELSE 0
          /\ added["savings"] =
               IF pay[t].purpose \notin {"contribution", "loan"} THEN 0
               ELSE IF pay[t].purpose = "loan" THEN A - Absorbed(t) ELSE A
      BY <1>1, <1>2, <1>4, <1>6, ResultAdds
    <1>8. /\ Absorbed(t) \in Nat /\ Absorbed(t) <= A
          /\ Absorbed(t) = owed \/ Absorbed(t) = A
      BY <1>1, <1>2, AbsorbedBounds
    <1>9. added["loan"] > 0 => added["loan"] = owed \/ Step <= added["loan"]
      BY <1>2, <1>7, <1>8 DEF Plain
    <1>10. Fits(t, added)  BY <1>1, <1>2, HandlersFit
    <1>11. /\ paid'[t] = "prompt" /\ prompt'[t] = "completed"
           /\ \A u \in Receipts : u # t => paid'[u] = paid[u] /\ prompt'[u] = prompt[u]
      BY <1>1, <1>2 DEF TypeOK, ApplyResult
    <1>12. /\ \A u \in Receipts, k \in {"receipt", "checkout"} :
                u # t \/ k # "receipt" => queue'[u][k] = queue[u][k]
           /\ pay[t].purpose # "stranger" => queue' = queue
      <2>1. CASE pay[t].purpose = "stranger"
        <3>1. File(t, "receipt")  BY <2>1 DEF ApplyResult
        <3> QED BY <1>1, <1>2, <2>1, <3>1, FileType
      <2>2. CASE pay[t].purpose # "stranger"  BY <2>2 DEF ApplyResult
      <2> QED BY <2>1, <2>2
    <1>13. /\ Allocates(added) => MarkSpine(t, "allocated")
           /\ ~ Allocates(added) => MarkSpine(t, "unrouted") \/ spine' = spine
      <2>1. CASE Allocates(added)
        <3>1. pay[t].purpose # "stranger"
          BY <1>7, <2>1 DEF Allocates, Ledgers
        <3> QED BY <2>1, <3>1, Zenon DEF ApplyResult
      <2>2. CASE ~ Allocates(added)
        <3>1. CASE pay[t].purpose = "stranger"  BY <2>2, <3>1, Zenon DEF ApplyResult
        <3>2. CASE pay[t].purpose # "stranger"  BY <2>2, <3>2, Zenon DEF ApplyResult
        <3> QED BY <2>2, <3>1, <3>2
      <2> QED BY <2>1, <2>2
    <1> HIDE DEF added, t
    <1>14. /\ \A l \in Ledgers : added[l] \in Nat /\ booked'[t][l] = booked[t][l] + added[l]
           /\ \A u \in Receipts : u # t => booked'[u] = booked[u]
           /\ \A u \in Receipts : Stamped(u) => Stamped(u)'
           /\ StampsInOrder'
      BY <1>1, <1>3, <1>9, <1>10, AddedTo
    <1>15. /\ booked'[t]["savings"] = added["savings"] /\ booked'[t]["loan"] = added["loan"]
           /\ booked'[t]["unreceipted"] = 0
           /\ booked'[t]["plan"] = booked[t]["plan"] + added["plan"]
           /\ booked[t]["plan"] \in Nat
           /\ \A l \in {"welfare", "campaign", "invoice"} : booked'[t][l] = 0
           /\ added["savings"] \in Nat /\ added["loan"] \in Nat
      <2>1. \A l \in {"welfare", "campaign", "invoice"} : booked[t][l] = 0 /\ added[l] = 0
        BY <1>2, <1>7 DEF Books, Ledgers
      <2>2. \A l \in {"welfare", "campaign", "invoice", "unreceipted", "plan", "savings", "loan"} :
               /\ booked'[t][l] = booked[t][l] + added[l]
               /\ booked[t][l] \in Nat /\ added[l] \in Nat
        BY <1>2, <1>14 DEF Ledgers
      <2>3. added["unreceipted"] = 0  BY <1>7 DEF Ledgers
      <2> QED BY <1>6, <2>1, <2>2, <2>3
    <1>16. /\ added["savings"] > 0 \/ added["loan"] > 0 => spine'[t] = "allocated"
           /\ ~(added["savings"] > 0 \/ added["loan"] > 0) =>
                spine'[t] = "received" \/ spine'[t] = "unrouted"
           /\ \A u \in Receipts : u # t => spine'[u] = spine[u]
      <2>1. Allocates(added) <=> added["savings"] > 0 \/ added["loan"] > 0
        <3>1. added["welfare"] = 0  BY <1>7 DEF Ledgers
        <3> QED BY <3>1 DEF Allocates
      <2> QED BY <1>1, <1>2, <1>6, <1>13, <2>1, MarkedAs
    <1>17. ASSUME NEW u \in Receipts, u # t PROVE Kept(u)'
      <2>1. Kept(u)  BY DEF PlacedInv
      <2> QED BY <1>3, <1>11, <1>12, <1>14, <1>16, <1>17, <2>1, ElsewhereKept
    <1>18. Record(t)'
      <2>1. Lender(t) => pay[t].purpose = "loan"  BY <1>2, <1>4 DEF Plain, Lender, Prompted
      <2>2. queue'[t]["receipt"] # "none" => ~ Lender(t)
        BY <1>2, <1>12, <2>1 DEF Record
      <2>3. queue'[t]["checkout"] = "none"  BY <1>1, <1>6, <1>12
      <2> QED BY <1>3, <1>11, <1>15, <2>2, <2>3 DEF Record, Lender
    <1>19. Books(t)'
      <2>1. Lender(t) <=> pay[t].purpose = "loan"  BY <1>2, <1>4 DEF Plain, Lender, Prompted
      <2>2. ASSUME pay[t].purpose = "plan"
            PROVE  /\ added["savings"] = 0 /\ added["loan"] = 0 /\ booked'[t]["plan"] = A
                   /\ spine'[t] # "allocated"
        <3>1. added["savings"] = 0 /\ added["loan"] = 0  BY <1>7, <2>2
        <3>2. booked'[t]["plan"] = A  BY <1>2, <1>7, <1>15, <2>2 DEF Books
        <3> QED BY <1>16, <3>1, <3>2
      <2>3. ASSUME pay[t].purpose \notin {"plan", "unsold"} PROVE booked'[t]["plan"] = 0
        BY <1>2, <1>7, <1>15, <2>3 DEF Books
      <2>4. ASSUME pay[t].purpose \in {"contribution", "loan"}
            PROVE  /\ added["savings"] + added["loan"] = A
                   /\ spine'[t] = "allocated"
        BY <1>2, <1>7, <1>8, <1>15, <1>16, <2>4
      <2>5. ASSUME pay[t].purpose \in {"stranger", "unsold"}
            PROVE  /\ added["savings"] = 0 /\ added["loan"] = 0 /\ spine'[t] # "allocated"
                   /\ booked'[t]["plan"] = booked[t]["plan"]
        <3>1. added["savings"] = 0 /\ added["loan"] = 0 /\ added["plan"] = 0  BY <1>7, <2>5
        <3>2. booked'[t]["plan"] = booked[t]["plan"]  BY <1>15, <3>1
        <3> QED BY <1>16, <3>1, <3>2
      <2>6. pay[t].purpose # "loan" => added["loan"] = 0  BY <1>7
      <2>7. pay[t].purpose \in {"contribution", "stranger", "loan", "plan", "unsold"}
        BY <1>2, <1>4 DEF Payments, Purposes, Prompted
      <2> QED BY <1>2, <1>3, <1>15, <2>1, <2>2, <2>3, <2>4, <2>5, <2>6, <2>7 DEF Books, Lender
    <1> QED BY <1>14, <1>17, <1>18, <1>19 DEF Kept

\* A receipt that the ledgers stay out of: what its prompt and its queue become.
LEMMA UnbookedKept ==
    ASSUME PlacedInv, UNCHANGED <<pay, paid, spine, booked, stamp, owed>>, NEW t \in Receipts,
           prompt[t] \in {"completed", "none"} => prompt'[t] = prompt[t],
           \A key \in {"receipt", "checkout"} : queue[t][key] = "none" => queue'[t][key] = "none"
    PROVE  Kept(t)'
    <1>1. Record(t) /\ Books(t)  BY DEF PlacedInv, Kept
    <1>2. Books(t)'  BY <1>1 DEF Books, Lender
    <1>3. Record(t)'  BY <1>1 DEF Record, Lender, Stamped
    <1> QED BY <1>2, <1>3 DEF Kept

LEMMA StampsKept ==
    ASSUME PlacedInv, UNCHANGED <<owed, stamp>>
    PROVE  StampsInOrder'
    BY DEF PlacedInv, StampsInOrder, Oldest

LEMMA SweepKeeps ==
    ASSUME PlacedInv, Sweep
    PROVE  StampsInOrder' /\ \A u \in Receipts : Kept(u)'
    <1>1. UNCHANGED <<pay, prompt, paid, spine, booked, stamp, owed>>  BY DEF Sweep
    <1>2. ASSUME NEW t \in Receipts PROVE Kept(t)'
      <2>1. /\ queue'[t]["checkout"] = queue[t]["checkout"]
            /\ Orphan(t) \/ queue'[t] = queue[t]
        <3>1. queue \in [Receipts -> [{"receipt", "checkout"} -> {"none", "open", "resolved"}]]
          BY DEF PlacedInv, TypeOK
        <3>2. queue'[t] = IF Orphan(t) THEN [queue[t] EXCEPT !["receipt"] = "open"] ELSE queue[t]
          BY DEF Sweep
        <3> QED BY <3>1, <3>2
      <2>2. CASE ~ Orphan(t)  BY <1>1, <2>1, <2>2, UnbookedKept
      <2>3. CASE Orphan(t)
        <3>1. paid[t] = "paybill" /\ booked[t]["savings"] = 0 /\ ~ Stamped(t)
          BY <2>3 DEF Orphan
        <3>2. Record(t) /\ Books(t) /\ Plain(pay[t], Amount[t])
          BY DEF PlacedInv, AllPlain, Kept
        <3>3. ~ Lender(t)  BY <3>1, <3>2 DEF Lender, Record, Plain
        <3>4. Books(t)'  BY <1>1, <3>2 DEF Books, Lender
        <3>5. Record(t)'  BY <1>1, <2>1, <3>1, <3>2, <3>3 DEF Record, Lender, Stamped
        <3> QED BY <3>4, <3>5 DEF Kept
      <2> QED BY <2>2, <2>3
    <1> QED BY <1>1, <1>2, StampsKept

LEMMA ReconcileKeeps ==
    ASSUME PlacedInv, NEW t \in Receipts, Reconcile(t)
    PROVE  StampsInOrder' /\ \A u \in Receipts : Kept(u)'
    <1> DEFINE added == [Nothing EXCEPT !["unreceipted"] = Amount[t]]
               A == Amount[t]
    <1>1. /\ TypeOK /\ Record(t) /\ Books(t) /\ Plain(pay[t], A)
          /\ pay[t] \in Payments /\ A \in Nat \ {0}
          /\ \A l \in Ledgers : booked[t][l] \in Nat
      BY Paying DEF PlacedInv, AllPlain, Kept
    <1>2. pay[t].late /\ prompt[t] = "pending" /\ UNCHANGED <<pay, paid, spine>>
      BY DEF Reconcile
    <1>3. /\ \A u \in Receipts : u # t => prompt'[u] = prompt[u]
          /\ money[t] = "moved" => prompt'[t] = "completed"
      BY <1>1 DEF TypeOK, Reconcile
    <1>4. CASE money[t] = "moved" /\ pay[t].purpose = "contribution"
      <2>1. Add(t, added) /\ queue' = queue  BY <1>4 DEF Reconcile
      <2>2. ~ pay[t].notified  BY <1>1, <1>2, <1>4 DEF Plain
      <2>3. paid[t] = "none" /\ ~ Lender(t)
        BY <1>1, <1>2, <1>4, <2>2 DEF Record, TypeOK, Lender
      <2>4. \A l \in Ledgers : added[l] = IF l = "unreceipted" THEN A ELSE 0  BY DEF Nothing
      <2>5. Fits(t, added)
        <3>1. added \in [Ledgers -> Nat]  BY <1>1 DEF Nothing
        <3>2. ~(booked[t]["unreceipted"] > 0)  BY <1>1, <1>2 DEF Record
        <3>3. \A k \in Keyed : k \in Ledgers  BY DEF Keyed, Ledgers
        <3>4. owed \in Nat /\ added["loan"] = 0  BY <1>1, <2>4 DEF TypeOK, Ledgers
        <3> HIDE DEF added
        <3>5. booked[t]["unreceipted"] = 0  BY <1>1, <3>2 DEF Ledgers
        <3>6. \A k \in Keyed : booked[t][k] <= Amount[t] => booked[t][k] + added[k] <= Amount[t]
          BY <1>1, <2>4, <3>3, <3>5
        <3> QED BY <3>1, <3>4, <3>6 DEF Fits
      <2>6. added["loan"] = 0  BY <2>4 DEF Ledgers
      <2> HIDE DEF added
      <2>7. /\ \A l \in Ledgers : added[l] \in Nat /\ booked'[t][l] = booked[t][l] + added[l]
            /\ \A u \in Receipts : u # t => booked'[u] = booked[u]
            /\ \A u \in Receipts : Stamped(u) => Stamped(u)'
            /\ StampsInOrder'
        BY <1>2, <2>1, <2>5, <2>6, AddedTo
      <2>8. /\ \A l \in Ledgers \ {"unreceipted"} : booked'[t][l] = booked[t][l]
            /\ booked'[t]["unreceipted"] = A
        <3>1. booked[t]["unreceipted"] = 0
          <4>1. ~(booked[t]["unreceipted"] > 0)  BY <1>1, <1>2 DEF Record
          <4> QED BY <1>1, <4>1 DEF Ledgers
        <3>2. added["unreceipted"] = A /\ booked'[t]["unreceipted"] = 0 + A
          BY <2>4, <2>7, <3>1 DEF Ledgers
        <3>3. \A l \in Ledgers \ {"unreceipted"} : booked'[t][l] = booked[t][l]
          BY <1>1, <2>4, <2>7
        <3> QED BY <1>1, <3>2, <3>3
      <2>9. \A l \in {"savings", "loan", "plan", "welfare", "campaign", "invoice"} :
               booked'[t][l] = booked[t][l]
        BY <2>8 DEF Ledgers
      <2>10. Record(t)'
        BY <1>1, <1>2, <1>3, <1>4, <2>1, <2>2, <2>3, <2>9 DEF Record, Lender
      <2>11. Books(t)'
        BY <1>1, <1>2, <1>4, <2>3, <2>8, <2>9 DEF Books, Lender
      <2>12. ASSUME NEW u \in Receipts, u # t PROVE Kept(u)'
        <3>1. Kept(u)  BY DEF PlacedInv
        <3> QED BY <1>2, <1>3, <2>1, <2>7, <2>12, <3>1, ElsewhereKept
      <2> QED BY <2>7, <2>10, <2>11, <2>12 DEF Kept
    <1>5. CASE ~(money[t] = "moved" /\ pay[t].purpose = "contribution")
      <2>1. UNCHANGED <<booked, owed, stamp>>  BY <1>5 DEF Reconcile
      <2>2. CASE ~(money[t] = "moved" /\ pay[t].purpose = "stranger")
        <3>1. queue' = queue  BY <2>2 DEF Reconcile
        <3> QED BY <1>2, <1>3, <2>1, <3>1, UnbookedKept, StampsKept
      <2>3. CASE money[t] = "moved" /\ pay[t].purpose = "stranger"
        <3>1. File(t, "checkout")  BY <2>3 DEF Reconcile
        <3>2. \A u \in Receipts, k \in {"receipt", "checkout"} :
                 u # t \/ k # "checkout" => queue'[u][k] = queue[u][k]
          BY <1>1, <3>1, FileType
        <3>3. ~ pay[t].notified  BY <1>1, <1>2, <2>3 DEF Plain
        <3>4. paid[t] = "none"  BY <1>1, <1>2, <3>3 DEF Record, TypeOK
        <3>5. Books(t)'  BY <1>1, <1>2, <2>1 DEF Books, Lender
        <3>6. queue'[t]["receipt"] = queue[t]["receipt"]  BY <3>2
        <3>7. Record(t)'
          BY <1>1, <1>2, <1>3, <2>1, <2>3, <3>3, <3>4, <3>6 DEF Record, Lender, Stamped
        <3>8. ASSUME NEW u \in Receipts, u # t PROVE Kept(u)'
          <4>1. Kept(u)  BY DEF PlacedInv
          <4>2. Stamped(u) => Stamped(u)'  BY <2>1 DEF Stamped
          <4> QED BY <1>2, <1>3, <2>1, <3>2, <3>8, <4>1, <4>2, ElsewhereKept
        <3> QED BY <2>1, <3>5, <3>7, <3>8, StampsKept DEF Kept
      <2> QED BY <2>2, <2>3
    <1> QED BY <1>4, <1>5

\* An officer books a queued receipt: it is no repayment, and no other ledger holds it.
LEMMA AllocateKeeps ==
    ASSUME PlacedInv, NEW t \in Receipts, NEW key \in {"receipt", "checkout"}, Allocate(t, key)
    PROVE  StampsInOrder' /\ \A u \in Receipts : Kept(u)'
    <1> DEFINE l == IF key = "receipt" THEN "savings" ELSE "unreceipted"
               added == Once(t, l, Amount[t])
               A == Amount[t]
    <1>1. /\ TypeOK /\ Record(t) /\ Books(t) /\ Plain(pay[t], A)
          /\ pay[t] \in Payments /\ A \in Nat \ {0}
          /\ \A k \in Ledgers : booked[t][k] \in Nat
      BY Paying DEF PlacedInv, AllPlain, Kept
    <1>2. /\ queue[t][key] = "open" /\ pay[t].purpose \notin {"plan", "unsold"}
          /\ Resolve(t, key) /\ Add(t, added)
          /\ UNCHANGED <<pay, prompt, paid>>
      BY DEF Allocate, Subscribes
    <1>3. l \in Ledgers \ {"loan"}  BY DEF Ledgers
    <1>4. Fits(t, added)  BY <1>1, <1>3, OnceFits
    <1>5. \A k \in Ledgers : added[k] = IF k = l THEN (IF booked[t][l] > 0 THEN 0 ELSE A) ELSE 0
      BY DEF Once, Nothing
    <1>6. added["loan"] = 0  BY <1>5 DEF Ledgers
    <1>7. /\ key = "receipt" /\ Allocates(added) /\ paid[t] # "none" => MarkSpine(t, "allocated")
          /\ ~(key = "receipt" /\ Allocates(added) /\ paid[t] # "none") => spine' = spine
      BY DEF Allocate
    <1>8. /\ \A u \in Receipts, k \in {"receipt", "checkout"} :
               u # t \/ k # key => queue'[u][k] = queue[u][k]
      BY <1>1, <1>2, FileType
    <1> HIDE DEF added
    <1>9. /\ \A k \in Ledgers : added[k] \in Nat /\ booked'[t][k] = booked[t][k] + added[k]
          /\ \A u \in Receipts : u # t => booked'[u] = booked[u]
          /\ \A u \in Receipts : Stamped(u) => Stamped(u)'
          /\ StampsInOrder'
      BY <1>2, <1>4, <1>6, AddedTo
    <1>10. /\ \A k \in Ledgers \ {l} : booked'[t][k] = booked[t][k]
           /\ booked[t][l] > 0 => booked'[t][l] = booked[t][l]
           /\ booked[t][l] = 0 => booked'[t][l] = A
      BY <1>1, <1>3, <1>5, <1>9
    <1>11. \A u \in Receipts : u # t => spine'[u] = spine[u]
      BY <1>1, <1>7, MarkedAs
    <1>12. ASSUME NEW u \in Receipts, u # t PROVE Kept(u)'
      <2>1. Kept(u)  BY DEF PlacedInv
      <2> QED BY <1>2, <1>8, <1>9, <1>11, <1>12, <2>1, ElsewhereKept
    <1>13. \A k \in {"loan", "plan", "welfare", "campaign", "invoice"} : booked'[t][k] = booked[t][k]
      BY <1>10 DEF Ledgers
    <1>14. ASSUME key = "checkout" PROVE Kept(t)'
      <2>1. spine' = spine /\ l = "unreceipted"  BY <1>7, <1>14
      <2>2. booked'[t]["savings"] = booked[t]["savings"] /\ booked'[t]["unreceipted"] \in {0, A}
        BY <1>1, <1>10, <2>1 DEF Books, Ledgers
      <2>3. /\ paid[t] = "none" /\ prompt[t] = "completed" /\ ~ pay[t].notified
            /\ pay[t].purpose = "stranger"
        BY <1>1, <1>2, <1>14 DEF Record
      <2>4. queue'[t]["receipt"] = queue[t]["receipt"]  BY <1>8, <1>14
      <2>5. Record(t)'  BY <1>1, <1>2, <1>13, <2>1, <2>2, <2>3, <2>4 DEF Record, Lender
      <2>6. Books(t)'  BY <1>1, <1>2, <1>13, <2>1, <2>2, <2>3 DEF Books, Lender
      <2> QED BY <2>5, <2>6 DEF Kept
    <1>15. ASSUME key = "receipt" PROVE Kept(t)'
      <2>1. l = "savings"  BY <1>15
      <2>2. ~ Lender(t) /\ booked[t]["loan"] = 0
        BY <1>1, <1>2, <1>15 DEF Record, Books
      <2>3. booked'[t]["unreceipted"] = booked[t]["unreceipted"]
        BY <1>10, <2>1 DEF Ledgers
      <2>4. booked'[t]["savings"] = A
        <3>1. booked[t]["savings"] \in Nat  BY <1>1 DEF Ledgers
        <3>2. booked[t]["savings"] \in {0, A}  BY <1>1, <2>2, <3>1 DEF Books
        <3> QED BY <1>1, <1>10, <2>1, <3>2
      <2>5. queue'[t]["checkout"] = queue[t]["checkout"]  BY <1>8, <1>15
      <2>6. ~(booked[t]["unreceipted"] > 0) /\ queue[t]["checkout"] = "none"
        BY <1>1, <1>2, <1>15 DEF Record
      <2>7. paid[t] = "none" => /\ pay[t].purpose = "deposit" /\ pay[t].route = "nowhere"
                                /\ pay[t].notified /\ spine' = spine
        <3>1. ASSUME paid[t] = "none" PROVE pay[t].notified /\ pay[t].route = "nowhere"
          BY <1>1, <1>2, <1>15, <3>1 DEF Record
        <3>2. pay[t].purpose \in {"deposit", "contribution", "stranger", "loan", "plan", "unsold"}
          BY <1>1 DEF Payments, Purposes
        <3> QED BY <1>1, <1>2, <1>7, <3>1, <3>2 DEF Plain
      <2>8. paid[t] # "none" => spine'[t] = "allocated"
        <3>1. ASSUME paid[t] # "none", booked[t]["savings"] = 0 PROVE spine'[t] = "allocated"
          <4>1. added["savings"] = A  BY <1>5, <2>1, <3>1 DEF Ledgers
          <4>2. Allocates(added)  BY <1>1, <4>1 DEF Allocates
          <4> QED BY <1>1, <1>7, <1>15, <3>1, <4>2, MarkedAs
        <3>2. ASSUME paid[t] # "none", booked[t]["savings"] # 0 PROVE spine'[t] = "allocated"
          <4>1. spine[t] = "allocated"  BY <1>1, <3>2 DEF Books
          <4> QED BY <1>1, <1>7, <4>1, MarkedAs
        <3> QED BY <3>1, <3>2
      <2>9. Record(t)'
        BY <1>1, <1>2, <1>13, <2>2, <2>3, <2>4, <2>5, <2>6, <2>7 DEF Record, Lender
      <2>10. booked'[t]["loan"] = 0 /\ booked'[t]["plan"] = 0
        BY <1>1, <1>2, <1>13, <2>2 DEF Books
      <2>11. Books(t)'
        BY <1>1, <1>2, <1>13, <2>2, <2>3, <2>4, <2>8, <2>10 DEF Books, Lender
      <2> QED BY <2>9, <2>11 DEF Kept
    <1> QED BY <1>9, <1>12, <1>14, <1>15

LEMMA ActivateKeeps ==
    ASSUME PlacedInv, NEW t \in Receipts, StaffActivate(t)
    PROVE  StampsInOrder' /\ \A u \in Receipts : Kept(u)'
    <1> DEFINE added == Once(t, "plan", Amount[t])
               A == Amount[t]
    <1>1. /\ TypeOK /\ Record(t) /\ Books(t) /\ Plain(pay[t], A)
          /\ pay[t] \in Payments /\ A \in Nat \ {0}
          /\ \A k \in Ledgers : booked[t][k] \in Nat
      BY Paying DEF PlacedInv, AllPlain, Kept
    <1>2. /\ queue[t]["receipt"] = "open" /\ pay[t].purpose \in {"plan", "unsold"}
          /\ Resolve(t, "receipt") /\ Add(t, added) /\ MarkSpine(t, "allocated")
          /\ UNCHANGED <<pay, prompt>>
      BY DEF StaffActivate, Subscribes
    <1>3. Fits(t, added)  BY <1>1, OnceFits DEF Ledgers
    <1>4. \A k \in Ledgers : added[k] = IF k = "plan" THEN (IF booked[t]["plan"] > 0 THEN 0 ELSE A) ELSE 0
      BY DEF Once, Nothing
    <1>5. added["loan"] = 0  BY <1>4 DEF Ledgers
    <1>6. \A u \in Receipts, k \in {"receipt", "checkout"} :
             u # t \/ k # "receipt" => queue'[u][k] = queue[u][k]
      BY <1>1, <1>2, FileType
    <1>7. /\ paid'[t] = IF paid[t] = "none" THEN "paybill" ELSE paid[t]
          /\ \A u \in Receipts : u # t => paid'[u] = paid[u]
      BY <1>1 DEF TypeOK, StaffActivate
    <1> HIDE DEF added
    <1>8. /\ \A k \in Ledgers : added[k] \in Nat /\ booked'[t][k] = booked[t][k] + added[k]
          /\ \A u \in Receipts : u # t => booked'[u] = booked[u]
          /\ \A u \in Receipts : Stamped(u) => Stamped(u)'
          /\ StampsInOrder'
      BY <1>2, <1>3, <1>5, AddedTo
    <1>9. spine'[t] = "allocated" /\ \A u \in Receipts : u # t => spine'[u] = spine[u]
      BY <1>1, <1>2, MarkedAs
    <1>10. /\ \A k \in {"savings", "loan", "unreceipted", "welfare", "campaign", "invoice"} :
                booked'[t][k] = booked[t][k]
           /\ booked'[t]["plan"] = A
      <2>1. \A k \in Ledgers \ {"plan"} : booked'[t][k] = booked[t][k]  BY <1>1, <1>4, <1>8
      <2>2. booked[t]["plan"] \in {0, A} /\ booked[t]["plan"] \in Nat
        BY <1>1 DEF Books, Ledgers
      <2>3. booked'[t]["plan"] = booked[t]["plan"] + (IF booked[t]["plan"] > 0 THEN 0 ELSE A)
        BY <1>4, <1>8 DEF Ledgers
      <2> QED BY <1>1, <2>1, <2>2, <2>3 DEF Ledgers
    <1>11. ASSUME NEW u \in Receipts, u # t PROVE Kept(u)'
      <2>1. Kept(u)  BY DEF PlacedInv
      <2> QED BY <1>2, <1>6, <1>7, <1>8, <1>9, <1>11, <2>1, ElsewhereKept
    <1>12. pay[t].notified => pay[t].route # "loan"  BY <1>1, <1>2 DEF Plain
    <1>13. queue'[t]["checkout"] = "none" /\ booked[t]["unreceipted"] = 0
      BY <1>1, <1>2, <1>6 DEF Record, Books
    <1>14. ~ Lender(t)  BY <1>2, <1>12 DEF Lender
    <1>15. Record(t)'
      BY <1>1, <1>2, <1>7, <1>10, <1>12, <1>13, <1>14 DEF Record, Lender
    <1>16. Books(t)'
      BY <1>1, <1>2, <1>9, <1>10, <1>14 DEF Books, Lender
    <1> QED BY <1>8, <1>11, <1>15, <1>16 DEF Kept

LEMMA DismissKeeps ==
    ASSUME PlacedInv, NEW t \in Receipts, NEW key \in {"receipt", "checkout"}, Dismiss(t, key)
    PROVE  StampsInOrder' /\ \A u \in Receipts : Kept(u)'
    <1>1. UNCHANGED <<pay, prompt, paid, spine, booked, stamp, owed>>
          /\ queue[t][key] = "open" /\ Resolve(t, key)
      BY DEF Dismiss
    <1>2. \A u \in Receipts, k \in {"receipt", "checkout"} :
             u # t \/ k # key => queue'[u][k] = queue[u][k]
      BY <1>1, FileType DEF PlacedInv
    <1>3. \A u \in Receipts, k \in {"receipt", "checkout"} :
             queue[u][k] = "none" => queue'[u][k] = "none"
      BY <1>1, <1>2
    <1> QED BY <1>1, <1>3, UnbookedKept, StampsKept

LEMMA PlacedStep ==
    ASSUME IInv, PlacedInv, [Next]_vars
    PROVE  PlacedInv'
    <1> DEFINE Fine == StampsInOrder' /\ \A u \in Receipts : Kept(u)'
    <1>1. pay' = pay /\ Starts'  BY StartsStep DEF PlacedInv
    <1>2. Holding'  BY HoldingStep
    <1>t. TypeOK'  BY StepIInv DEF IInv
    <1>p. AllPlain'  BY <1>1 DEF PlacedInv, AllPlain
    <1> SUFFICES Fine  BY <1>1, <1>2, <1>t, <1>p DEF PlacedInv
    <1>q. UNCHANGED <<prompt, paid, spine, booked, stamp, owed, queue>> => Fine
      BY <1>1, UnbookedKept, StampsKept
    <1>3. CASE Customer  BY <1>3, <1>q DEF Customer, Pay, Refuse, ledger
    <1>4. CASE Callback  BY <1>4, <1>q DEF Callback, DeliverConfirmation, DeliverResult, ledger
    <1>5. CASE Officers  BY <1>5, AllocateKeeps, ActivateKeeps, DismissKeeps DEF Officers
    <1>6. CASE Sweep  BY <1>6, SweepKeeps
    <1>7. CASE \E d \in Deliveries : LogCallback(d) \/ Replay(d)
      BY <1>7, <1>q DEF LogCallback, Replay, ledger
    <1>8. ASSUME NEW w \in Workers, Handle(w) \/ Kill(w) PROVE Fine
      <2>1. CASE CheckConfirmation(w) \/ CheckResult(w) \/ Abort(w) \/ Finish(w) \/ Kill(w)
        <3>1. UNCHANGED ledger
          BY <2>1 DEF CheckConfirmation, CheckResult, Abort, Finish, Kill
        <3> QED BY <1>q, <3>1 DEF ledger
      <2>2. CASE ApplyRefusal(w)
        <3>1. \A u \in Receipts : prompt[u] \in {"completed", "none"} => prompt'[u] = prompt[u]
          BY <2>2 DEF ApplyRefusal, PlacedInv, TypeOK
        <3>2. UNCHANGED <<pay, paid, spine, booked, stamp, owed, queue>>  BY <2>2 DEF ApplyRefusal
        <3> QED BY <3>1, <3>2, UnbookedKept, StampsKept
      <2>3. CASE ApplyConfirmation(w)  BY <2>3, ConfirmationKeeps
      <2>4. CASE ApplyResult(w)  BY <2>4, ResultKeeps
      <2> QED BY <1>8, <2>1, <2>2, <2>3, <2>4 DEF Handle
    <1>9. CASE \E t \in Receipts : Reconcile(t)  BY <1>9, ReconcileKeeps
    <1>10. CASE UNCHANGED vars  BY <1>10, <1>q DEF vars
    <1> QED BY <1>3, <1>4, <1>5, <1>6, <1>7, <1>8, <1>9, <1>10 DEF Next

-------------------------------------------------------------------------------
(* The ledgers of a receipt together.                                      *)

LEMMA TotalOfLedgers ==
    ASSUME NEW t \in Receipts, \A l \in Ledgers : booked[t][l] \in Nat
    PROVE  Total(t) = booked[t]["savings"] + booked[t]["loan"] + booked[t]["plan"]
                      + booked[t]["unreceipted"] + booked[t]["welfare"]
                      + booked[t]["campaign"] + booked[t]["invoice"]
    <1> DEFINE b == booked[t]
               S1 == {"savings"}
               S2 == S1 \cup {"loan"}
               S3 == S2 \cup {"plan"}
               S4 == S3 \cup {"unreceipted"}
               S5 == S4 \cup {"welfare"}
               S6 == S5 \cup {"campaign"}
               S7 == S6 \cup {"invoice"}
    <1>1. /\ IsFiniteSet(S1) /\ IsFiniteSet(S2) /\ IsFiniteSet(S3) /\ IsFiniteSet(S4)
          /\ IsFiniteSet(S5) /\ IsFiniteSet(S6) /\ IsFiniteSet(S7)
      <2>1. IsFiniteSet(S1)  BY FS_Singleton
      <2> HIDE DEF S1
      <2>2. IsFiniteSet(S2)  BY <2>1, FS_AddElement
      <2> HIDE DEF S2
      <2>3. IsFiniteSet(S3)  BY <2>2, FS_AddElement
      <2> HIDE DEF S3
      <2>4. IsFiniteSet(S4)  BY <2>3, FS_AddElement
      <2> HIDE DEF S4
      <2>5. IsFiniteSet(S5)  BY <2>4, FS_AddElement
      <2> HIDE DEF S5
      <2>6. IsFiniteSet(S6)  BY <2>5, FS_AddElement
      <2> HIDE DEF S6
      <2>7. IsFiniteSet(S7)  BY <2>6, FS_AddElement
      <2> QED BY <2>1, <2>2, <2>3, <2>4, <2>5, <2>6, <2>7
    <1>2. S7 = Ledgers  BY DEF Ledgers
    <1>3. \A l \in S7 : b[l] \in Int  BY <1>2
    <1>4. /\ Summable(b, S2) /\ Summable(b, S3) /\ Summable(b, S4) /\ Summable(b, S5)
          /\ Summable(b, S6) /\ Summable(b, S7) /\ b["savings"] \in Int
      BY <1>1, <1>3 DEF Summable
    <1>5. /\ "loan" \notin S1 /\ "plan" \notin S2 /\ "unreceipted" \notin S3
          /\ "welfare" \notin S4 /\ "campaign" \notin S5 /\ "invoice" \notin S6
      OBVIOUS
    <1>6. SumFunctionOnSet(b, S1) = b["savings"]  BY <1>4, SumOfOne
    <1> HIDE DEF S1
    <1>7. SumFunctionOnSet(b, S2) = b["loan"] + SumFunctionOnSet(b, S1)  BY <1>4, <1>5, SumWith
    <1> HIDE DEF S2
    <1>8. SumFunctionOnSet(b, S3) = b["plan"] + SumFunctionOnSet(b, S2)  BY <1>4, <1>5, SumWith
    <1> HIDE DEF S3
    <1>9. SumFunctionOnSet(b, S4) = b["unreceipted"] + SumFunctionOnSet(b, S3)  BY <1>4, <1>5, SumWith
    <1> HIDE DEF S4
    <1>10. SumFunctionOnSet(b, S5) = b["welfare"] + SumFunctionOnSet(b, S4)  BY <1>4, <1>5, SumWith
    <1> HIDE DEF S5
    <1>11. SumFunctionOnSet(b, S6) = b["campaign"] + SumFunctionOnSet(b, S5)  BY <1>4, <1>5, SumWith
    <1> HIDE DEF S6
    <1>12. SumFunctionOnSet(b, S7) = b["invoice"] + SumFunctionOnSet(b, S6)  BY <1>4, <1>5, SumWith
    <1>13. \A l \in {"savings", "loan", "plan", "unreceipted", "welfare", "campaign", "invoice"} :
             b[l] \in Nat
      BY DEF Ledgers
    <1>14. Total(t) = SumFunctionOnSet(b, S7)  BY <1>2 DEF Total
    <1> HIDE DEF b, S7
    <1>15. Total(t) = b["savings"] + b["loan"] + b["plan"] + b["unreceipted"] + b["welfare"]
                      + b["campaign"] + b["invoice"]
      BY <1>6, <1>7, <1>8, <1>9, <1>10, <1>11, <1>12, <1>13, <1>14
    <1> QED BY <1>15 DEF b

\* No more than one of the ledgers holds the payment, and the spine says so.
LEMMA PlacedIsCredited == PlacedInv => CreditedOnce /\ SpineTellsTruth
    <1> SUFFICES ASSUME PlacedInv, NEW t \in Receipts
                 PROVE  /\ Total(t) <= Amount[t]
                        /\ paid[t] # "none" =>
                             IF spine[t] = "allocated" THEN Total(t) = Amount[t]
                             ELSE \A l \in {"savings", "welfare", "loan"} : booked[t][l] = 0
      BY DEF CreditedOnce, SpineTellsTruth
    <1>1. Record(t) /\ Books(t) /\ TypeOK  BY DEF PlacedInv, Kept
    <1>2. /\ pay[t] \in Payments /\ Amount[t] \in Nat \ {0}
          /\ \A l \in Ledgers : booked[t][l] \in Nat
      BY <1>1, Paying
    <1>3. Total(t) = booked[t]["savings"] + booked[t]["loan"] + booked[t]["plan"]
                     + booked[t]["unreceipted"]
      <2>1. booked[t]["savings"] \in Nat /\ booked[t]["loan"] \in Nat /\ booked[t]["plan"] \in Nat
            /\ booked[t]["unreceipted"] \in Nat
        BY <1>2 DEF Ledgers
      <2>2. /\ booked[t]["welfare"] = 0 /\ booked[t]["campaign"] = 0 /\ booked[t]["invoice"] = 0
        BY <1>1 DEF Books
      <2>3. Total(t) = booked[t]["savings"] + booked[t]["loan"] + booked[t]["plan"]
                       + booked[t]["unreceipted"] + booked[t]["welfare"]
                       + booked[t]["campaign"] + booked[t]["invoice"]
        BY <1>2, TotalOfLedgers
      <2> QED BY <2>1, <2>2, <2>3
    <1>4. booked[t]["unreceipted"] > 0 =>
            /\ booked[t]["savings"] = 0 /\ booked[t]["loan"] = 0
            /\ booked[t]["plan"] = 0 /\ paid[t] = "none"
      <2> SUFFICES ASSUME booked[t]["unreceipted"] > 0
                   PROVE  /\ booked[t]["savings"] = 0 /\ booked[t]["loan"] = 0
                          /\ booked[t]["plan"] = 0 /\ paid[t] = "none"
        OBVIOUS
      <2>1. paid[t] = "none" /\ ~ pay[t].notified  BY <1>1 DEF Record
      <2>2. pay[t].purpose \notin {"plan", "unsold"}  BY <1>1 DEF Books
      <2>3. booked[t]["plan"] = 0 /\ booked[t]["loan"] = 0  BY <1>1, <2>1, <2>2 DEF Record, Books
      <2>4. booked[t]["savings"] > 0 => FALSE
        BY <1>1, <2>1 DEF Record
      <2>5. booked[t]["savings"] \in Nat  BY <1>2 DEF Ledgers
      <2> QED BY <2>1, <2>3, <2>4, <2>5
    <1>5. booked[t]["unreceipted"] = 0 \/ booked[t]["unreceipted"] = Amount[t]  BY <1>1 DEF Books
    <1>6. Total(t) <= Amount[t]
      <2>1. booked[t]["savings"] \in Nat /\ booked[t]["loan"] \in Nat /\ booked[t]["plan"] \in Nat
        BY <1>2 DEF Ledgers
      <2>2. CASE booked[t]["unreceipted"] > 0  BY <1>2, <1>3, <1>4, <1>5, <2>2
      <2>3. CASE booked[t]["unreceipted"] = 0 /\ pay[t].purpose \in {"plan", "unsold"}
        BY <1>1, <1>2, <1>3, <2>1, <2>3 DEF Books
      <2>4. CASE booked[t]["unreceipted"] = 0 /\ pay[t].purpose \notin {"plan", "unsold"}
        BY <1>1, <1>2, <1>3, <2>1, <2>4 DEF Books
      <2> QED BY <1>2, <1>5, <2>2, <2>3, <2>4
    <1>7. ASSUME paid[t] # "none", spine[t] = "allocated" PROVE Total(t) = Amount[t]
      <2>1. booked[t]["unreceipted"] = 0  BY <1>2, <1>4, <1>5, <1>7
      <2>2. booked[t]["savings"] + booked[t]["loan"] + booked[t]["plan"] = Amount[t]
        BY <1>1, <1>7 DEF Books
      <2> QED BY <1>2, <1>3, <2>1, <2>2
    <1>8. ASSUME paid[t] # "none", spine[t] # "allocated"
          PROVE  \A l \in {"savings", "welfare", "loan"} : booked[t][l] = 0
      BY <1>1, <1>8 DEF Books
    <1> QED BY <1>6, <1>7, <1>8

\* What a receipt pays for never changes.
LEMMA PayStays == [Next]_vars => pay' = pay
    <1> SUFFICES ASSUME [Next]_vars PROVE pay' = pay
      OBVIOUS
    <1>1. CASE Customer  BY <1>1 DEF Customer, Pay, Refuse
    <1>2. CASE Callback  BY <1>2 DEF Callback, DeliverConfirmation, DeliverResult
    <1>3. CASE Officers  BY <1>3 DEF Officers, StaffActivate, Allocate, Dismiss
    <1>4. CASE Sweep  BY <1>4 DEF Sweep
    <1>5. CASE \E d \in Deliveries : LogCallback(d) \/ Replay(d)
      BY <1>5 DEF LogCallback, Replay
    <1>6. CASE \E w \in Workers : Handle(w) \/ Kill(w)
      BY <1>6 DEF Handle, Kill, CheckConfirmation, CheckResult, ApplyRefusal,
                  ApplyConfirmation, ApplyResult, Abort, Finish
    <1>7. CASE \E t \in Receipts : Reconcile(t)  BY <1>7 DEF Reconcile
    <1>8. CASE UNCHANGED vars  BY <1>8 DEF vars
    <1> QED BY <1>1, <1>2, <1>3, <1>4, <1>5, <1>6, <1>7, <1>8 DEF Next

LEMMA AlwaysPlaced == Spec => [](AllPlain => PlacedInv)
    <1>1. Init => (AllPlain => PlacedInv)  BY InitPlaced
    <1>2. IInv /\ (AllPlain => PlacedInv) /\ [Next]_vars => (AllPlain => PlacedInv)'
      <2> SUFFICES ASSUME IInv, AllPlain => PlacedInv, [Next]_vars, AllPlain'
                   PROVE  PlacedInv'
        OBVIOUS
      <2>1. AllPlain  BY PayStays DEF AllPlain
      <2> QED BY <2>1, PlacedStep
    <1> QED BY <1>1, <1>2, InitIInv, StepIInv, PTL DEF Spec

LEMMA CreditsWherePlaced == (AllPlain => PlacedInv) => CreditedOnce /\ SpineTellsTruth
    <1>1. CASE AllPlain  BY <1>1, PlacedIsCredited
    <1>2. CASE ~ AllPlain  BY <1>2 DEF CreditedOnce, SpineTellsTruth
    <1> QED BY <1>1, <1>2

\* Plain payments are credited once: in all ledgers together a receipt is worth no more than
\* the customer paid, however often its callbacks are delivered, replayed and killed, and
\* whichever handlers, jobs and officers meet over it.
THEOREM PlainPaymentsOnce == Spec => []CreditedOnce
    BY AlwaysPlaced, CreditsWherePlaced, PTL

\* The allocation status of a plain payment is what its ledgers say.
THEOREM PlainSpineTruth == Spec => []SpineTellsTruth
    BY AlwaysPlaced, CreditsWherePlaced, PTL
===============================================================================
