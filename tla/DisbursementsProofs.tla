-------------------------- MODULE DisbursementsProofs --------------------------
(***************************************************************************)
(* What holds of the disbursement spine for every set of requests, every   *)
(* amount and, unless a theorem says otherwise, every fault.               *)
(***************************************************************************)
EXTENDS Disbursements, SumTheorems

\* The money of a request, and what a posting of it can credit, is a natural number.
LEMMA AmountIsNat ==
  ASSUME NEW k \in Keys
  PROVE  /\ Amount(k) \in Nat \ {0}
         /\ \A charge \in Nat, chart \in Charts : Posted(k, charge, chart) \in Nat
  BY InputAssumption, ModeAssumption DEF Amount, Posted, Requests, AllCharts

LEMMA InitType == Init => TypeOK
  BY ModeAssumption
  DEF Init, TypeOK, Statuses, PCs, DarajaStates, LoanStatuses

LEMMA OfficerType ==
  ASSUME TypeOK, NEW k \in Keys, Officer(k) \/ Commit(k)
  PROVE  TypeOK'
  <1> USE AmountIsNat DEF TypeOK, rowVars, cashVars, wireVars, loanVars, Statuses, PCs
  <1>1. CASE Begin(k)  BY <1>1 DEF Begin
  <1>2. CASE Commit(k)  BY <1>2 DEF Commit
  <1>3. CASE Reject(k)  BY <1>3 DEF Reject, Decline, ReleaseReservation
  <1>4. CASE Cancel(k)  BY <1>4 DEF Cancel, ReleaseReservation
  <1>5. CASE PlatformApproveMpesa(k)  BY <1>5 DEF PlatformApproveMpesa
  <1>6. CASE PlatformExecute(k)  BY <1>6 DEF PlatformExecute, ReleaseReservation
  <1>7. CASE PlatformReject(k)  BY <1>7 DEF PlatformReject, Decline, ReleaseReservation
  <1>8. ASSUME NEW o \in Officers
        PROVE  Approve(k, o) \/ TreasurerApprove(k, o) \/ TreasurerReject(k, o) => TypeOK'
    <2>1. CASE Approve(k, o)  BY <2>1 DEF Approve
    <2>2. CASE TreasurerApprove(k, o)  BY <2>2 DEF TreasurerApprove
    <2>3. CASE TreasurerReject(k, o)  BY <2>3 DEF TreasurerReject, Decline, ReleaseReservation
    <2> QED BY <2>1, <2>2, <2>3
  <1> QED BY <1>1, <1>2, <1>3, <1>4, <1>5, <1>6, <1>7, <1>8 DEF Officer

LEMMA DispatcherType ==
  ASSUME TypeOK, NEW k \in Keys, Dispatcher(k) \/ Crash(k) \/ DarajaSettles(k) \/ WatchdogTimeout(k)
  PROVE  TypeOK'
  <1> USE AmountIsNat, ModeAssumption
      DEF TypeOK, rowVars, cashVars, wireVars, loanVars, dispatchRest, Goto, Statuses, PCs, DarajaStates
  <1>1. CASE Claim(k)  BY <1>1 DEF Claim
  <1>2. CASE PostAccepted(k)  BY <1>2 DEF PostAccepted
  <1>3. CASE PostRefused(k)  BY <1>3 DEF PostRefused
  <1>4. CASE PostAnswerLost(k)  BY <1>4 DEF PostAnswerLost
  <1>5. CASE RecordB2C(k)  BY <1>5 DEF RecordB2C
  <1>6. CASE AuditDispatch(k)
    <2>1. CASE UNCHANGED armed  BY <1>6, <2>1 DEF AuditDispatch
    <2>2. CASE armed' = [armed EXCEPT ![k] = Qstash]  BY <1>6, <2>2 DEF AuditDispatch
    <2> QED BY <1>6, <2>1, <2>2 DEF AuditDispatch
  <1>7. CASE StepError(k)  BY <1>7 DEF StepError
  <1>8. CASE DispatchFailed(k)
    <2>1. hold' \in [Keys -> Int]  BY <1>8 DEF DispatchFailed, ReleaseReservation
    <2>2. status' \in [Keys -> Statuses \cup {None}]
      <3>1. \/ status' = status
            \/ status' = [status EXCEPT ![k] = IF @ = "dispatched" THEN "failed" ELSE @]
        BY <1>8 DEF DispatchFailed
      <3>2. status[k] \in Statuses \cup {None}  OBVIOUS
      <3> QED BY <3>1, <3>2
    <2>3. pc' \in [Keys -> PCs]  BY <1>8 DEF DispatchFailed
    <2>4. UNCHANGED <<dispatchRest, wireVars>>  BY <1>8 DEF DispatchFailed
    <2> QED BY <2>1, <2>2, <2>3, <2>4
  <1>9. CASE Crash(k)  BY <1>9 DEF Crash
  <1>10. CASE DarajaSettles(k)  BY <1>10 DEF DarajaSettles
  <1>11. CASE WatchdogTimeout(k)  BY <1>11 DEF WatchdogTimeout
  <1> QED BY <1>1, <1>2, <1>3, <1>4, <1>5, <1>6, <1>7, <1>8, <1>9, <1>10, <1>11 DEF Dispatcher

\* Settling a row leaves a reservation and a status.
LEMMA SettleType ==
  ASSUME TypeOK, NEW k \in Keys, NEW final \in {"completed", "failed"}, SettleRow(k, final)
  PROVE  hold' \in [Keys -> Int] /\ status' \in [Keys -> Statuses \cup {None}]
  <1>1. hold \in [Keys -> Int] /\ status \in [Keys -> Statuses \cup {None}]  BY DEF TypeOK
  <1>2. Amount(k) \in Int /\ final \in Statuses  BY AmountIsNat DEF Statuses
  <1>3. CASE status[k] \in Releasable  BY <1>1, <1>2, <1>3 DEF SettleRow, ReleaseReservation
  <1>4. CASE status[k] \notin Releasable  BY <1>1, <1>4 DEF SettleRow
  <1> QED BY <1>3, <1>4

LEMMA ResultType ==
  ASSUME TypeOK, NEW k \in Keys, Result(k)
  PROVE  TypeOK'
  <1> USE AmountIsNat, MoneyAssumption, SettleType
      DEF TypeOK, rowVars, cashVars, wireVars, loanVars, dispatchRest, Deliver
  <1>0. ASSUME NEW charge \in Nat, NEW chart \in Charts, PostMemberJournal(k, charge, chart)
        PROVE  /\ booked' \in [Keys -> Nat]
               /\ journaled' \in [Keys -> BOOLEAN]
               /\ feeRecorded' \in [Keys -> BOOLEAN]
    <2>1. CASE journaled[k]  BY <1>0, <2>1 DEF PostMemberJournal
    <2>2. CASE ~journaled[k]
      <3>1. booked' = [booked EXCEPT ![k] = @ + Posted(k, charge, chart)]
        BY <1>0, <2>2 DEF PostMemberJournal
      <3>2. booked' \in [Keys -> Nat]  BY <1>0, <3>1
      <3>3. /\ feeRecorded' = [feeRecorded EXCEPT ![k] = @ \/ charge > 0]
            /\ journaled' = [journaled EXCEPT ![k] = chart # "missing"]
        BY <1>0, <2>2 DEF PostMemberJournal
      <3>4. feeRecorded' \in [Keys -> BOOLEAN] /\ journaled' \in [Keys -> BOOLEAN]
        BY <3>3, Zenon
      <3> QED BY <3>2, <3>4
    <2> QED BY <2>1, <2>2
  <1>1. CASE ResultUnmatched(k)  BY <1>1 DEF ResultUnmatched
  <1>6. CASE ResultLoanAborted(k)  BY <1>6 DEF ResultLoanAborted
  <1>2. CASE ResultFailure(k)  BY <1>2 DEF ResultFailure
  <1>3. CASE ResultSuccessMember(k)  BY <1>0, <1>3 DEF ResultSuccessMember
  <1>4. CASE ResultSuccessLoan(k)
    <2>1. PICK chart \in Charts : ApplyLoanDisbursement(k, chart)  BY <1>4 DEF ResultSuccessLoan
    <2>2. /\ loan' \in [Loans -> LoanStatuses]
          /\ booked' \in [Keys -> Nat]
      <3>1. CASE Flips(k)
        <4>1. /\ loan' = [loan EXCEPT ![Input[k].loan] = "disbursed"]
              /\ booked' = [booked EXCEPT ![k] = @ + Posted(k, Fee, chart)]
          BY <2>1, <3>1 DEF ApplyLoanDisbursement
        <4>2. Posted(k, Fee, chart) \in Nat  OBVIOUS
        <4>3. booked' \in [Keys -> Nat]  BY <4>1, <4>2
        <4> QED BY <4>1, <4>3 DEF LoanStatuses
      <3>2. CASE ~Flips(k)  BY <2>1, <3>2 DEF ApplyLoanDisbursement
      <3> QED BY <3>1, <3>2
    <2>3. feeRecorded' \in [Keys -> BOOLEAN]  BY <2>1, Zenon DEF ApplyLoanDisbursement
    <2>4. /\ UNCHANGED <<approvedBy, signedOff, journaled, armed, daraja, attributed, loanBooked,
                         teller, pc>>
          /\ deliveries' \in [Keys -> Nat]
          /\ b2c' \in [Keys -> {None, "initiated", "completed", "failed"}]
          /\ SettleRow(k, "completed")
      BY <1>4 DEF ResultSuccessLoan
    <2> QED BY <2>2, <2>3, <2>4
  <1>5. CASE ResultSuccessPlain(k)
    <2>1. PICK chart \in Charts :
            booked' = [booked EXCEPT ![k] = @ + IF chart = "complete" THEN Fee ELSE 0]
      BY <1>5 DEF ResultSuccessPlain
    <2> DEFINE fee == IF chart = "complete" THEN Fee ELSE 0
    <2>4. fee \in Nat  OBVIOUS
    <2>5. booked' = [booked EXCEPT ![k] = @ + fee]  BY <2>1
    <2> HIDE DEF fee
    <2>6. booked' \in [Keys -> Nat]  BY <2>4, <2>5
    <2>2. feeRecorded' \in [Keys -> BOOLEAN]  BY <1>5, Zenon DEF ResultSuccessPlain
    <2>3. /\ UNCHANGED <<approvedBy, signedOff, journaled, armed, daraja, loan, attributed,
                         loanBooked, teller, pc>>
          /\ deliveries' \in [Keys -> Nat]
          /\ b2c' \in [Keys -> {None, "initiated", "completed", "failed"}]
          /\ SettleRow(k, "completed")
      BY <1>5 DEF ResultSuccessPlain
    <2> QED BY <2>2, <2>3, <2>6
  <1> QED BY <1>1, <1>2, <1>3, <1>4, <1>5, <1>6 DEF Result

LEMMA DeskType ==
  ASSUME TypeOK, RepostMissingJournals \/ LoanDesk
  PROVE  TypeOK'
  <1> USE MoneyAssumption DEF TypeOK, rowVars, cashVars, wireVars, loanVars, dispatchRest, LoanStatuses
  <1>1. CASE RepostMissingJournals
    <2>1. \A k \in Keys : RepostCharge(k) \in Nat  BY DEF RepostCharge
    <2>2. PICK chart \in Charts :
            /\ booked' = [k \in Keys |->
                 booked[k] + IF k \in MissingJournals THEN Posted(k, RepostCharge(k), chart) ELSE 0]
            /\ journaled' = [k \in Keys |->
                 journaled[k] \/ (k \in MissingJournals /\ chart # "missing")]
      BY <1>1 DEF RepostMissingJournals
    <2>3. booked' \in [Keys -> Nat]  BY <2>1, <2>2, AmountIsNat
    <2> QED BY <1>1, <2>2, <2>3 DEF RepostMissingJournals
  <1>2. ASSUME NEW l \in Loans, NEW o \in Officers, RejectLoan(l) \/ DisburseRead(o, l)
        PROVE  TypeOK'
    BY <1>2 DEF RejectLoan, DisburseRead
  <1>3. ASSUME NEW o \in Officers
        PROVE  DisburseWrite(o) \/ DisburseRefused(o) => TypeOK'
    <2>1. CASE DisburseWrite(o)
      <3>1. teller[o] \in Loans  BY <2>1 DEF DisburseWrite
      <3> QED BY <2>1, <3>1 DEF DisburseWrite
    <2>2. CASE DisburseRefused(o)  BY <2>2 DEF DisburseRefused
    <2> QED BY <2>1, <2>2
  <1>4. ASSUME NEW l \in Loans, RejectLoan(l)
        PROVE  TypeOK'
    BY <1>4 DEF RejectLoan
  <1> QED BY <1>1, <1>2, <1>3, <1>4 DEF LoanDesk
\* Every step preserves the types, for all constants and all faults.
LEMMA StepType == TypeOK /\ [Next]_vars => TypeOK'
  <1> SUFFICES ASSUME TypeOK, [Next]_vars PROVE TypeOK'
    OBVIOUS
  <1>1. ASSUME NEW k \in Keys,
               Officer(k) \/ Commit(k) \/ Dispatcher(k) \/ Crash(k) \/ DarajaSettles(k)
                 \/ Result(k) \/ WatchdogTimeout(k)
        PROVE  TypeOK'
    BY <1>1, OfficerType, DispatcherType, ResultType
  <1>2. CASE RepostMissingJournals \/ LoanDesk  BY <1>2, DeskType
  <1>3. CASE UNCHANGED vars
    BY <1>3 DEF TypeOK, vars, rowVars, cashVars, wireVars, loanVars
  <1> QED BY <1>1, <1>2, <1>3 DEF Next

\* The variables always have their types: in particular no posting of any chart of
\* accounts credits a negative amount, whatever the order of callbacks and repairs.
THEOREM TypeCorrect == Spec => []TypeOK
  <1> QED BY InitType, StepType, PTL DEF Spec

-----------------------------------------------------------------------------
(* Settled rows *)

\* An initiateDisbursement between its checks and its commit has not written its row.
InitiatingIsNew == \A k \in Keys : pc[k] = "initiating" => status[k] = None

\* What one step may do to the status of one row.
Lifecycle(k) ==
  \/ status'[k] = status[k]
  \/ status[k] = None /\ status'[k] \in {"pending_approval", "approved"}
  \/ status[k] = "pending_approval"
       /\ status'[k] \in {"approved", "awaiting_platform", "rejected", "cancelled"}
  \/ status[k] = "awaiting_platform"
       /\ status'[k] \in {"approved", "completed", "rejected", "cancelled"}
  \/ status[k] \in {"approved", "dispatched"}
       /\ status'[k] \in {"dispatched", "completed", "failed", "timed_out"}

LEMMA NewRowStep ==
  ASSUME TypeOK, InitiatingIsNew, [Next]_vars
  PROVE  InitiatingIsNew' /\ \A k \in Keys : Lifecycle(k)
  <1> USE DEF TypeOK, InitiatingIsNew, Lifecycle, None
  <1>1. ASSUME NEW k \in Keys, Officer(k) \/ Commit(k)
        PROVE  InitiatingIsNew' /\ \A j \in Keys : Lifecycle(j)
    <2>1. CASE Begin(k)  BY <2>1 DEF Begin, rowVars
    <2>2. CASE Commit(k)  BY <2>2 DEF Commit
    <2>3. CASE Reject(k)  BY <2>3 DEF Reject, Decline
    <2>4. CASE Cancel(k)  BY <2>4 DEF Cancel, Cancellable
    <2>5. CASE PlatformApproveMpesa(k)  BY <2>5 DEF PlatformApproveMpesa
    <2>6. CASE PlatformExecute(k)  BY <2>6 DEF PlatformExecute
    <2>7. CASE PlatformReject(k)  BY <2>7 DEF PlatformReject, Decline
    <2>8. ASSUME NEW o \in Officers
          PROVE  Approve(k, o) \/ TreasurerApprove(k, o) \/ TreasurerReject(k, o)
                   => InitiatingIsNew' /\ \A j \in Keys : Lifecycle(j)
      BY DEF Approve, TreasurerApprove, TreasurerReject, Decline
    <2> QED BY <1>1, <2>1, <2>2, <2>3, <2>4, <2>5, <2>6, <2>7, <2>8 DEF Officer
  <1>2. ASSUME NEW k \in Keys, Dispatcher(k) \/ Crash(k) \/ DarajaSettles(k) \/ WatchdogTimeout(k)
        PROVE  InitiatingIsNew' /\ \A j \in Keys : Lifecycle(j)
    <2> USE DEF Goto, dispatchRest, rowVars, wireVars
    <2>1. CASE Claim(k)  BY <2>1 DEF Claim
    <2>2. CASE PostAccepted(k) \/ PostRefused(k) \/ PostAnswerLost(k)
      BY <2>2 DEF PostAccepted, PostRefused, PostAnswerLost
    <2>3. CASE RecordB2C(k) \/ AuditDispatch(k) \/ StepError(k)
      BY <2>3 DEF RecordB2C, AuditDispatch, StepError
    <2>4. CASE DispatchFailed(k)  BY <2>4 DEF DispatchFailed
    <2>5. CASE Crash(k) \/ DarajaSettles(k)  BY <2>5 DEF Crash, DarajaSettles
    <2>6. CASE WatchdogTimeout(k)  BY <2>6 DEF WatchdogTimeout, Overdue
    <2> QED BY <1>2, <2>1, <2>2, <2>3, <2>4, <2>5, <2>6 DEF Dispatcher
  <1>3. ASSUME NEW k \in Keys, Result(k)
        PROVE  InitiatingIsNew' /\ \A j \in Keys : Lifecycle(j)
    <2>1. UNCHANGED pc
      BY <1>3 DEF Result, ResultUnmatched, ResultFailure, ResultSuccessMember, ResultSuccessLoan,
                  ResultLoanAborted, ResultSuccessPlain
    <2>2. \/ UNCHANGED status
          \/ SettleRow(k, "completed") \/ SettleRow(k, "failed")
      BY <1>3 DEF Result, ResultUnmatched, ResultFailure, ResultSuccessMember, ResultSuccessLoan,
                  ResultLoanAborted, ResultSuccessPlain, rowVars
    <2> QED BY <2>1, <2>2 DEF SettleRow, Releasable
  <1>4. CASE RepostMissingJournals \/ LoanDesk
    BY <1>4 DEF RepostMissingJournals, LoanDesk, RejectLoan, DisburseRead, DisburseWrite,
                DisburseRefused, rowVars
  <1>5. CASE UNCHANGED vars  BY <1>5 DEF vars, rowVars
  <1> QED BY <1>1, <1>2, <1>3, <1>4, <1>5 DEF Next

\* A settled request is never reopened or settled again, for all constants and all
\* faults: late callbacks, the watchdog and the catch block included.
THEOREM SettledStaysSettled == Spec => SettledIsFinal
  <1>1. Init => InitiatingIsNew  BY DEF Init, InitiatingIsNew
  <1>2. TypeOK /\ InitiatingIsNew /\ [Next]_vars => InitiatingIsNew'  BY NewRowStep
  <1>3. TypeOK /\ InitiatingIsNew /\ [Next]_vars
          => [\A k \in Keys : status[k] \in Settled => status'[k] = status[k]]_vars
    BY NewRowStep DEF Lifecycle, Settled, None
  <1> QED BY <1>1, <1>2, <1>3, TypeCorrect, PTL DEF Spec, SettledIsFinal

-----------------------------------------------------------------------------
(* Authorisation *)

\* Places of an invocation that works on a released row.
Working == {"claiming", "posting", "recording", "auditing", "failing"}

\* Statuses a row reaches only by being released for payment.
Released == {"approved", "dispatched", "completed", "failed", "timed_out"}

SecondOfficer(k) == approvedBy[k] \notin {None, Input[k].by}

Authorised(k) ==
  /\ RequiresApproval(k) => SecondOfficer(k)
  /\ IsMember(k) => signedOff[k]

\* The strengthening of PaidWasAuthorised: every trace of a payment is on a released row,
\* and a row is released, or handed to the platform, only with its approvals.
AuthorisedAt(k) ==
  /\ pc[k] = "initiating" => status[k] = None
  /\ pc[k] \in Working => status[k] \in Released
  /\ daraja[k] # None => status[k] \in Released
  /\ b2c[k] # None => status[k] \in Released
  /\ booked[k] > 0 => status[k] \in Released
  /\ status[k] = "awaiting_platform" => SecondOfficer(k)
  /\ status[k] \in Released => Authorised(k)

AuthorisedInv == \A k \in Keys : AuthorisedAt(k)

LEMMA AuthorisedStep ==
  ASSUME TypeOK, AuthorisedInv, [Next]_vars
  PROVE  AuthorisedInv'
  <1> SUFFICES ASSUME NEW j \in Keys PROVE AuthorisedAt(j)'
    BY DEF AuthorisedInv
  <1>0. AuthorisedAt(j)  BY DEF AuthorisedInv
  <1> USE DEF TypeOK, AuthorisedAt, Authorised, SecondOfficer, Released, Working, None
  <1>1. ASSUME NEW k \in Keys, Officer(k) \/ Commit(k)
        PROVE  AuthorisedAt(j)'
    <2> USE <1>0 DEF rowVars, cashVars, wireVars
    <2>1. CASE Begin(k)  BY <2>1 DEF Begin
    <2>2. CASE Commit(k)  BY <2>2 DEF Commit, RequiresApproval
    <2>3. CASE Reject(k)  BY <2>3 DEF Reject, Decline
    <2>4. CASE Cancel(k)  BY <2>4 DEF Cancel, Cancellable
    <2>5. CASE PlatformApproveMpesa(k)  BY <2>5 DEF PlatformApproveMpesa
    <2>6. CASE PlatformExecute(k)  BY <2>6 DEF PlatformExecute
    <2>7. CASE PlatformReject(k)  BY <2>7 DEF PlatformReject, Decline
    <2>8. ASSUME NEW o \in Officers
          PROVE  Approve(k, o) \/ TreasurerApprove(k, o) \/ TreasurerReject(k, o) => AuthorisedAt(j)'
      <3>1. o # None  BY ModeAssumption
      <3>2. CASE Approve(k, o)  BY <3>1, <3>2 DEF Approve, MayApprove
      <3>3. CASE TreasurerApprove(k, o)  BY <3>1, <3>3 DEF TreasurerApprove, MayApprove
      <3>4. CASE TreasurerReject(k, o)  BY <3>4 DEF TreasurerReject, Decline
      <3> QED BY <3>2, <3>3, <3>4
    <2> QED BY <1>1, <2>1, <2>2, <2>3, <2>4, <2>5, <2>6, <2>7, <2>8 DEF Officer
  <1>2. ASSUME NEW k \in Keys, Dispatcher(k) \/ Crash(k) \/ DarajaSettles(k) \/ WatchdogTimeout(k)
        PROVE  AuthorisedAt(j)'
    <2> USE <1>0 DEF Goto, dispatchRest, rowVars, cashVars, wireVars
    <2>1. CASE Claim(k)  BY <2>1 DEF Claim
    <2>2. CASE PostAccepted(k) \/ PostRefused(k) \/ PostAnswerLost(k)
      BY <2>2 DEF PostAccepted, PostRefused, PostAnswerLost
    <2>3. CASE RecordB2C(k) \/ AuditDispatch(k) \/ StepError(k)
      BY <2>3 DEF RecordB2C, AuditDispatch, StepError
    <2>4. CASE DispatchFailed(k)  BY <2>4 DEF DispatchFailed
    <2>5. CASE Crash(k)  BY <2>5 DEF Crash
    <2>6. CASE DarajaSettles(k)  BY <2>6 DEF DarajaSettles
    <2>7. CASE WatchdogTimeout(k)  BY <2>7 DEF WatchdogTimeout, Overdue
    <2> QED BY <1>2, <2>1, <2>2, <2>3, <2>4, <2>5, <2>6, <2>7 DEF Dispatcher
  <1>3. ASSUME NEW k \in Keys, Result(k)
        PROVE  AuthorisedAt(j)'
    <2>1. CASE ResultUnmatched(k) \/ ResultLoanAborted(k)
      BY <1>0, <2>1 DEF ResultUnmatched, ResultLoanAborted, rowVars, cashVars
    <2>2. CASE ~(ResultUnmatched(k) \/ ResultLoanAborted(k))
      <3>1. /\ b2c[k] # None
            /\ SettleRow(k, "completed") \/ SettleRow(k, "failed")
            /\ UNCHANGED <<approvedBy, signedOff, pc, daraja>>
            /\ \A i \in Keys \ {k} : b2c'[i] = b2c[i]
        BY <1>3, <2>2 DEF Result, ResultFailure, ResultSuccessMember, ResultSuccessLoan,
                          ResultSuccessPlain, dispatchRest
      <3>2. \A i \in Keys \ {k} : booked'[i] = booked[i]
        BY <1>3, <2>2 DEF Result, ResultFailure, ResultSuccessMember, ResultSuccessLoan,
                          ResultSuccessPlain, dispatchRest, PostMemberJournal, ApplyLoanDisbursement
      <3>3. AuthorisedAt(k)  BY DEF AuthorisedInv
      <3>4. \A i \in Keys : status'[i] = status[i] \/ (i = k /\ status'[k] \in Released)
        BY <3>1 DEF SettleRow
      <3>5. CASE j = k  BY <1>0, <3>1, <3>4, <3>5
      <3>6. CASE j # k  BY <1>0, <3>1, <3>2, <3>4, <3>6
      <3> QED BY <3>5, <3>6
    <2> QED BY <2>1, <2>2
  <1>4. CASE RepostMissingJournals
    <2>1. /\ UNCHANGED <<status, approvedBy, signedOff, wireVars, pc>>
          /\ j \notin MissingJournals => booked'[j] = booked[j]
      <3>1. PICK chart \in Charts :
              booked' = [k \in Keys |->
                booked[k] + IF k \in MissingJournals THEN Posted(k, RepostCharge(k), chart) ELSE 0]
        BY <1>4 DEF RepostMissingJournals
      <3> QED BY <1>4, <3>1 DEF RepostMissingJournals
    <2>2. j \in MissingJournals => status[j] \in Released  BY DEF MissingJournals
    <2> QED BY <1>0, <2>1, <2>2 DEF wireVars
  <1>5. CASE LoanDesk
    BY <1>0, <1>5 DEF LoanDesk, RejectLoan, DisburseRead, DisburseWrite, DisburseRefused,
                      rowVars, cashVars, wireVars
  <1>6. CASE UNCHANGED vars  BY <1>0, <1>6 DEF vars, rowVars, cashVars, wireVars
  <1> QED BY <1>1, <1>2, <1>3, <1>4, <1>5, <1>6 DEF Next

\* No payment without its approvals, for all constants and all faults: what was sent to
\* Safaricom or booked had a second officer when one was required, and the back office's
\* sign-off when it goes to a member.
THEOREM PaidOnlyWhenAuthorised == Spec => []PaidWasAuthorised
  <1>1. Init => AuthorisedInv
    BY DEF Init, AuthorisedInv, AuthorisedAt, Released, Working, None
  <1>2. TypeOK /\ AuthorisedInv /\ [Next]_vars => AuthorisedInv'  BY AuthorisedStep
  <1>3. TypeOK /\ AuthorisedInv => PaidWasAuthorised
    BY DEF AuthorisedInv, AuthorisedAt, Authorised, SecondOfficer, PaidWasAuthorised
  <1> QED BY <1>1, <1>2, <1>3, TypeCorrect, PTL DEF Spec

-----------------------------------------------------------------------------
(* The reservation *)

\* Statuses of a row nobody dispatched yet.
Undispatched == {None, "pending_approval", "awaiting_platform", "approved"}

\* Where the dispatching invocation may be, and what the row, the Daraja call and the
\* watchdog look like while it is there: the catch block only meets a dispatched row.
FlowAt(k) ==
  /\ pc[k] = "initiating" => status[k] = None
  /\ pc[k] = "claiming" => status[k] = "approved"
  /\ pc[k] \in {"posting", "recording", "failing"} => status[k] = "dispatched" /\ b2c[k] = None
  /\ pc[k] = "auditing" => b2c[k] # None
  /\ armed[k] => pc[k] = "idle" /\ b2c[k] # None
  /\ b2c[k] # None => status[k] \notin Undispatched

HoldAt(k) == hold[k] = IF status[k] \in Holding THEN Amount(k) ELSE 0

HoldInv == \A k \in Keys : FlowAt(k) /\ HoldAt(k)

LEMMA HoldStep ==
  ASSUME "audit_error" \notin Faults, TypeOK, HoldInv, [Next]_vars
  PROVE  HoldInv'
  <1> SUFFICES ASSUME NEW j \in Keys PROVE (FlowAt(j) /\ HoldAt(j))'
    BY DEF HoldInv
  <1>0. FlowAt(j) /\ HoldAt(j)  BY DEF HoldInv
  <1> USE AmountIsNat DEF TypeOK, FlowAt, HoldAt, Holding, Undispatched, None
  <1>1. ASSUME NEW k \in Keys, Officer(k) \/ Commit(k)
        PROVE  (FlowAt(j) /\ HoldAt(j))'
    <2> USE <1>0 DEF rowVars, cashVars, wireVars
    <2>1. CASE Begin(k)  BY <2>1 DEF Begin
    <2>2. CASE Commit(k)  BY <2>2 DEF Commit
    <2>3. CASE Reject(k)  BY <2>3 DEF Reject, Decline, ReleaseReservation
    <2>4. CASE Cancel(k)  BY <2>4 DEF Cancel, Cancellable, ReleaseReservation
    <2>5. CASE PlatformApproveMpesa(k)  BY <2>5 DEF PlatformApproveMpesa
    <2>6. CASE PlatformExecute(k)  BY <2>6 DEF PlatformExecute, ReleaseReservation
    <2>7. CASE PlatformReject(k)  BY <2>7 DEF PlatformReject, Decline, ReleaseReservation
    <2>8. ASSUME NEW o \in Officers
          PROVE  Approve(k, o) \/ TreasurerApprove(k, o) \/ TreasurerReject(k, o)
                   => (FlowAt(j) /\ HoldAt(j))'
      <3>1. CASE Approve(k, o)  BY <3>1 DEF Approve
      <3>2. CASE TreasurerApprove(k, o)  BY <3>2 DEF TreasurerApprove
      <3>3. CASE TreasurerReject(k, o)  BY <3>3 DEF TreasurerReject, Decline, ReleaseReservation
      <3> QED BY <3>1, <3>2, <3>3
    <2> QED BY <1>1, <2>1, <2>2, <2>3, <2>4, <2>5, <2>6, <2>7, <2>8 DEF Officer
  <1>2. ASSUME NEW k \in Keys, Dispatcher(k) \/ Crash(k) \/ DarajaSettles(k) \/ WatchdogTimeout(k)
        PROVE  (FlowAt(j) /\ HoldAt(j))'
    <2> USE <1>0 DEF Goto, dispatchRest, rowVars, cashVars, wireVars
    <2>1. CASE Claim(k)  BY <2>1 DEF Claim
    <2>2. CASE PostAccepted(k) \/ PostRefused(k) \/ PostAnswerLost(k)
      BY <2>2 DEF PostAccepted, PostRefused, PostAnswerLost
    <2>3. CASE RecordB2C(k)  BY <2>3 DEF RecordB2C
    <2>8. CASE AuditDispatch(k)  BY <2>8 DEF AuditDispatch
    <2>9. CASE StepError(k)  BY <2>9 DEF StepError
    <2>4. CASE DispatchFailed(k)  BY <2>4 DEF DispatchFailed, ReleaseReservation
    <2>5. CASE Crash(k)  BY <2>5 DEF Crash
    <2>6. CASE DarajaSettles(k)  BY <2>6 DEF DarajaSettles
    <2>7. CASE WatchdogTimeout(k)  BY <2>7 DEF WatchdogTimeout, Overdue
    <2> QED BY <1>2, <2>1, <2>2, <2>3, <2>4, <2>5, <2>6, <2>7, <2>8, <2>9 DEF Dispatcher
  <1>3. ASSUME NEW k \in Keys, Result(k)
        PROVE  (FlowAt(j) /\ HoldAt(j))'
    <2>1. CASE ResultUnmatched(k) \/ ResultLoanAborted(k)
      BY <1>0, <2>1 DEF ResultUnmatched, ResultLoanAborted, rowVars, cashVars
    <2>2. CASE ~(ResultUnmatched(k) \/ ResultLoanAborted(k))
      <3>1. /\ b2c[k] # None /\ b2c'[k] # None
            /\ \A i \in Keys \ {k} : b2c'[i] = b2c[i]
            /\ UNCHANGED <<pc, armed>>
            /\ \E final \in {"completed", "failed"} : SettleRow(k, final)
        BY <1>3, <2>2 DEF Result, ResultFailure, ResultSuccessMember, ResultSuccessLoan,
                          ResultSuccessPlain, dispatchRest
      <3>2. FlowAt(k) /\ HoldAt(k)  BY DEF HoldInv
      <3>3. CASE status[k] \in Releasable
        <4>1. PICK final \in {"completed", "failed"} :
                /\ hold' = [hold EXCEPT ![k] = @ - Amount(k)]
                /\ status' = [status EXCEPT ![k] = final]
          BY <3>1, <3>3 DEF SettleRow, ReleaseReservation
        <4> QED BY <1>0, <3>1, <3>2, <3>3, <4>1 DEF Releasable
      <3>4. CASE status[k] \notin Releasable
        BY <1>0, <3>1, <3>2, <3>4 DEF SettleRow
      <3> QED BY <3>3, <3>4
    <2> QED BY <2>1, <2>2
  <1>4. CASE RepostMissingJournals \/ LoanDesk
    BY <1>0, <1>4 DEF RepostMissingJournals, LoanDesk, RejectLoan, DisburseRead, DisburseWrite,
                      DisburseRefused, rowVars, cashVars, wireVars
  <1>5. CASE UNCHANGED vars  BY <1>0, <1>5 DEF vars, rowVars, cashVars, wireVars
  <1> QED BY <1>1, <1>2, <1>3, <1>4, <1>5 DEF Next

\* accounts.reserved_amount is exactly what the open requests earmark, for all constants
\* and every fault but an audit insert that fails after the POST: that one alone makes the
\* catch block release what the callback already released.
THEOREM ReservationExact ==
  ASSUME "audit_error" \notin Faults
  PROVE  Spec => []HoldMatchesStatus
  <1>1. Init => HoldInv
    BY DEF Init, HoldInv, FlowAt, HoldAt, Holding, Undispatched, None
  <1>2. TypeOK /\ HoldInv /\ [Next]_vars => HoldInv'  BY HoldStep
  <1>3. HoldInv => HoldMatchesStatus  BY DEF HoldInv, HoldAt, HoldMatchesStatus
  <1> QED BY <1>1, <1>2, <1>3, TypeCorrect, PTL DEF Spec

-----------------------------------------------------------------------------
(* Refinement of PayoutPromise *)

\* The faults that leave the outcome of the POST open while the catch block runs.
PostFaults == {"lost_response", "record_error", "audit_error"}

\* What Safaricom may know of a request, by the status of its row.
WireAt(k) ==
  /\ pc[k] = "initiating" => status[k] = None
  /\ pc[k] = "claiming" => status[k] = "approved"
  /\ pc[k] \in {"posting", "failing"} => status[k] = "dispatched" /\ daraja[k] = None
  /\ status[k] \in Undispatched \cup {"rejected", "cancelled"} => daraja[k] = None
  /\ status[k] = "failed" => daraja[k] \in {None, "refused"}
  /\ status[k] = "completed" => daraja[k] = "paid" \/ Input[k].method # "mpesa"
  /\ daraja[k] = "accepted" => status[k] \in {"dispatched", "timed_out"}

WireInv == \A k \in Keys : WireAt(k)

\* The money of j follows one step of the promise, if j is k, and stands still otherwise.
MoneyMoves(j, k) ==
  \/ MoneyOf(j)' = MoneyOf(j)
  \/ /\ j = k
     /\ \/ MoneyOf(k) = "absent" /\ MoneyOf(k)' = "held"
        \/ MoneyOf(k) = "held" /\ MoneyOf(k)' \in {"paid", "void"}

\* One request moves: a step of the promise, or none.
LEMMA PromiseStep ==
  ASSUME NEW k \in Keys, \A j \in Keys : MoneyMoves(j, k)
  PROVE  [Promise!PNext]_([j \in Keys |-> MoneyOf(j)])
  <1> DEFINE m == [j \in Keys |-> MoneyOf(j)]
  <1>1. \A j \in Keys \ {k} : MoneyOf(j)' = MoneyOf(j)  BY DEF MoneyMoves
  <1>2. CASE MoneyOf(k)' = MoneyOf(k)
    <2>1. m' = m  BY <1>1, <1>2
    <2> QED BY <2>1
  <1>3. CASE MoneyOf(k) = "absent" /\ MoneyOf(k)' = "held"
    <2>1. m[k] = "absent" /\ m' = [m EXCEPT ![k] = "held"]  BY <1>1, <1>3
    <2> QED BY <2>1 DEF Promise!PNext, Promise!Hold
  <1>4. CASE MoneyOf(k) = "held" /\ MoneyOf(k)' = "paid"
    <2>1. m[k] = "held" /\ m' = [m EXCEPT ![k] = "paid"]  BY <1>1, <1>4
    <2> QED BY <2>1 DEF Promise!PNext, Promise!Pay
  <1>5. CASE MoneyOf(k) = "held" /\ MoneyOf(k)' = "void"
    <2>1. m[k] = "held" /\ m' = [m EXCEPT ![k] = "void"]  BY <1>1, <1>5
    <2> QED BY <2>1 DEF Promise!PNext, Promise!Void
  <1> QED BY <1>2, <1>3, <1>4, <1>5 DEF MoneyMoves

LEMMA WireStep ==
  ASSUME PostFaults \cap Faults = {}, TypeOK, HoldInv, WireInv, NEW k \in Keys,
         \/ Officer(k) \/ Commit(k) \/ Dispatcher(k) \/ Crash(k) \/ DarajaSettles(k) \/ Result(k)
         \/ WatchdogTimeout(k)
  PROVE  WireInv' /\ \A j \in Keys : MoneyMoves(j, k)
  <1> SUFFICES ASSUME NEW j \in Keys PROVE WireAt(j)' /\ MoneyMoves(j, k)
    BY DEF WireInv
  <1>0. FlowAt(j) /\ WireAt(j)  BY DEF HoldInv, WireInv
  <1> USE DEF TypeOK, FlowAt, WireAt, MoneyMoves, MoneyOf, Undispatched, None
  <1>1. CASE Officer(k) \/ Commit(k)
    <2> USE <1>0 DEF rowVars, cashVars, wireVars
    <2>1. CASE Begin(k)  BY <2>1 DEF Begin
    <2>2. CASE Commit(k)  BY <2>2 DEF Commit
    <2>3. CASE Reject(k)  BY <2>3 DEF Reject, Decline
    <2>4. CASE Cancel(k)  BY <2>4 DEF Cancel, Cancellable
    <2>5. CASE PlatformApproveMpesa(k)  BY <2>5 DEF PlatformApproveMpesa
    <2>6. CASE PlatformExecute(k)  BY <2>6 DEF PlatformExecute
    <2>7. CASE PlatformReject(k)  BY <2>7 DEF PlatformReject, Decline
    <2>8. ASSUME NEW o \in Officers
          PROVE  Approve(k, o) \/ TreasurerApprove(k, o) \/ TreasurerReject(k, o)
                   => WireAt(j)' /\ MoneyMoves(j, k)
      <3>1. CASE Approve(k, o)  BY <3>1 DEF Approve
      <3>2. CASE TreasurerApprove(k, o)  BY <3>2 DEF TreasurerApprove
      <3>3. CASE TreasurerReject(k, o)  BY <3>3 DEF TreasurerReject, Decline
      <3> QED BY <3>1, <3>2, <3>3
    <2> QED BY <1>1, <2>1, <2>2, <2>3, <2>4, <2>5, <2>6, <2>7, <2>8 DEF Officer
  <1>2. CASE Dispatcher(k)
    <2> USE <1>0 DEF Goto, dispatchRest, rowVars, cashVars, wireVars
    <2>1. CASE Claim(k)  BY <2>1 DEF Claim
    <2>2. CASE PostAccepted(k)  BY <2>2 DEF PostAccepted
    <2>3. CASE PostRefused(k)  BY <2>3 DEF PostRefused
    <2>4. CASE RecordB2C(k)  BY <2>4 DEF RecordB2C
    <2>5. CASE AuditDispatch(k)  BY <2>5 DEF AuditDispatch
    <2>6. CASE DispatchFailed(k)  BY <2>6 DEF DispatchFailed
    <2>7. ~PostAnswerLost(k) /\ ~StepError(k)  BY DEF PostAnswerLost, StepError, PostFaults
    <2> QED BY <1>2, <2>1, <2>2, <2>3, <2>4, <2>5, <2>6, <2>7 DEF Dispatcher
  <1>3. CASE Crash(k)  BY <1>0, <1>3 DEF Crash, Goto, rowVars, wireVars
  <1>4. CASE DarajaSettles(k)  BY <1>0, <1>4 DEF DarajaSettles, rowVars
  <1>5. CASE WatchdogTimeout(k)  BY <1>0, <1>5 DEF WatchdogTimeout, Overdue
  <1>6. CASE Result(k)
    <2>1. UNCHANGED <<pc, daraja>>
      BY <1>6 DEF Result, ResultUnmatched, ResultFailure, ResultSuccessMember, ResultSuccessLoan,
                  ResultLoanAborted, ResultSuccessPlain, rowVars
    <2>2. \/ UNCHANGED status
          \/ /\ status[k] \in Releasable
             /\ \/ daraja[k] = "paid" /\ status' = [status EXCEPT ![k] = "completed"]
                \/ daraja[k] = "refused" /\ status' = [status EXCEPT ![k] = "failed"]
      BY <1>6 DEF Result, ResultUnmatched, ResultFailure, ResultSuccessMember, ResultSuccessLoan,
                  ResultLoanAborted, ResultSuccessPlain, rowVars, SettleRow
    <2> QED BY <1>0, <2>1, <2>2 DEF Releasable
  <1> QED BY <1>1, <1>2, <1>3, <1>4, <1>5, <1>6

\* The spine implements PayoutPromise, for all constants, crashes and watchdogs included,
\* as long as the catch block only runs when the POST really failed: money leaves from a
\* live earmark, once, and an earmark that was given back never turns into a payment.
THEOREM SpineKeepsPromise ==
  ASSUME PostFaults \cap Faults = {}
  PROVE  Spec => KeepsPromise
  <1> DEFINE m == [k \in Keys |-> MoneyOf(k)]
  <1>1. Init => HoldInv /\ WireInv /\ Promise!PInit
    <2> SUFFICES ASSUME Init PROVE HoldInv /\ WireInv /\ Promise!PInit
      OBVIOUS
    <2>1. HoldInv
      BY DEF Init, HoldInv, FlowAt, HoldAt, Holding, Undispatched, None
    <2>2. WireInv  BY DEF Init, WireInv, WireAt, Undispatched, None
    <2>3. \A k \in Keys : MoneyOf(k) = "absent"  BY DEF Init, MoneyOf, None
    <2> QED BY <2>1, <2>2, <2>3 DEF Promise!PInit
  <1>2. TypeOK /\ HoldInv /\ [Next]_vars => HoldInv'
    BY HoldStep DEF PostFaults
  <1>3. TypeOK /\ HoldInv /\ WireInv /\ [Next]_vars => WireInv' /\ [Promise!PNext]_m
    <2> SUFFICES ASSUME TypeOK, HoldInv, WireInv, [Next]_vars PROVE WireInv' /\ [Promise!PNext]_m
      OBVIOUS
    <2>1. ASSUME NEW k \in Keys,
                 \/ Officer(k) \/ Commit(k) \/ Dispatcher(k) \/ Crash(k) \/ DarajaSettles(k)
                 \/ Result(k) \/ WatchdogTimeout(k)
          PROVE  WireInv' /\ [Promise!PNext]_m
      BY <2>1, WireStep, PromiseStep
    <2>2. CASE RepostMissingJournals \/ LoanDesk \/ UNCHANGED vars
      <3>1. UNCHANGED <<status, daraja, pc>>
        BY <2>2 DEF RepostMissingJournals, LoanDesk, RejectLoan, DisburseRead, DisburseWrite,
                    DisburseRefused, vars, rowVars, wireVars
      <3>2. WireInv'  BY <3>1 DEF WireInv, WireAt
      <3>3. m' = m  BY <3>1 DEF MoneyOf
      <3> QED BY <3>2, <3>3
    <2> QED BY <2>1, <2>2 DEF Next
  <1> QED BY <1>1, <1>2, <1>3, TypeCorrect, PTL DEF Spec, KeepsPromise, Promise!PSpec

-----------------------------------------------------------------------------
(* Journals *)

\* JournalledOnce is inductive: the posting and the repost sweep look at journal_entry_id,
\* and platformApprove refuses a row that has one.
LEMMA JournalStep == TypeOK /\ JournalledOnce /\ [Next]_vars => JournalledOnce'
  <1> SUFFICES ASSUME TypeOK, JournalledOnce, [Next]_vars, NEW j \in Keys, IsMember(j)
               PROVE  (booked[j] \in IF journaled[j] THEN {Amount(j), Amount(j) + Fee} ELSE {0})'
    BY DEF JournalledOnce, IsMember, Amount
  <1>0. /\ booked[j] \in IF journaled[j] THEN {Amount(j), Amount(j) + Fee} ELSE {0}
        /\ Amount(j) \in Nat /\ Fee \in Nat /\ Amount(j)' = Amount(j) /\ Fee' = Fee
        /\ booked \in [Keys -> Nat] /\ journaled \in [Keys -> BOOLEAN]
    BY AmountIsNat, MoneyAssumption DEF JournalledOnce, TypeOK, Amount
  <1>1. ASSUME booked'[j] = booked[j], journaled'[j] = journaled[j]
        PROVE  (booked[j] \in IF journaled[j] THEN {Amount(j), Amount(j) + Fee} ELSE {0})'
    BY <1>0, <1>1
  <1>2. ASSUME NEW k \in Keys, Officer(k) \/ Commit(k) \/ Dispatcher(k) \/ Crash(k)
                                 \/ DarajaSettles(k) \/ WatchdogTimeout(k)
        PROVE  (booked[j] \in IF journaled[j] THEN {Amount(j), Amount(j) + Fee} ELSE {0})'
    <2>1. CASE PlatformExecute(k)
      <3>1. CASE k = j
        <4>1. booked'[j] = booked[j] + Amount(j) /\ journaled'[j] = TRUE /\ ~journaled[j]
          BY <1>0, <2>1, <3>1 DEF PlatformExecute
        <4> QED BY <1>0, <4>1
      <3>2. CASE k # j  BY <1>0, <1>1, <2>1, <3>2 DEF PlatformExecute
      <3> QED BY <3>1, <3>2
    <2>2. CASE ~PlatformExecute(k)
      <3>1. UNCHANGED <<booked, journaled>>
        BY <1>2, <2>2
        DEF Officer, Begin, Commit, Approve, TreasurerApprove, Reject, TreasurerReject,
            PlatformReject, Decline, Cancel, PlatformApproveMpesa, Dispatcher, Claim,
            PostAccepted, PostRefused, PostAnswerLost, RecordB2C, AuditDispatch, StepError,
            DispatchFailed, Crash, DarajaSettles, WatchdogTimeout, dispatchRest, rowVars, cashVars
      <3> QED BY <1>1, <3>1
    <2> QED BY <2>1, <2>2
  <1>3. ASSUME NEW k \in Keys, Result(k)
        PROVE  (booked[j] \in IF journaled[j] THEN {Amount(j), Amount(j) + Fee} ELSE {0})'
    <2>1. CASE ResultSuccessMember(k)
      <3>1. PICK chart \in Charts : PostMemberJournal(k, Fee, chart)
        BY <2>1 DEF ResultSuccessMember
      <3>2. CASE k # j \/ journaled[k]
        <4>1. booked'[j] = booked[j] /\ journaled'[j] = journaled[j]
          BY <1>0, <3>1, <3>2 DEF PostMemberJournal
        <4> QED BY <1>1, <4>1
      <3>3. CASE k = j /\ ~journaled[k]
        <4>0. /\ booked' = [booked EXCEPT ![j] = booked[j] + Posted(j, Fee, chart)]
              /\ journaled' = [journaled EXCEPT ![j] = (chart # "missing")]
          BY <3>1, <3>3, Zenon DEF PostMemberJournal
        <4>1. /\ booked'[j] = booked[j] + Posted(j, Fee, chart)
              /\ journaled'[j] <=> chart # "missing"
              /\ booked[j] = 0
          <5>1. booked'[j] = booked[j] + Posted(j, Fee, chart)  BY <1>0, <4>0
          <5>2. journaled'[j] <=> chart # "missing"  BY <1>0, <4>0, Zenon
          <5>3. booked[j] = 0  BY <1>0, <3>3
          <5> QED BY <5>1, <5>2, <5>3
        <4>2. Posted(j, Fee, chart) \in
                IF chart = "missing" THEN {0} ELSE {Amount(j), Amount(j) + Fee}
          BY ModeAssumption DEF Posted, AllCharts
        <4> QED BY <1>0, <4>1, <4>2
      <3> QED BY <3>2, <3>3
    <2>2. CASE ResultSuccessLoan(k) \/ ResultSuccessPlain(k)
      <3>1. k # j  BY <2>2 DEF ResultSuccessLoan, ResultSuccessPlain, IsLoan, IsPlain, IsMember
      <3>2. UNCHANGED journaled  BY <2>2 DEF ResultSuccessLoan, ResultSuccessPlain
      <3>3. CASE ResultSuccessPlain(k)  BY <1>0, <1>1, <3>1, <3>2, <3>3 DEF ResultSuccessPlain
      <3>4. CASE ResultSuccessLoan(k)
        BY <1>0, <1>1, <3>1, <3>2, <3>4 DEF ResultSuccessLoan, ApplyLoanDisbursement
      <3> QED BY <2>2, <3>3, <3>4
    <2>3. CASE ResultUnmatched(k) \/ ResultFailure(k) \/ ResultLoanAborted(k)
      BY <1>1, <2>3 DEF ResultUnmatched, ResultFailure, ResultLoanAborted, dispatchRest,
                        rowVars, cashVars
    <2> QED BY <1>3, <2>1, <2>2, <2>3 DEF Result
  <1>4. CASE RepostMissingJournals
    <2>1. CASE j \in MissingJournals
      <3>1. PICK chart \in Charts :
              /\ booked'[j] = booked[j] + Posted(j, RepostCharge(j), chart)
              /\ journaled'[j] <=> (journaled[j] \/ (j \in MissingJournals /\ chart # "missing"))
        <4>1. PICK chart \in Charts :
                /\ booked' = [k \in Keys |-> booked[k] +
                     IF k \in MissingJournals THEN Posted(k, RepostCharge(k), chart) ELSE 0]
                /\ journaled' = [k \in Keys |->
                     journaled[k] \/ (k \in MissingJournals /\ chart # "missing")]
          BY <1>4 DEF RepostMissingJournals
        <4>2. booked'[j] = booked[j] + Posted(j, RepostCharge(j), chart)
          BY <2>1, <4>1
        <4>3. journaled'[j] <=> (journaled[j] \/ (j \in MissingJournals /\ chart # "missing"))
          BY <4>1, Zenon
        <4> QED BY <4>2, <4>3
      <3>2. ~journaled[j] /\ booked[j] = 0  BY <1>0, <2>1 DEF MissingJournals
      <3>3. RepostCharge(j) \in {0, Fee}  BY DEF RepostCharge
      <3>4. Posted(j, RepostCharge(j), chart) \in
              IF chart = "missing" THEN {0} ELSE {Amount(j), Amount(j) + Fee}
        BY <1>0, <3>3, ModeAssumption DEF Posted, AllCharts
      <3> QED BY <1>0, <2>1, <3>1, <3>2, <3>4
    <2>2. CASE j \notin MissingJournals
      <3>1. PICK chart \in Charts :
              /\ booked' = [k \in Keys |-> booked[k] +
                   IF k \in MissingJournals THEN Posted(k, RepostCharge(k), chart) ELSE 0]
              /\ journaled' = [k \in Keys |->
                   journaled[k] \/ (k \in MissingJournals /\ chart # "missing")]
        BY <1>4 DEF RepostMissingJournals
      <3>2. booked'[j] = booked[j]  BY <1>0, <2>2, <3>1
      <3>3. journaled'[j] <=> journaled[j]  BY <2>2, <3>1, Zenon
      <3> QED BY <1>0, <3>2, <3>3
    <2> QED BY <2>1, <2>2
  <1>5. CASE LoanDesk \/ UNCHANGED vars
    BY <1>1, <1>5 DEF LoanDesk, RejectLoan, DisburseRead, DisburseWrite, DisburseRefused, vars,
                      rowVars, cashVars
  <1> QED BY <1>2, <1>3, <1>4, <1>5 DEF Next

\* One payout, one journal, under every fault: the amount once and the fee at most once,
\* whatever results are repeated and however often the repair sweep runs.
THEOREM PostedOnce == Spec => []JournalledOnce
  <1>1. Init => JournalledOnce  BY DEF Init, JournalledOnce
  <1> QED BY <1>1, JournalStep, TypeCorrect, PTL DEF Spec

-----------------------------------------------------------------------------
(* The two ledgers *)

\* Without a watchdog no row is ever timed out.
NoTimeout == \A k \in Keys : ~armed[k] /\ status[k] # "timed_out"

LEMMA NoTimeoutStep ==
  ASSUME Qstash = FALSE, TypeOK, InitiatingIsNew, NoTimeout, [Next]_vars
  PROVE  NoTimeout'
  <1>1. \A k \in Keys : Lifecycle(k)  BY NewRowStep
  <1>2. CASE \E k \in Keys : WatchdogTimeout(k)  BY <1>2 DEF NoTimeout, WatchdogTimeout
  <1>3. CASE \E k \in Keys : AuditDispatch(k)
    BY <1>3 DEF NoTimeout, AuditDispatch, TypeOK
  <1>4. CASE /\ ~\E k \in Keys : WatchdogTimeout(k)
             /\ ~\E k \in Keys : AuditDispatch(k)
    <2>1. UNCHANGED armed
      <3>1. ASSUME NEW k \in Keys, Officer(k) \/ Commit(k) PROVE UNCHANGED armed
        BY <3>1 DEF Officer, Begin, Commit, Approve, TreasurerApprove, Reject, TreasurerReject,
                    PlatformReject, Decline, Cancel, PlatformApproveMpesa, PlatformExecute, wireVars
      <3>2. ASSUME NEW k \in Keys, Dispatcher(k) \/ Crash(k) \/ DarajaSettles(k)
            PROVE  UNCHANGED armed
        BY <1>4, <3>2 DEF Dispatcher, Claim, PostAccepted, PostRefused, PostAnswerLost, RecordB2C,
                          StepError, DispatchFailed, Crash, DarajaSettles, wireVars
      <3>3. ASSUME NEW k \in Keys, Result(k) PROVE UNCHANGED armed
        BY <3>3 DEF Result, ResultUnmatched, ResultFailure, ResultSuccessMember,
                    ResultSuccessLoan, ResultLoanAborted, ResultSuccessPlain
      <3>4. RepostMissingJournals \/ LoanDesk \/ UNCHANGED vars => UNCHANGED armed
        BY DEF RepostMissingJournals, LoanDesk, RejectLoan, DisburseRead, DisburseWrite,
               DisburseRefused, vars, wireVars
      <3> QED BY <1>4, <3>1, <3>2, <3>3, <3>4 DEF Next
    <2>2. ASSUME NEW j \in Keys PROVE status'[j] # "timed_out"
      <3>1. ASSUME NEW k \in Keys, Officer(k) \/ Commit(k) PROVE status'[j] # "timed_out"
        BY <3>1 DEF Officer, Begin, Commit, Approve, TreasurerApprove, Reject, TreasurerReject,
                    PlatformReject, Decline, Cancel, PlatformApproveMpesa, PlatformExecute, rowVars,
                    NoTimeout, TypeOK
      <3>2. ASSUME NEW k \in Keys, Dispatcher(k) \/ Crash(k) \/ DarajaSettles(k)
            PROVE  status'[j] # "timed_out"
        BY <1>4, <3>2 DEF Dispatcher, Claim, PostAccepted, PostRefused, PostAnswerLost, RecordB2C,
                          StepError, DispatchFailed, Crash, DarajaSettles, rowVars, NoTimeout, TypeOK
      <3>3. ASSUME NEW k \in Keys, Result(k) PROVE status'[j] # "timed_out"
        <4>1. UNCHANGED status \/ SettleRow(k, "completed") \/ SettleRow(k, "failed")
          BY <3>3 DEF Result, ResultUnmatched, ResultFailure, ResultSuccessMember,
                      ResultSuccessLoan, ResultLoanAborted, ResultSuccessPlain, rowVars
        <4> QED BY <4>1 DEF SettleRow, NoTimeout, TypeOK
      <3>4. RepostMissingJournals \/ LoanDesk \/ UNCHANGED vars => UNCHANGED status
        BY DEF RepostMissingJournals, LoanDesk, RejectLoan, DisburseRead, DisburseWrite,
               DisburseRefused, vars, rowVars
      <3> QED BY <1>4, <3>1, <3>2, <3>3, <3>4 DEF Next, NoTimeout
    <2> QED BY <2>1, <2>2 DEF NoTimeout
  <1> QED BY <1>2, <1>3, <1>4

LEMMA WireInvStep ==
  ASSUME PostFaults \cap Faults = {}, TypeOK, HoldInv, WireInv, [Next]_vars
  PROVE  WireInv'
  <1>1. ASSUME NEW k \in Keys,
               \/ Officer(k) \/ Commit(k) \/ Dispatcher(k) \/ Crash(k) \/ DarajaSettles(k)
               \/ Result(k) \/ WatchdogTimeout(k)
        PROVE  WireInv'
    BY <1>1, WireStep
  <1>2. CASE RepostMissingJournals \/ LoanDesk \/ UNCHANGED vars
    <2>1. UNCHANGED <<status, daraja, pc>>
      BY <1>2 DEF RepostMissingJournals, LoanDesk, RejectLoan, DisburseRead, DisburseWrite,
                  DisburseRefused, vars, rowVars, wireVars
    <2> QED BY <2>1 DEF WireInv, WireAt
  <1> QED BY <1>1, <1>2 DEF Next

\* A journal is only written on a row that is completed, or becomes so in the same step:
\* a paid payout whose result is matched is dispatched or already completed.
LEMMA LedgersStep ==
  ASSUME TypeOK, InitiatingIsNew, HoldInv, WireInv, NoTimeout, LedgersSettleTogether, [Next]_vars
  PROVE  LedgersSettleTogether'
  <1> SUFFICES ASSUME NEW j \in Keys, IsMember(j), status'[j] # "completed"
               PROVE  booked'[j] = 0
    BY DEF LedgersSettleTogether, IsMember
  <1>0. status[j] # "completed" /\ booked[j] = 0
    <2>1. Lifecycle(j)  BY NewRowStep
    <2> QED BY <2>1 DEF Lifecycle, LedgersSettleTogether, None
  <1>1. ASSUME NEW k \in Keys, Officer(k) \/ Commit(k) \/ Dispatcher(k) \/ Crash(k)
                                 \/ DarajaSettles(k) \/ WatchdogTimeout(k)
        PROVE  booked'[j] = 0
    <2>1. CASE PlatformExecute(k)
      <3>1. status' = [status EXCEPT ![k] = "completed"]
            /\ booked' = [booked EXCEPT ![k] = @ + Amount(k)]
        BY <2>1 DEF PlatformExecute
      <3>2. k # j  BY <3>1 DEF TypeOK
      <3> QED BY <1>0, <3>1, <3>2 DEF TypeOK
    <2>2. CASE ~PlatformExecute(k)
      <3>1. UNCHANGED booked
        BY <1>1, <2>2
        DEF Officer, Begin, Commit, Approve, TreasurerApprove, Reject, TreasurerReject,
            PlatformReject, Decline, Cancel, PlatformApproveMpesa, Dispatcher, Claim,
            PostAccepted, PostRefused, PostAnswerLost, RecordB2C, AuditDispatch, StepError,
            DispatchFailed, Crash, DarajaSettles, WatchdogTimeout, dispatchRest, cashVars
      <3> QED BY <1>0, <3>1
    <2> QED BY <2>1, <2>2
  <1>2. ASSUME NEW k \in Keys, Result(k)
        PROVE  booked'[j] = 0
    <2>1. CASE ResultSuccessMember(k)
      <3>1. daraja[k] = "paid" /\ b2c[k] # None /\ SettleRow(k, "completed")
        BY <2>1 DEF ResultSuccessMember
      <3>2. status[k] \in {"dispatched", "completed"}
        <4>1. WireAt(k) /\ FlowAt(k) /\ status[k] # "timed_out"
          BY DEF WireInv, HoldInv, NoTimeout
        <4> QED BY <3>1, <4>1 DEF WireAt, FlowAt, Undispatched, TypeOK, Statuses, None
      <3>3. status'[k] = "completed"
        BY <3>1, <3>2 DEF SettleRow, Releasable, TypeOK
      <3>4. PICK chart \in Charts : PostMemberJournal(k, Fee, chart)
        BY <2>1 DEF ResultSuccessMember
      <3>5. booked'[j] = booked[j]
        BY <3>3, <3>4 DEF PostMemberJournal, TypeOK
      <3> QED BY <1>0, <3>5
    <2>2. CASE ResultSuccessLoan(k) \/ ResultSuccessPlain(k)
      <3>1. k # j  BY <2>2 DEF ResultSuccessLoan, ResultSuccessPlain, IsLoan, IsPlain, IsMember
      <3>2. CASE ResultSuccessPlain(k)  BY <1>0, <3>1, <3>2 DEF ResultSuccessPlain, TypeOK
      <3>3. CASE ResultSuccessLoan(k)
        BY <1>0, <3>1, <3>3 DEF ResultSuccessLoan, ApplyLoanDisbursement, TypeOK
      <3> QED BY <2>2, <3>2, <3>3
    <2>3. CASE ResultUnmatched(k) \/ ResultFailure(k) \/ ResultLoanAborted(k)
      BY <1>0, <2>3 DEF ResultUnmatched, ResultFailure, ResultLoanAborted, dispatchRest, cashVars
    <2> QED BY <1>2, <2>1, <2>2, <2>3 DEF Result
  <1>3. CASE RepostMissingJournals
    <2>1. j \notin MissingJournals  BY <1>0 DEF MissingJournals
    <2>2. PICK chart \in Charts :
            booked' = [k \in Keys |-> booked[k] +
              IF k \in MissingJournals THEN Posted(k, RepostCharge(k), chart) ELSE 0]
      BY <1>3 DEF RepostMissingJournals
    <2>3. booked'[j] = booked[j] + 0  BY <2>1, <2>2
    <2> QED BY <1>0, <2>3
  <1>4. CASE LoanDesk \/ UNCHANGED vars
    BY <1>0, <1>4 DEF LoanDesk, RejectLoan, DisburseRead, DisburseWrite, DisburseRefused, vars,
                      cashVars
  <1> QED BY <1>1, <1>2, <1>3, <1>4 DEF Next

\* A request that ended without payment was not paid, for all constants, crashes and
\* watchdogs included, as long as the catch block only runs when the POST really failed.
THEOREM FailedWasNotPaid ==
  ASSUME PostFaults \cap Faults = {}
  PROVE  Spec => []UnpaidMeansUnpaid
  <1>1. Init => HoldInv /\ WireInv
    <2>1. Init => HoldInv
      BY DEF Init, HoldInv, FlowAt, HoldAt, Holding, Undispatched, None
    <2>2. Init => WireInv  BY DEF Init, WireInv, WireAt, Undispatched, None
    <2> QED BY <2>1, <2>2
  <1>2. TypeOK /\ HoldInv /\ WireInv /\ [Next]_vars => (HoldInv /\ WireInv)'
    BY HoldStep, WireInvStep DEF PostFaults
  <1>3. HoldInv /\ WireInv => UnpaidMeansUnpaid
    BY DEF WireInv, WireAt, UnpaidMeansUnpaid, None
  <1> QED BY <1>1, <1>2, <1>3, TypeCorrect, PTL DEF Spec

\* The group ledger and the member's ledger settle together, for all constants, crashes
\* included, where no watchdog is armed and the catch block only runs when the POST really
\* failed.  Both premises are needed: a row that is timed out, or failed although the POST
\* was accepted, is not completed by the success that posts its journal.
THEOREM LedgersTogether ==
  ASSUME Qstash = FALSE, PostFaults \cap Faults = {}
  PROVE  Spec => []LedgersSettleTogether
  <1> DEFINE I == HoldInv /\ WireInv /\ InitiatingIsNew /\ NoTimeout /\ LedgersSettleTogether
  <1>1. Init => I
    <2> SUFFICES ASSUME Init PROVE I
      OBVIOUS
    <2>1. HoldInv
      BY DEF Init, HoldInv, FlowAt, HoldAt, Holding, Undispatched, None
    <2>2. WireInv  BY DEF Init, WireInv, WireAt, Undispatched, None
    <2>3. InitiatingIsNew /\ NoTimeout /\ LedgersSettleTogether
      BY DEF Init, InitiatingIsNew, NoTimeout, LedgersSettleTogether, None
    <2> QED BY <2>1, <2>2, <2>3
  <1>2. TypeOK /\ I /\ [Next]_vars => I'
    <2> SUFFICES ASSUME TypeOK, I, [Next]_vars PROVE I'
      OBVIOUS
    <2>1. HoldInv'  BY HoldStep DEF PostFaults
    <2>2. WireInv'  BY WireInvStep
    <2>3. InitiatingIsNew' /\ NoTimeout'  BY NewRowStep, NoTimeoutStep
    <2>4. LedgersSettleTogether'  BY LedgersStep
    <2> QED BY <2>1, <2>2, <2>3, <2>4
  <1>3. I => LedgersSettleTogether  OBVIOUS
  <1> QED BY <1>1, <1>2, <1>3, TypeCorrect, PTL DEF Spec

-----------------------------------------------------------------------------
(* Admission: what initiateDisbursement checks under the lock of a cash account *)

\* One initiateDisbursement at a time is between its checks and its commit on an account.
OneAtATime ==
  \A j, k \in Keys :
    pc[j] = "initiating" /\ pc[k] = "initiating" /\ Account(j) = Account(k) => j = k

NobodyAdmitted ==
  \A k \in Keys : /\ pc'[k] = "initiating" => pc[k] = "initiating"
                  /\ status[k] = None => status'[k] = None

\* A row comes into being by the commit of checks made under a lock that was free.
LEMMA AdmissionStep ==
  ASSUME TypeOK, InitiatingIsNew, OneAtATime, [Next]_vars
  PROVE  /\ OneAtATime'
         /\ (\E k \in Keys : Begin(k) \/ Commit(k)) \/ NobodyAdmitted
  <1> USE DEF TypeOK, None
  <1>1. ASSUME NEW k \in Keys, Begin(k)  PROVE OneAtATime'
    <2>1. /\ pc' = [pc EXCEPT ![k] = "initiating"]
          /\ \A j \in Keys : pc[j] = "initiating" => Account(j) # Account(k)
      BY <1>1 DEF Begin, CashLocked
    <2>2. \A j \in Keys : pc'[j] = "initiating" => pc[j] = "initiating" \/ j = k  BY <2>1
    <2> QED BY <2>1, <2>2 DEF OneAtATime, Account
  <1>2. ASSUME \A j \in Keys : pc'[j] = "initiating" => pc[j] = "initiating"
        PROVE  OneAtATime'
    BY <1>2 DEF OneAtATime, Account
  <1>3. ASSUME NEW k \in Keys, Officer(k), ~Begin(k)  PROVE NobodyAdmitted
    BY <1>3 DEF NobodyAdmitted, Officer, Reject, PlatformReject, TreasurerReject, Decline, Cancel,
                Cancellable, PlatformApproveMpesa, PlatformExecute, Approve, TreasurerApprove
  <1>4. ASSUME NEW k \in Keys, Commit(k)
        PROVE  \A j \in Keys : pc'[j] = "initiating" => pc[j] = "initiating"
    BY <1>4 DEF Commit
  <1>5. ASSUME NEW k \in Keys,
               Dispatcher(k) \/ Crash(k) \/ DarajaSettles(k) \/ WatchdogTimeout(k)
        PROVE  NobodyAdmitted
    <2> USE DEF NobodyAdmitted, Goto, dispatchRest, rowVars
    <2>1. CASE Claim(k)  BY <2>1 DEF Claim
    <2>2. CASE PostAccepted(k) \/ PostRefused(k) \/ PostAnswerLost(k)
      BY <2>2 DEF PostAccepted, PostRefused, PostAnswerLost
    <2>3. CASE RecordB2C(k) \/ AuditDispatch(k) \/ StepError(k)
      BY <2>3 DEF RecordB2C, AuditDispatch, StepError
    <2>4. CASE DispatchFailed(k)  BY <2>4 DEF DispatchFailed
    <2>5. CASE Crash(k) \/ DarajaSettles(k)  BY <2>5 DEF Crash, DarajaSettles
    <2>6. CASE WatchdogTimeout(k)  BY <2>6 DEF WatchdogTimeout, Overdue
    <2> QED BY <1>5, <2>1, <2>2, <2>3, <2>4, <2>5, <2>6 DEF Dispatcher
  <1>6. ASSUME NEW k \in Keys, Result(k)  PROVE NobodyAdmitted
    <2>1. UNCHANGED pc
      BY <1>6 DEF Result, ResultUnmatched, ResultFailure, ResultSuccessMember, ResultSuccessLoan,
                  ResultLoanAborted, ResultSuccessPlain
    <2>2. UNCHANGED status \/ SettleRow(k, "completed") \/ SettleRow(k, "failed")
      BY <1>6 DEF Result, ResultUnmatched, ResultFailure, ResultSuccessMember, ResultSuccessLoan,
                  ResultLoanAborted, ResultSuccessPlain, rowVars
    <2> QED BY <2>1, <2>2 DEF NobodyAdmitted, SettleRow, Releasable
  <1>7. RepostMissingJournals \/ LoanDesk \/ UNCHANGED vars => NobodyAdmitted
    BY DEF NobodyAdmitted, RepostMissingJournals, LoanDesk, RejectLoan, DisburseRead,
           DisburseWrite, DisburseRefused, vars, rowVars
  <1>8. (\E k \in Keys : Begin(k) \/ Commit(k)) \/ NobodyAdmitted
    BY <1>3, <1>5, <1>6, <1>7 DEF Next
  <1> QED BY <1>1, <1>2, <1>4, <1>8 DEF NobodyAdmitted

-----------------------------------------------------------------------------
(* The savings of a member *)

\* All savings withdrawals of a member are paid from one cash account.
OneChannel ==
  \A j, k \in Keys :
    Input[j].savings /\ Input[k].savings /\ Input[j].member = Input[k].member
      => Account(j) = Account(k)

SavingsInv ==
  /\ SavingsNotOverdrawn
  /\ \A k \in Keys :
       pc[k] = "initiating" /\ Input[k].savings => Amount(k) <= Withdrawable(Input[k].member)

\* A withdrawal is part of the sum from the commit that admits it.
LEMMA WithdrawnStep ==
  ASSUME TypeOK, InitiatingIsNew, NEW m \in Members, [Next]_vars
  PROVE  /\ Withdrawn(m) \in Int /\ Withdrawn(m)' \in Int
         /\ NobodyAdmitted => Withdrawn(m)' <= Withdrawn(m)
         /\ \A k \in Keys : Begin(k) => Withdrawn(m)' = Withdrawn(m)
         /\ \A k \in Keys : Commit(k) =>
              Withdrawn(m)' = Withdrawn(m) +
                (IF Input[k].member = m /\ Input[k].savings THEN Amount(k) ELSE 0)
  <1> DEFINE price == [k \in Keys |-> Amount(k)]
             W == WithdrawalsOf(m)
             X == {k \in Keys : Input[k].member = m /\ Input[k].savings /\ status'[k] \in Committed}
  <1>0. W \in SUBSET Keys /\ X \in SUBSET Keys  BY DEF WithdrawalsOf
  <1>1. Withdrawn(m) = SumFunctionOnSet(price, W) /\ Withdrawn(m)' = SumFunctionOnSet(price, X)
    BY DEF Withdrawn, WithdrawalsOf, Amount, Committed
  <1>2. \A k \in Keys : price[k] \in Nat /\ price[k] = Amount(k)  BY AmountIsNat
  <1>3. \A k \in Keys : k \in W <=>
          Input[k].member = m /\ Input[k].savings /\ status[k] \in Committed
    BY DEF WithdrawalsOf
  <1>4. \A k \in Keys : k \in X <=>
          Input[k].member = m /\ Input[k].savings /\ status'[k] \in Committed
    OBVIOUS
  <1>5. \A k \in Keys : Lifecycle(k)  BY NewRowStep
  <1> HIDE DEF price, W, X
  <1>6. Summable(price, Keys)  BY <1>2, FiniteAssumption DEF Summable
  <1>7. Summable(price, W) /\ Summable(price, X)  BY <1>0, <1>6, SummableSubset
  <1>8. Withdrawn(m) \in Int /\ Withdrawn(m)' \in Int  BY <1>1, <1>7, SumIsInt
  <1>9. ASSUME NobodyAdmitted  PROVE Withdrawn(m)' <= Withdrawn(m)
    <2>1. X \in SUBSET W
      BY <1>0, <1>3, <1>4, <1>5, <1>9 DEF Lifecycle, NobodyAdmitted, Committed, None
    <2>2. IsFiniteSet(W) /\ \A k \in W : price[k] \in Nat  BY <1>0, <1>2, <1>7 DEF Summable
    <2> QED BY <1>1, <2>1, <2>2, SumOfPart
  <1>10. ASSUME NEW k \in Keys, Begin(k)  PROVE Withdrawn(m)' = Withdrawn(m)
    <2>1. X = W  BY <1>0, <1>3, <1>4, <1>10 DEF Begin, rowVars
    <2> QED BY <1>1, <2>1
  <1>11. ASSUME NEW k \in Keys, Commit(k)
         PROVE  Withdrawn(m)' = Withdrawn(m) +
                  (IF Input[k].member = m /\ Input[k].savings THEN Amount(k) ELSE 0)
    <2>1. /\ status[k] = None /\ status'[k] \in {"pending_approval", "approved"}
          /\ \A j \in Keys \ {k} : status'[j] = status[j]
      BY <1>11 DEF Commit, InitiatingIsNew, TypeOK
    <2>2. k \notin W  BY <1>3, <2>1 DEF Committed, None
    <2>3. CASE Input[k].member = m /\ Input[k].savings
      <3>1. X = W \cup {k}  BY <1>0, <1>3, <1>4, <2>1, <2>3 DEF Committed
      <3>2. SumFunctionOnSet(price, X) = price[k] + SumFunctionOnSet(price, W)
        BY <1>7, <2>2, <3>1, SumWith
      <3>3. price[k] \in Nat /\ price[k] = Amount(k)  BY <1>2
      <3> QED BY <1>1, <1>8, <2>3, <3>2, <3>3
    <2>4. CASE ~(Input[k].member = m /\ Input[k].savings)
      <3>1. X = W  BY <1>0, <1>3, <1>4, <2>1, <2>4
      <3> QED BY <1>1, <1>8, <2>4, <3>1
    <2> QED BY <2>3, <2>4
  <1> QED BY <1>8, <1>9, <1>10, <1>11

LEMMA SavingsStep ==
  ASSUME OneChannel, TypeOK, InitiatingIsNew, OneAtATime, SavingsInv, [Next]_vars
  PROVE  SavingsInv'
  <1>1. \A k \in Keys : Input[k].savings => Input[k].member \in Members
    BY InputAssumption DEF Requests
  <1>2. \A m \in Members : Savings[m] \in Int  BY MoneyAssumption
  <1>3. \A k \in Keys : Amount(k) \in Nat  BY AmountIsNat
  <1>4. SUFFICES
          /\ \A m \in Members : Savings[m] - Withdrawn(m)' >= 0
          /\ \A k \in Keys : pc'[k] = "initiating" /\ Input[k].savings
               => Amount(k) <= Savings[Input[k].member] - Withdrawn(Input[k].member)'
    BY DEF SavingsInv, SavingsNotOverdrawn, Withdrawable, Amount
  <1>5. /\ \A m \in Members : Savings[m] - Withdrawn(m) >= 0
        /\ \A k \in Keys : pc[k] = "initiating" /\ Input[k].savings
             => Amount(k) <= Savings[Input[k].member] - Withdrawn(Input[k].member)
    BY DEF SavingsInv, SavingsNotOverdrawn, Withdrawable
  <1>6. \A m \in Members : Withdrawn(m) \in Int /\ Withdrawn(m)' \in Int  BY WithdrawnStep
  <1>7. CASE NobodyAdmitted
    <2>1. \A m \in Members : Withdrawn(m)' <= Withdrawn(m)  BY <1>7, WithdrawnStep
    <2>2. \A m \in Members : Savings[m] - Withdrawn(m) <= Savings[m] - Withdrawn(m)'
      BY <1>2, <1>6, <2>1
    <2>3. \A k \in Keys : pc'[k] = "initiating" => pc[k] = "initiating"
      BY <1>7 DEF NobodyAdmitted
    <2> QED BY <1>1, <1>2, <1>3, <1>5, <1>6, <2>2, <2>3
  <1>8. ASSUME NEW k \in Keys, Begin(k)
        PROVE  /\ \A m \in Members : Savings[m] - Withdrawn(m)' >= 0
               /\ \A j \in Keys : pc'[j] = "initiating" /\ Input[j].savings
                    => Amount(j) <= Savings[Input[j].member] - Withdrawn(Input[j].member)'
    <2>1. \A m \in Members : Withdrawn(m)' = Withdrawn(m)  BY <1>8, WithdrawnStep
    <2>2. \A j \in Keys : pc'[j] = "initiating" => pc[j] = "initiating" \/ j = k
      BY <1>8 DEF Begin, TypeOK
    <2>3. Input[k].savings => Amount(k) <= Savings[Input[k].member] - Withdrawn(Input[k].member)
      BY <1>8 DEF Begin, Withdrawable
    <2> QED BY <1>1, <1>5, <2>1, <2>2, <2>3
  <1>9. ASSUME NEW k \in Keys, Commit(k)
        PROVE  /\ \A m \in Members : Savings[m] - Withdrawn(m)' >= 0
               /\ \A j \in Keys : pc'[j] = "initiating" /\ Input[j].savings
                    => Amount(j) <= Savings[Input[j].member] - Withdrawn(Input[j].member)'
    <2>1. pc[k] = "initiating" /\ pc'[k] # "initiating"
          /\ \A j \in Keys \ {k} : pc'[j] = pc[j]
      BY <1>9 DEF Commit, TypeOK
    <2>2. \A m \in Members : Withdrawn(m)' = Withdrawn(m) +
                (IF Input[k].member = m /\ Input[k].savings THEN Amount(k) ELSE 0)
      BY <1>9, WithdrawnStep
    <2>3. ASSUME NEW m \in Members  PROVE Savings[m] - Withdrawn(m)' >= 0
      <3>1. CASE Input[k].member = m /\ Input[k].savings
        <4>1. Amount(k) <= Savings[m] - Withdrawn(m)  BY <1>5, <2>1, <3>1
        <4>2. Withdrawn(m)' = Withdrawn(m) + Amount(k)  BY <2>2, <3>1
        <4> QED BY <1>2, <1>3, <1>6, <4>1, <4>2
      <3>2. CASE ~(Input[k].member = m /\ Input[k].savings)
        <4>1. Withdrawn(m)' = Withdrawn(m)  BY <1>6, <2>2, <3>2
        <4> QED BY <1>5, <4>1
      <3> QED BY <3>1, <3>2
    <2>4. ASSUME NEW j \in Keys, pc'[j] = "initiating", Input[j].savings
          PROVE  Amount(j) <= Savings[Input[j].member] - Withdrawn(Input[j].member)'
      <3>1. j # k /\ pc[j] = "initiating"  BY <2>1, <2>4
      <3>2. Account(j) # Account(k)  BY <2>1, <3>1 DEF OneAtATime
      <3>3. ~(Input[k].member = Input[j].member /\ Input[k].savings)
        BY <2>4, <3>2 DEF OneChannel
      <3>4. Withdrawn(Input[j].member)' = Withdrawn(Input[j].member)
        BY <1>1, <1>6, <2>2, <2>4, <3>3
      <3> QED BY <1>5, <2>4, <3>1, <3>4
    <2> QED BY <2>3, <2>4
  <1> QED BY <1>7, <1>8, <1>9, AdmissionStep

\* A member is never promised more than was saved, for any number of withdrawals that wait,
\* are dispatched, fail or are retried, where all withdrawals of a member are paid from one
\* account.  The premise is needed: initiateDisbursement locks the account it pays from, and
\* two channels have two (two_accounts).
THEOREM SavingsCover ==
  ASSUME OneChannel
  PROVE  Spec => []SavingsNotOverdrawn
  <1> DEFINE I == InitiatingIsNew /\ OneAtATime /\ SavingsInv
  <1>1. Init => I
    <2> SUFFICES ASSUME Init PROVE I
      OBVIOUS
    <2>1. InitiatingIsNew /\ OneAtATime  BY DEF Init, InitiatingIsNew, OneAtATime
    <2>2. ASSUME NEW m \in Members  PROVE Savings[m] - Withdrawn(m) >= 0
      <3>1. WithdrawalsOf(m) = {}  BY DEF Init, WithdrawalsOf, Committed, None
      <3>2. Withdrawn(m) = 0  BY <3>1, SumOfNothing DEF Withdrawn
      <3>3. Savings[m] \in Nat  BY MoneyAssumption
      <3> QED BY <3>2, <3>3
    <2>3. \A k \in Keys : pc[k] # "initiating"  BY DEF Init
    <2> QED BY <2>1, <2>2, <2>3 DEF SavingsInv, SavingsNotOverdrawn, Withdrawable
  <1>2. TypeOK /\ I /\ [Next]_vars => I'  BY NewRowStep, AdmissionStep, SavingsStep
  <1>3. I => SavingsNotOverdrawn  BY DEF SavingsInv
  <1> QED BY <1>1, <1>2, <1>3, TypeCorrect, PTL DEF Spec

-----------------------------------------------------------------------------
(* The cash behind the promises *)

\* What a request has claimed of the opening balance: an earmark, or the amount of a member
\* payout that went out.  A plain payout is booked by whoever asked for it.
Claimed == [k \in Keys |->
  IF status[k] \in Holding \/ (IsMember(k) /\ status[k] = "completed") THEN Amount(k) ELSE 0]
Claims(a) == SumFunctionOnSet(Claimed, OnAccount(a))

ClaimsCovered ==
  \A a \in Accounts :
    /\ Claims(a) <= Opening[a]
    /\ \A k \in OnAccount(a) : pc[k] = "initiating" => Claims(a) + Amount(k) <= Opening[a]

CompletedIsBooked ==
  \A k \in Keys : IsMember(k) /\ status[k] = "completed" => journaled[k]

\* A loan is attributed by the write that disburses it, so that a callback never flips one.
UnflippedIsBare == \A l \in Loans : loan[l] = "approved" => ~attributed[l]

\* Loan payouts are booked by the teller alone, and of a plain payout only the fee is booked.
OthersBookFees ==
  \A k \in Keys : IsLoan(k) \/ (IsPlain(k) /\ Fee = 0) => booked[k] = 0

LEMMA ClaimTypes ==
  ASSUME TypeOK
  PROVE  /\ \A k \in Keys : Claimed[k] \in Nat /\ hold[k] \in Int /\ booked[k] \in Nat
         /\ \A a \in Accounts :
              /\ OnAccount(a) \in SUBSET Keys
              /\ Summable(Claimed, OnAccount(a)) /\ Summable(hold, OnAccount(a))
              /\ Summable(booked, OnAccount(a))
              /\ ByHand(a) \in Nat /\ Opening[a] \in Nat
  <1>1. \A k \in Keys : Claimed[k] \in Nat /\ hold[k] \in Int /\ booked[k] \in Nat
    BY AmountIsNat DEF Claimed, TypeOK
  <1>2. \A a \in Accounts : OnAccount(a) \in SUBSET Keys  BY DEF OnAccount
  <1>3. Summable(Claimed, Keys) /\ Summable(hold, Keys) /\ Summable(booked, Keys)
    BY <1>1, FiniteAssumption DEF Summable
  <1>4. SumFunctionOnSet(loanBooked, Loans) \in Nat
    BY FiniteAssumption, SumIsNat DEF TypeOK
  <1>5. \A a \in Accounts : ByHand(a) \in Nat /\ Opening[a] \in Nat
    BY <1>4, MoneyAssumption DEF ByHand
  <1> QED BY <1>1, <1>2, <1>3, <1>5, SummableSubset

LEMMA ClaimTypesNext == TypeOK' => \A a \in Accounts : Summable(Claimed', OnAccount(a))
  <1>1. TypeOK => \A a \in Accounts : Summable(Claimed, OnAccount(a))  BY ClaimTypes
  <1>2. (TypeOK => \A a \in Accounts : Summable(Claimed, OnAccount(a)))'  BY <1>1, PTL
  <1> QED BY <1>2 DEF Summable, OnAccount, Account

\* Checked against the claims is what the account holds and has booked: no less.
LEMMA ClaimsAreBooked ==
  ASSUME TypeOK, HoldInv, JournalledOnce, CompletedIsBooked, NEW a \in Accounts
  PROVE  /\ Claims(a) \in Int /\ Available(a) \in Int
         /\ Claims(a) <= Opening[a] - Available(a)
  <1> DEFINE S == OnAccount(a)
             both == [k \in Keys |-> hold[k] + booked[k]]
  <1>1. ASSUME NEW k \in Keys  PROVE Claimed[k] <= both[k]
    <2>1. /\ Amount(k) \in Nat /\ Fee \in Nat /\ booked[k] \in Nat
          /\ hold[k] = IF status[k] \in Holding THEN Amount(k) ELSE 0
      BY AmountIsNat, MoneyAssumption DEF TypeOK, HoldInv, HoldAt
    <2>2. CASE status[k] \in Holding  BY <2>1, <2>2 DEF Claimed
    <2>3. CASE status[k] \notin Holding /\ IsMember(k) /\ status[k] = "completed"
      <3>1. booked[k] \in {Amount(k), Amount(k) + Fee}
        BY <2>3 DEF CompletedIsBooked, JournalledOnce
      <3> QED BY <2>1, <2>3, <3>1 DEF Claimed
    <2> QED BY <2>1, <2>2, <2>3 DEF Claimed
  <1>2. /\ S \in SUBSET Keys /\ Summable(Claimed, S) /\ Summable(hold, S) /\ Summable(booked, S)
        /\ ByHand(a) \in Nat /\ Opening[a] \in Nat
    BY ClaimTypes
  <1>3. \A k \in S : both[k] = hold[k] + booked[k] /\ Claimed[k] <= both[k]  BY <1>1, <1>2
  <1> HIDE DEF S, both
  <1>4. Summable(both, S)  BY <1>2, <1>3 DEF Summable
  <1>5. SumFunctionOnSet(Claimed, S) <= SumFunctionOnSet(both, S)
    BY <1>2, <1>3, <1>4, SumMonotonic
  <1>6. SumFunctionOnSet(both, S) = SumFunctionOnSet(hold, S) + SumFunctionOnSet(booked, S)
    BY <1>2, <1>3, SumOfSums
  <1>7. /\ SumFunctionOnSet(Claimed, S) \in Int /\ SumFunctionOnSet(hold, S) \in Int
        /\ SumFunctionOnSet(booked, S) \in Int
    BY <1>2, SumIsInt
  <1>8. /\ Claims(a) = SumFunctionOnSet(Claimed, S) /\ Reserved(a) = SumFunctionOnSet(hold, S)
        /\ Booked(a) = SumFunctionOnSet(booked, S) + ByHand(a)
    BY DEF Claims, Reserved, Booked, S
  <1>9. Available(a) = Opening[a] - (SumFunctionOnSet(booked, S) + ByHand(a))
                         - SumFunctionOnSet(hold, S)
    BY <1>8 DEF Available, Balance
  <1> QED BY <1>2, <1>5, <1>6, <1>7, <1>8, <1>9

LEMMA ClaimsStep ==
  ASSUME TypeOK, TypeOK', InitiatingIsNew, OneAtATime, HoldInv, JournalledOnce,
         CompletedIsBooked, ClaimsCovered, [Next]_vars
  PROVE  ClaimsCovered'
  <1> SUFFICES ASSUME NEW a \in Accounts
               PROVE  /\ Claims(a)' <= Opening[a]
                      /\ \A k \in OnAccount(a) :
                           pc'[k] = "initiating" => Claims(a)' + Amount(k) <= Opening[a]
    BY DEF ClaimsCovered, OnAccount, Account, Amount
  <1>0. /\ Claims(a) <= Opening[a]
        /\ \A k \in OnAccount(a) : pc[k] = "initiating" => Claims(a) + Amount(k) <= Opening[a]
    BY DEF ClaimsCovered
  <1> DEFINE S == OnAccount(a)
  <1>1. Claims(a) = SumFunctionOnSet(Claimed, S) /\ Claims(a)' = SumFunctionOnSet(Claimed', S)
    BY DEF Claims, OnAccount, Account
  <1>2. S \in SUBSET Keys /\ Summable(Claimed, S) /\ Summable(Claimed', S) /\ Opening[a] \in Nat
    BY ClaimTypes, ClaimTypesNext
  <1>3. Claims(a) \in Int /\ Claims(a)' \in Int  BY <1>1, <1>2, SumIsInt
  <1>4. \A k \in Keys : Amount(k) \in Nat  BY AmountIsNat
  <1>5. \A k \in Keys : k \in S <=> Account(k) = a  BY DEF OnAccount
  <1>6. \A k \in Keys : Claimed'[k] =
          IF status'[k] \in Holding \/ (IsMember(k) /\ status'[k] = "completed")
          THEN Amount(k) ELSE 0
    BY DEF Claimed, IsMember, Amount, Holding
  <1>7. \A k \in Keys : Claimed[k] =
          IF status[k] \in Holding \/ (IsMember(k) /\ status[k] = "completed")
          THEN Amount(k) ELSE 0
    BY DEF Claimed
  <1> HIDE DEF S
  <1>8. CASE NobodyAdmitted
    <2>1. ASSUME NEW k \in Keys  PROVE Claimed'[k] <= Claimed[k]
      <3>1. Lifecycle(k) /\ (status[k] = None => status'[k] = None)
        BY <1>8, NewRowStep DEF NobodyAdmitted
      <3>2. CASE status'[k] = status[k]
        <4>1. Claimed'[k] = Claimed[k]  BY <1>6, <1>7, <3>2
        <4> QED BY <1>4, <1>7, <4>1
      <3>3. CASE status'[k] # status[k]
        <4>1. status[k] \in Holding
          BY <3>1, <3>3 DEF Lifecycle, Holding, None
        <4>2. Claimed[k] = Amount(k)  BY <1>7, <4>1
        <4>3. Claimed'[k] \in {0, Amount(k)}  BY <1>6
        <4> QED BY <1>4, <4>2, <4>3
      <3> QED BY <3>2, <3>3
    <2>2. Claims(a)' <= Claims(a)  BY <1>1, <1>2, <2>1, SumMonotonic
    <2>3. \A k \in Keys : pc'[k] = "initiating" => pc[k] = "initiating"
      BY <1>8 DEF NobodyAdmitted
    <2>4. Claims(a)' <= Opening[a]  BY <1>0, <1>2, <1>3, <2>2
    <2>5. ASSUME NEW k \in OnAccount(a), pc'[k] = "initiating"
          PROVE  Claims(a)' + Amount(k) <= Opening[a]
      <3>1. k \in Keys /\ pc[k] = "initiating"  BY <2>3, <2>5 DEF OnAccount
      <3>2. Claims(a) + Amount(k) <= Opening[a]  BY <1>0, <2>5, <3>1
      <3> QED BY <1>2, <1>3, <1>4, <2>2, <3>1, <3>2
    <2> QED BY <2>4, <2>5
  <1>9. CASE \E b \in Keys : Begin(b)
    <2>1. PICK b \in Keys : Begin(b)  BY <1>9
    <2>2. status' = status  BY <2>1 DEF Begin, rowVars
    <2>3. Claims(a)' = Claims(a)
      <3>1. \A k \in S : Claimed'[k] = Claimed[k]  BY <1>2, <1>6, <1>7, <2>2
      <3>2. IsFiniteSet(S)  BY <1>2 DEF Summable
      <3> QED BY <1>1, <3>1, <3>2, SumSame
    <2>4. ASSUME NEW k \in OnAccount(a), pc'[k] = "initiating"
          PROVE  Claims(a)' + Amount(k) <= Opening[a]
      <3>1. k \in Keys /\ Account(k) = a  BY DEF OnAccount
      <3>2. CASE k = b
        <4>1. Amount(k) <= Available(a)  BY <2>1, <3>1, <3>2 DEF Begin
        <4>2. Available(a) \in Int /\ Claims(a) <= Opening[a] - Available(a)
          BY ClaimsAreBooked
        <4> QED BY <1>2, <1>3, <1>4, <2>3, <3>1, <4>1, <4>2
      <3>3. CASE k # b
        <4>1. pc[k] = "initiating"  BY <2>1, <2>4, <3>1, <3>3 DEF Begin, TypeOK
        <4> QED BY <1>0, <2>3, <4>1
      <3> QED BY <3>2, <3>3
    <2> QED BY <1>0, <2>3, <2>4
  <1>10. CASE \E c \in Keys : Commit(c)
    <2>1. PICK c \in Keys : Commit(c)  BY <1>10
    <2>2. /\ pc[c] = "initiating" /\ pc'[c] # "initiating"
          /\ status[c] = None /\ status'[c] \in {"pending_approval", "approved"}
          /\ \A k \in Keys \ {c} : pc'[k] = pc[k] /\ status'[k] = status[k]
      BY <2>1 DEF Commit, InitiatingIsNew, TypeOK
    <2>3. \A k \in Keys \ {c} : Claimed'[k] = Claimed[k]  BY <1>6, <1>7, <2>2
    <2>4. Claimed[c] = 0 /\ Claimed'[c] = Amount(c)
      BY <1>6, <1>7, <2>2 DEF Holding, None
    <2>5. CASE Account(c) = a
      <3>1. c \in S  BY <1>5, <2>5
      <3>2. SumFunctionOnSet(Claimed', S) = SumFunctionOnSet(Claimed, S) - Claimed[c] + Claimed'[c]
        BY <1>2, <2>3, <3>1, SumUpdated
      <3>3. Claims(a)' = Claims(a) + Amount(c)  BY <1>1, <1>3, <1>4, <2>4, <3>2
      <3>4. Claims(a) + Amount(c) <= Opening[a]  BY <1>0, <2>2, <3>1 DEF S
      <3>5. ASSUME NEW k \in OnAccount(a), pc'[k] = "initiating"  PROVE FALSE
        <4>1. k \in Keys /\ Account(k) = a  BY DEF OnAccount
        <4>2. k # c /\ pc[k] = "initiating"  BY <2>2, <3>5, <4>1
        <4> QED BY <2>2, <2>5, <4>1, <4>2 DEF OneAtATime
      <3> QED BY <3>3, <3>4, <3>5
    <2>6. CASE Account(c) # a
      <3>1. c \notin S  BY <1>5, <2>6
      <3>2. \A k \in S : Claimed'[k] = Claimed[k]  BY <1>2, <2>3, <3>1
      <3>3. IsFiniteSet(S)  BY <1>2 DEF Summable
      <3>4. Claims(a)' = Claims(a)  BY <1>1, <3>2, <3>3, SumSame
      <3>5. \A k \in OnAccount(a) : pc'[k] = pc[k]  BY <1>2, <2>2, <3>1 DEF S
      <3> QED BY <1>0, <3>4, <3>5
    <2> QED BY <2>5, <2>6
  <1> QED BY <1>8, <1>9, <1>10, AdmissionStep

\* On a chart that has the accounts of a payout, a member payout is journalled by the
\* transaction that completes it.
LEMMA CompletedStep ==
  ASSUME "missing" \notin Charts, TypeOK, CompletedIsBooked, [Next]_vars
  PROVE  CompletedIsBooked'
  <1> SUFFICES ASSUME NEW j \in Keys, IsMember(j), status'[j] = "completed"
               PROVE  journaled'[j]
    BY DEF CompletedIsBooked, IsMember
  <1>0. status[j] = "completed" => journaled[j]  BY DEF CompletedIsBooked
  <1>1. ASSUME journaled'[j] = journaled[j], status'[j] = status[j]  PROVE journaled'[j]
    BY <1>0, <1>1
  <1>2. ASSUME NEW k \in Keys, Officer(k) \/ Commit(k)  PROVE journaled'[j]
    <2>1. CASE PlatformExecute(k)
      BY <1>0, <2>1 DEF PlatformExecute, TypeOK
    <2>2. CASE ~PlatformExecute(k)
      BY <1>0, <1>2, <2>2
      DEF Officer, Begin, Commit, Approve, TreasurerApprove, Reject, TreasurerReject,
          PlatformReject, Decline, Cancel, PlatformApproveMpesa, rowVars, TypeOK
    <2> QED BY <2>1, <2>2
  <1>3. ASSUME NEW k \in Keys,
               Dispatcher(k) \/ Crash(k) \/ DarajaSettles(k) \/ WatchdogTimeout(k)
        PROVE  journaled'[j]
    <2>1. UNCHANGED journaled /\ status[j] = "completed"
      BY <1>3
      DEF Dispatcher, Claim, PostAccepted, PostRefused, PostAnswerLost, RecordB2C, AuditDispatch,
          StepError, DispatchFailed, Crash, DarajaSettles, WatchdogTimeout, dispatchRest, rowVars,
          TypeOK
    <2> QED BY <1>0, <2>1
  <1>4. ASSUME NEW k \in Keys, Result(k)  PROVE journaled'[j]
    <2>1. CASE ResultSuccessMember(k)
      <3>1. PICK chart \in Charts : PostMemberJournal(k, Fee, chart)
        BY <2>1 DEF ResultSuccessMember
      <3>2. chart # "missing"  OBVIOUS
      <3>3. SettleRow(k, "completed")  BY <2>1 DEF ResultSuccessMember
      <3>4. CASE journaled[k]
        <4>1. UNCHANGED journaled  BY <3>1, <3>4 DEF PostMemberJournal
        <4>2. k # j => status[j] = "completed"  BY <3>3 DEF SettleRow, TypeOK
        <4> QED BY <1>0, <3>4, <4>1, <4>2
      <3>5. CASE ~journaled[k]
        <4>1. journaled' = [journaled EXCEPT ![k] = (chart # "missing")]
          BY <3>1, <3>5, Zenon DEF PostMemberJournal
        <4>2. journaled' = [journaled EXCEPT ![k] = TRUE]  BY <3>2, <4>1
        <4>3. k # j => status[j] = "completed"  BY <3>3 DEF SettleRow, TypeOK
        <4> QED BY <1>0, <4>2, <4>3 DEF TypeOK
      <3> QED BY <3>4, <3>5
    <2>2. CASE ~ResultSuccessMember(k)
      <3>1. UNCHANGED journaled
        BY <1>4, <2>2
        DEF Result, ResultUnmatched, ResultFailure, ResultSuccessLoan, ResultLoanAborted,
            ResultSuccessPlain, rowVars, dispatchRest
      <3>2. \/ UNCHANGED status \/ SettleRow(k, "failed")
            \/ ~IsMember(k) /\ SettleRow(k, "completed")
        BY <1>4, <2>2
        DEF Result, ResultUnmatched, ResultFailure, ResultSuccessLoan, ResultLoanAborted,
            ResultSuccessPlain, rowVars, IsMember, IsLoan, IsPlain
      <3>3. status[j] = "completed"  BY <3>2 DEF SettleRow, TypeOK
      <3> QED BY <1>0, <3>1, <3>3
    <2> QED BY <2>1, <2>2
  <1>5. CASE RepostMissingJournals
    <2>1. PICK chart \in Charts : journaled' = [k \in Keys |->
            journaled[k] \/ (k \in MissingJournals /\ chart # "missing")]
      BY <1>5 DEF RepostMissingJournals
    <2>2. status[j] = "completed"  BY <1>5 DEF RepostMissingJournals
    <2>3. journaled'[j] <=> (journaled[j] \/ (j \in MissingJournals /\ chart # "missing"))
      BY <2>1, Zenon
    <2> QED BY <1>0, <2>2, <2>3
  <1>6. CASE LoanDesk \/ UNCHANGED vars
    BY <1>1, <1>6 DEF LoanDesk, RejectLoan, DisburseRead, DisburseWrite, DisburseRefused, vars,
                      rowVars
  <1> QED BY <1>2, <1>3, <1>4, <1>5, <1>6 DEF Next

LEMMA UnflippedStep == TypeOK /\ UnflippedIsBare /\ [Next]_vars => UnflippedIsBare'
  <1> SUFFICES ASSUME TypeOK, UnflippedIsBare, [Next]_vars,
                      NEW l \in Loans, loan'[l] = "approved"
               PROVE  ~attributed'[l]
    BY DEF UnflippedIsBare
  <1>0. loan[l] = "approved" => ~attributed[l]  BY DEF UnflippedIsBare
  <1>1. ASSUME attributed'[l] = attributed[l], loan'[l] = loan[l]  PROVE ~attributed'[l]
    BY <1>0, <1>1
  <1>2. ASSUME NEW k \in Keys, Officer(k) \/ Commit(k) \/ Dispatcher(k) \/ Crash(k)
                                 \/ DarajaSettles(k) \/ WatchdogTimeout(k)
        PROVE  ~attributed'[l]
    <2>1. UNCHANGED <<loan, attributed>>
      BY <1>2
      DEF Officer, Begin, Commit, Approve, TreasurerApprove, Reject, TreasurerReject,
          PlatformReject, Decline, Cancel, PlatformApproveMpesa, PlatformExecute, Dispatcher,
          Claim, PostAccepted, PostRefused, PostAnswerLost, RecordB2C, AuditDispatch, StepError,
          DispatchFailed, Crash, DarajaSettles, WatchdogTimeout, dispatchRest, loanVars
    <2> QED BY <1>1, <2>1
  <1>3. ASSUME NEW k \in Keys, Result(k)  PROVE ~attributed'[l]
    <2>1. UNCHANGED attributed
      BY <1>3 DEF Result, ResultUnmatched, ResultFailure, ResultSuccessMember, ResultSuccessLoan,
                  ResultLoanAborted, ResultSuccessPlain, loanVars, dispatchRest
    <2>2. loan[l] = "approved"
      <3>1. \/ UNCHANGED loan
            \/ loan' = [loan EXCEPT ![Input[k].loan] = "disbursed"]
        BY <1>3 DEF Result, ResultUnmatched, ResultFailure, ResultSuccessMember,
                    ResultSuccessLoan, ResultLoanAborted, ResultSuccessPlain, loanVars,
                    dispatchRest, ApplyLoanDisbursement
      <3> QED BY <3>1 DEF TypeOK
    <2> QED BY <1>0, <2>1, <2>2
  <1>4. CASE RepostMissingJournals  BY <1>1, <1>4 DEF RepostMissingJournals, loanVars
  <1>5. CASE LoanDesk
    <2>1. CASE \E o \in Officers : DisburseWrite(o)
      <3>1. PICK o \in Officers : DisburseWrite(o)  BY <2>1
      <3>2. /\ loan' = [loan EXCEPT ![teller[o]] = "disbursed"]
            /\ attributed' = [attributed EXCEPT ![teller[o]] = TRUE]
        BY <3>1 DEF DisburseWrite
      <3> QED BY <1>0, <3>2 DEF TypeOK
    <2>2. CASE \E m \in Loans : RejectLoan(m)
      BY <1>0, <2>2 DEF RejectLoan, TypeOK
    <2>3. CASE \E o \in Officers : DisburseRefused(o) \/ \E m \in Loans : DisburseRead(o, m)
      BY <1>1, <2>3 DEF DisburseRefused, DisburseRead
    <2> QED BY <1>5, <2>1, <2>2, <2>3 DEF LoanDesk
  <1>6. CASE UNCHANGED vars  BY <1>1, <1>6 DEF vars, loanVars
  <1> QED BY <1>2, <1>3, <1>4, <1>5, <1>6 DEF Next

LEMMA OthersStep ==
  ASSUME TypeOK, UnflippedIsBare, OthersBookFees, [Next]_vars
  PROVE  OthersBookFees'
  <1> SUFFICES ASSUME NEW j \in Keys, IsLoan(j) \/ (IsPlain(j) /\ Fee = 0)
               PROVE  booked'[j] = 0
    BY DEF OthersBookFees, IsLoan, IsPlain
  <1>0. booked[j] = 0 /\ ~IsMember(j)  BY DEF OthersBookFees, IsLoan, IsPlain, IsMember
  <1>1. ASSUME NEW k \in Keys, Officer(k) \/ Commit(k) \/ Dispatcher(k) \/ Crash(k)
                                 \/ DarajaSettles(k) \/ WatchdogTimeout(k)
        PROVE  booked'[j] = 0
    <2>1. CASE PlatformExecute(k)
      <3>1. Input[k].method # "mpesa" /\ booked' = [booked EXCEPT ![k] = @ + Amount(k)]
        BY <2>1 DEF PlatformExecute
      <3>2. k # j  BY <1>0, <3>1, InputAssumption DEF IsMember
      <3> QED BY <1>0, <3>1, <3>2 DEF TypeOK
    <2>2. CASE ~PlatformExecute(k)
      <3>1. UNCHANGED booked
        BY <1>1, <2>2
        DEF Officer, Begin, Commit, Approve, TreasurerApprove, Reject, TreasurerReject,
            PlatformReject, Decline, Cancel, PlatformApproveMpesa, Dispatcher, Claim,
            PostAccepted, PostRefused, PostAnswerLost, RecordB2C, AuditDispatch, StepError,
            DispatchFailed, Crash, DarajaSettles, WatchdogTimeout, dispatchRest, cashVars
      <3> QED BY <1>0, <3>1
    <2> QED BY <2>1, <2>2
  <1>2. ASSUME NEW k \in Keys, Result(k)  PROVE booked'[j] = 0
    <2>1. CASE ResultSuccessMember(k)
      <3>1. k # j  BY <1>0, <2>1 DEF ResultSuccessMember
      <3>2. PICK chart \in Charts : PostMemberJournal(k, Fee, chart)
        BY <2>1 DEF ResultSuccessMember
      <3> QED BY <1>0, <3>1, <3>2 DEF PostMemberJournal, TypeOK
    <2>2. CASE ResultSuccessLoan(k)
      <3>1. Input[k].loan \in Loans
        BY <2>2, InputAssumption DEF ResultSuccessLoan, IsLoan, Requests
      <3>2. ~Flips(k)
        BY <2>2, <3>1 DEF ResultSuccessLoan, Flips, Attributed, UnflippedIsBare
      <3> QED BY <1>0, <2>2, <3>2 DEF ResultSuccessLoan, ApplyLoanDisbursement
    <2>3. CASE ResultSuccessPlain(k)
      <3>1. PICK chart \in Charts :
              booked' = [booked EXCEPT ![k] = @ + IF chart = "complete" THEN Fee ELSE 0]
        BY <2>3 DEF ResultSuccessPlain
      <3>2. CASE k # j  BY <1>0, <3>1, <3>2 DEF TypeOK
      <3>3. CASE k = j
        <4>1. Fee = 0  BY <2>3, <3>3 DEF ResultSuccessPlain, IsPlain, IsLoan
        <4>2. booked'[j] = booked[j] + IF chart = "complete" THEN 0 ELSE 0
          BY <3>1, <3>3, <4>1 DEF TypeOK
        <4> QED BY <1>0, <4>2
      <3> QED BY <3>2, <3>3
    <2>4. CASE ResultUnmatched(k) \/ ResultFailure(k) \/ ResultLoanAborted(k)
      BY <1>0, <2>4 DEF ResultUnmatched, ResultFailure, ResultLoanAborted, dispatchRest, cashVars
    <2> QED BY <1>2, <2>1, <2>2, <2>3, <2>4 DEF Result
  <1>3. CASE RepostMissingJournals
    <2>1. j \notin MissingJournals  BY <1>0 DEF MissingJournals
    <2>2. PICK chart \in Charts :
            booked' = [k \in Keys |-> booked[k] +
              IF k \in MissingJournals THEN Posted(k, RepostCharge(k), chart) ELSE 0]
      BY <1>3 DEF RepostMissingJournals
    <2>3. booked'[j] = booked[j] + 0  BY <2>1, <2>2
    <2> QED BY <1>0, <2>3
  <1>4. CASE LoanDesk \/ UNCHANGED vars
    BY <1>0, <1>4 DEF LoanDesk, RejectLoan, DisburseRead, DisburseWrite, DisburseRefused, vars,
                      cashVars
  <1> QED BY <1>1, <1>2, <1>3, <1>4 DEF Next

\* The strengthening of OnlyFeesAndTellers.
CashInv ==
  /\ HoldInv /\ WireInv /\ InitiatingIsNew /\ NoTimeout /\ LedgersSettleTogether
  /\ JournalledOnce /\ OneAtATime /\ CompletedIsBooked /\ ClaimsCovered
  /\ UnflippedIsBare /\ OthersBookFees

LEMMA CashAtFirst == Init => CashInv
  <1> SUFFICES ASSUME Init PROVE CashInv
    OBVIOUS
  <1>1. HoldInv
    BY DEF Init, HoldInv, FlowAt, HoldAt, Holding, Undispatched, None
  <1>2. WireInv  BY DEF Init, WireInv, WireAt, Undispatched, None
  <1>3. InitiatingIsNew /\ NoTimeout /\ LedgersSettleTogether /\ JournalledOnce
    BY DEF Init, InitiatingIsNew, NoTimeout, LedgersSettleTogether, JournalledOnce, None
  <1>4. OneAtATime /\ CompletedIsBooked /\ UnflippedIsBare /\ OthersBookFees
    BY DEF Init, OneAtATime, CompletedIsBooked, UnflippedIsBare, OthersBookFees, None
  <1>5. ASSUME NEW a \in Accounts  PROVE Claims(a) = 0 /\ Opening[a] \in Nat
    <2>1. \A k \in OnAccount(a) : Claimed[k] = 0
      BY DEF Init, OnAccount, Claimed, Holding, None
    <2>2. IsFiniteSet(OnAccount(a))  BY FiniteAssumption, FS_Subset DEF OnAccount
    <2> QED BY <2>1, <2>2, SumOfZeros, MoneyAssumption DEF Claims
  <1>6. ClaimsCovered
    <2>1. \A k \in Keys : pc[k] # "initiating"  BY DEF Init
    <2>2. \A a \in Accounts : OnAccount(a) \in SUBSET Keys  BY DEF OnAccount
    <2> QED BY <1>5, <2>1, <2>2 DEF ClaimsCovered
  <1> QED BY <1>1, <1>2, <1>3, <1>4, <1>6 DEF CashInv

LEMMA CashStep ==
  ASSUME Qstash = FALSE, PostFaults \cap Faults = {}, "missing" \notin Charts,
         TypeOK, TypeOK', CashInv, [Next]_vars
  PROVE  CashInv'
  <1> USE DEF CashInv
  <1>1. HoldInv'  BY HoldStep DEF PostFaults
  <1>2. WireInv'  BY WireInvStep
  <1>3. InitiatingIsNew' /\ NoTimeout'  BY NewRowStep, NoTimeoutStep
  <1>4. LedgersSettleTogether'  BY LedgersStep
  <1>5. JournalledOnce'  BY JournalStep
  <1>6. OneAtATime'  BY AdmissionStep
  <1>7. CompletedIsBooked'  BY CompletedStep
  <1>8. ClaimsCovered'  BY ClaimsStep
  <1>9. UnflippedIsBare' /\ OthersBookFees'  BY UnflippedStep, OthersStep
  <1> QED BY <1>1, <1>2, <1>3, <1>4, <1>5, <1>6, <1>7, <1>8, <1>9

\* Claims and fees make up what is earmarked and booked.
LEMMA ClaimsBound ==
  ASSUME TypeOK, CashInv, NEW a \in Accounts
  PROVE  Reserved(a) <= Balance(a) + Fees(a) + ByHand(a)
  <1> DEFINE S == OnAccount(a)
             both == [k \in Keys |-> hold[k] + booked[k]]
             bound == [k \in Keys |-> Claimed[k] + Extra[k]]
  <1>1. /\ S \in SUBSET Keys /\ Summable(Claimed, S) /\ Summable(hold, S) /\ Summable(booked, S)
        /\ ByHand(a) \in Nat /\ Opening[a] \in Nat
    BY ClaimTypes
  <1>2. ASSUME NEW k \in Keys  PROVE Extra[k] \in Int /\ hold[k] + booked[k] <= Claimed[k] + Extra[k]
    <2>1. /\ Amount(k) \in Nat /\ booked[k] \in Nat /\ Claimed[k] \in Nat
          /\ hold[k] = IF status[k] \in Holding THEN Amount(k) ELSE 0
          /\ Claimed[k] = IF status[k] \in Holding \/ (IsMember(k) /\ status[k] = "completed")
                          THEN Amount(k) ELSE 0
      BY AmountIsNat, ClaimTypes DEF TypeOK, CashInv, HoldInv, HoldAt, Claimed
    <2>2. CASE IsMember(k) /\ booked[k] > 0
      <3>1. status[k] = "completed"  BY <2>1, <2>2 DEF CashInv, LedgersSettleTogether
      <3>2. hold[k] = 0 /\ Claimed[k] = Amount(k)  BY <2>1, <2>2, <3>1 DEF Holding
      <3>3. Extra[k] = booked[k] - Amount(k)  BY <2>2 DEF Extra
      <3> QED BY <2>1, <3>2, <3>3
    <2>3. CASE ~(IsMember(k) /\ booked[k] > 0)
      <3>1. Extra[k] = booked[k]  BY <2>3 DEF Extra
      <3> QED BY <2>1, <3>1
    <2> QED BY <2>2, <2>3
  <1>3. \A k \in S : /\ both[k] = hold[k] + booked[k] /\ bound[k] = Claimed[k] + Extra[k]
                     /\ both[k] <= bound[k] /\ Extra[k] \in Int
    BY <1>1, <1>2
  <1> HIDE DEF S, both, bound
  <1>4. Summable(Extra, S) /\ Summable(both, S) /\ Summable(bound, S)
    BY <1>1, <1>3 DEF Summable
  <1>5. SumFunctionOnSet(both, S) <= SumFunctionOnSet(bound, S)
    BY <1>3, <1>4, SumMonotonic
  <1>6. SumFunctionOnSet(both, S) = SumFunctionOnSet(hold, S) + SumFunctionOnSet(booked, S)
    BY <1>1, <1>3, SumOfSums
  <1>7. SumFunctionOnSet(bound, S) = SumFunctionOnSet(Claimed, S) + SumFunctionOnSet(Extra, S)
    BY <1>1, <1>3, <1>4, SumOfSums
  <1>8. /\ SumFunctionOnSet(Claimed, S) \in Int /\ SumFunctionOnSet(hold, S) \in Int
        /\ SumFunctionOnSet(booked, S) \in Int /\ SumFunctionOnSet(Extra, S) \in Int
    BY <1>1, <1>4, SumIsInt
  <1>9. SumFunctionOnSet(Claimed, S) <= Opening[a]  BY DEF CashInv, ClaimsCovered, Claims, S
  <1>10. /\ Reserved(a) = SumFunctionOnSet(hold, S) /\ Fees(a) = SumFunctionOnSet(Extra, S)
         /\ Balance(a) = Opening[a] - (SumFunctionOnSet(booked, S) + ByHand(a))
    BY DEF Reserved, Fees, Balance, Booked, S
  <1> QED BY <1>1, <1>5, <1>6, <1>7, <1>8, <1>9, <1>10

\* Whatever payouts are initiated, approved, dispatched, failed or repeated, an account is
\* promised beyond its balance by fees and by loans disbursed by hand alone, where no watchdog
\* is armed, the catch block only runs when the POST really failed, and the chart has the
\* accounts of a payout.  Without the premises a payout leaves after its earmark is gone, or
\* twice: once on the account and once on its earmark.
THEOREM PromisesBounded ==
  ASSUME Qstash = FALSE, PostFaults \cap Faults = {}, "missing" \notin Charts
  PROVE  Spec => []OnlyFeesAndTellers
  <1>1. TypeOK /\ TypeOK' /\ CashInv /\ [Next]_vars => CashInv'  BY CashStep
  <1>2. TypeOK /\ CashInv => OnlyFeesAndTellers  BY ClaimsBound DEF OnlyFeesAndTellers
  <1> QED BY <1>1, <1>2, CashAtFirst, TypeCorrect, PTL DEF Spec
=============================================================================
