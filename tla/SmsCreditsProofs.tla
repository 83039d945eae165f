-------------------------- MODULE SmsCreditsProofs --------------------------
(***************************************************************************)
(* What is proved of SmsCredits for every number of messages, calls,       *)
(* retriers and faults: a message is taken by the provider once and        *)
(* charged for as often as it was taken, unless there is a doubt about it. *)
(*                                                                         *)
(* The invariant follows one message.  While its call is live, Standing    *)
(* says what the step of the call implies; while it is retried, Retrying   *)
(* does the same for the retry; Books holds at any time.                   *)
(***************************************************************************)
EXTENDS SmsCredits, TLAPS

AnswerKinds == {None, "accepted", "rejected", "silent", "thrown"}
FailureRow == [resolved : BOOLEAN, tries : Nat]

\* The part of TypeOK that needs no sums, and the rows retries point to.
Shape ==
  /\ log \in [Messages -> Row]
  /\ failures \in [Messages -> Seq(FailureRow)]
  /\ kind \in Workloads
  /\ batch \in [Batches -> [at : BatchSteps, next : Nat]]
  /\ \A b \in Batches : batch[b].next \in DOMAIN Recipients[b]
  /\ answer \in [Messages -> AnswerKinds]
  /\ retry \in [Retriers -> [at : RetrySteps, msg : Messages \cup {None}, row : Nat]]
  /\ \A r \in Retriers :
       retry[r].at # "idle" => Msg(r) \in Messages /\ retry[r].row \in DOMAIN failures[Msg(r)]
  /\ sweep \in [consume : SUBSET Messages, release : SUBSET Messages]
  /\ accepted \in [Messages -> Nat] /\ charged \in [Messages -> Nat]
  /\ doubts \in [Messages -> Nat] /\ raced \subseteq Messages

Working(r, m) == ~RetryAt(r, "idle") /\ Msg(r) = m

\* One invocation at a time works on the message.
Alone(m) ==
  /\ Busy(m) => ~Retried(m)
  /\ \A r, q \in Retriers : Working(r, m) /\ Working(q, m) => r = q

\* Nothing has happened to a message before its call is made.
Fresh(m) ==
  /\ accepted[m] = 0 /\ charged[m] = 0 /\ failures[m] = <<>>
  /\ ~Reserved(m) /\ ~TakenByProvider(m) /\ m \notin raced

Untouched(m) == (\A b \in Batches : m \in To(b) => At(b, "idle")) => Fresh(m)

\* It is earmarked, charged for, or was given back by a sweep that had read the row before the
\* retry stamped it.
Settling(m) ==
  \/ Reserved(m) /\ charged[m] = 0
  \/ ~Reserved(m) /\ charged[m] = Segments[m]
  \/ ~Reserved(m) /\ charged[m] = 0 /\ m \in raced

\* The row does not say yet that it was taken: its invocation is about to write that.
Unrecorded(m) ==
  \/ \E b \in Batches : m \in To(b) /\ At(b, "answered")
  \/ \E r \in Retriers : Working(r, m) /\ RetryAt(r, "accepted")

Books(m) ==
  /\ accepted[m] \in {0, 1}
  /\ accepted[m] = 0 => charged[m] = 0 /\ ~TakenByProvider(m)
  /\ accepted[m] = 1 => Settling(m) /\ (TakenByProvider(m) \/ Unrecorded(m))
  /\ Reserved(m) => log[m].amount = Segments[m]
  /\ Len(failures[m]) <= 1
  /\ failures[m] # <<>> => log[m].status # None
  /\ \A i \in DOMAIN failures[m] :
       accepted[m] = 1 /\ Outstanding(failures[m][i]) =>
         \E r \in Retriers : Working(r, m) /\ RetryAt(r, "accepted")

Taken(m) == accepted[m] = 1 /\ TakenByProvider(m) /\ failures[m] = <<>>
NotTaken(m) == accepted[m] = 0

\* What the step of its call says of the i-th message.
Standing(b, i) ==
  LET m == Recipients[b][i] IN
  /\ Live(b) /\ ~At(b, "ticket") => log[m].status # None
  /\ At(b, "ticket") => Fresh(m)
  /\ At(b, "dispatch") => NotTaken(m) /\ Reserved(m) /\ failures[m] = <<>>
  /\ At(b, "answered") =>
       /\ kind[b] # "send" => batch[b].next = 1
       /\ Reserved(m) /\ charged[m] = 0
       /\ accepted[m] = (IF answer[m] = "accepted" THEN 1 ELSE 0)
       /\ answer[m] = "accepted" /\ i < batch[b].next => TakenByProvider(m)
       /\ i >= batch[b].next \/ answer[m] # "rejected" => failures[m] = <<>>
  /\ At(b, "thrown") =>
       NotTaken(m) /\ Reserved(m) /\ failures[m] = <<>> /\ answer[m] = "thrown"
  /\ At(b, "logging") =>
       /\ NotTaken(m) /\ answer[m] = "thrown"
       /\ i >= batch[b].next => failures[m] = <<>>
  /\ batch[b].at \in {"consume", "release"} =>
       /\ IF answer[m] = "accepted" THEN Taken(m) ELSE NotTaken(m)
       /\ kind[b] = "campaign" /\ answer[m] = "rejected" => failures[m] = <<>>
  /\ At(b, "filing") =>
       /\ kind[b] = "campaign"
       /\ IF answer[m] = "accepted" THEN Taken(m) ELSE NotTaken(m)
       /\ answer[m] = "rejected" /\ i >= batch[b].next => failures[m] = <<>>

\* What the step of a retry says of its message.
Retrying(r) ==
  /\ retry[r].at \in {"chosen", "stamp", "send", "release", "bump"} => NotTaken(Msg(r))
  /\ RetryAt(r, "send") => Reserved(Msg(r)) \/ Msg(r) \in raced
  /\ RetryAt(r, "accepted") => accepted[Msg(r)] = 1
  /\ RetryAt(r, "consume") =>
       accepted[Msg(r)] = 1 /\ TakenByProvider(Msg(r)) /\ ~Outstanding(Failure(r))

Fine(m) ==
  /\ Alone(m) /\ Untouched(m) /\ Books(m)
  /\ \A b \in Batches : \A i \in DOMAIN Recipients[b] : Recipients[b][i] = m => Standing(b, i)
  /\ \A r \in Retriers : Working(r, m) => Retrying(r)

\* What the sweep has read of a message still holds when it settles it, but a row it will
\* release may have been stamped by a retry meanwhile.
Swept(m) ==
  /\ m \in sweep.consume => Reserved(m) /\ ~Busy(m) /\ ~Stamped(m) /\ TakenByProvider(m)
  /\ m \in sweep.release => ~Busy(m) /\ m \notin sweep.consume
  /\ m \in sweep.release \ raced => Reserved(m) /\ ~Stamped(m) /\ ~TakenByProvider(m)

Clear == {m \in Messages : doubts[m] = 0}

IInv == Shape /\ \A m \in Clear : Fine(m) /\ Swept(m)

-----------------------------------------------------------------------------
(* Shape.                                                                  *)

LEMMA Undoubted ==
  ASSUME doubts \in [Messages -> Nat], NEW S, doubts' = Doubted(S)
  PROVE  doubts' \in [Messages -> Nat] /\ Clear' = Clear \ S
  <1>1. \A m \in Messages : doubts'[m] = IF m \in S THEN doubts[m] + 1 ELSE doubts[m]
    BY DEF Doubted
  <1>2. doubts' \in [Messages -> Nat]  BY <1>1 DEF Doubted
  <1> QED BY <1>1, <1>2 DEF Clear

LEMMA RecipientTypes ==
  ASSUME NEW b \in Batches
  PROVE  /\ Recipients[b] \in Seq(Messages) /\ DOMAIN Recipients[b] = 1 .. Len(Recipients[b])
         /\ Len(Recipients[b]) \in Nat \ {0} /\ 1 \in DOMAIN Recipients[b]
         /\ \A i \in DOMAIN Recipients[b] : Recipients[b][i] \in To(b)
         /\ To(b) \subseteq Messages
  <1>1. Recipients[b] \in Seq(Messages) /\ Recipients[b] # <<>>  BY BatchAssumption
  <1>2. DOMAIN Recipients[b] = 1 .. Len(Recipients[b]) /\ Len(Recipients[b]) \in Nat
    BY <1>1
  <1>3. Len(Recipients[b]) # 0  BY <1>1
  <1>4. \A i \in DOMAIN Recipients[b] : Recipients[b][i] \in Messages  BY <1>1
  <1> QED BY <1>1, <1>2, <1>3, <1>4 DEF To

BatchShape ==
  /\ batch \in [Batches -> [at : BatchSteps, next : Nat]]
  /\ \A b \in Batches : batch[b].next \in DOMAIN Recipients[b]

LEMMA GotoShape ==
  ASSUME BatchShape, NEW b \in Batches, NEW step \in BatchSteps, Goto(b, step)
  PROVE  /\ BatchShape' /\ batch'[b] = [at |-> step, next |-> 1]
         /\ \A c \in Batches \ {b} : batch'[c] = batch[c]
  BY RecipientTypes DEF BatchShape, Goto

LEMMA AdvanceShape ==
  ASSUME BatchShape, NEW b \in Batches, NEW step \in BatchSteps, Advance(b, step)
  PROVE  /\ BatchShape'
         /\ Current(b) \in To(b) /\ Current(b) \in Messages
         /\ \/ /\ batch'[b] = [at |-> step, next |-> 1]
               /\ batch[b].next = Len(Recipients[b])
            \/ batch'[b] = [at |-> batch[b].at, next |-> batch[b].next + 1]
         /\ \A c \in Batches \ {b} : batch'[c] = batch[c]
  <1>1. Len(Recipients[b]) \in Nat /\ DOMAIN Recipients[b] = 1 .. Len(Recipients[b])
    BY RecipientTypes
  <1>2. Current(b) \in To(b) /\ Current(b) \in Messages
    BY RecipientTypes DEF Current, BatchShape
  <1>3. batch[b].next \in 1 .. Len(Recipients[b])  BY <1>1 DEF BatchShape
  <1>4. CASE batch[b].next < Len(Recipients[b])
    <2>1. batch' = [batch EXCEPT ![b].next = @ + 1]  BY <1>4 DEF Advance
    <2> QED BY <1>1, <1>2, <1>3, <1>4, <2>1 DEF BatchShape
  <1>5. CASE ~(batch[b].next < Len(Recipients[b]))
    <2>1. Goto(b, step)  BY <1>5 DEF Advance
    <2>2. batch[b].next = Len(Recipients[b])  BY <1>1, <1>3, <1>5
    <2> QED BY <1>2, <2>1, <2>2, GotoShape DEF Goto, BatchShape
  <1> QED BY <1>4, <1>5

\* What a settlement does to one row, whatever the other rows are.
LEMMA SettledRow ==
  ASSUME Shape, NEW ids, NEW o \in {"consume", "release"}, Settled(ids, o)
  PROVE  /\ log' \in [Messages -> Row] /\ charged' \in [Messages -> Nat]
         /\ \A m \in Messages :
              \/ log'[m] = log[m] /\ charged'[m] = charged[m]
              \/ /\ m \in ids /\ Reserved(m) /\ log'[m].billing # "reserved"
                 /\ log'[m].status = log[m].status /\ log'[m].receipt = log[m].receipt
                 /\ charged'[m] =
                      IF o = "consume" THEN charged[m] + log[m].amount ELSE charged[m]
  <1>1. CASE Settle(ids, o)
    <2> DEFINE S == {m \in ids : Reserved(m)}
    <2>1. log' = [m \in Messages |->
                   IF m \in S
                   THEN [log[m] EXCEPT !.billing = IF o = "consume" THEN "consumed" ELSE "released",
                                       !.amount = 0]
                   ELSE log[m]]
      BY <1>1 DEF Settle
    <2>2. charged' = [m \in Messages |->
             IF m \in S /\ o = "consume" THEN charged[m] + log[m].amount ELSE charged[m]]
      BY <1>1 DEF Settle
    <2>3. \A m \in Messages : log[m] \in Row /\ charged[m] \in Nat  BY DEF Shape
    <2>4. \A m \in Messages : log'[m] \in Row  BY <2>1, <2>3 DEF Row, BillingStates
    <2>5. \A m \in Messages : charged'[m] \in Nat  BY <2>2, <2>3 DEF Row
    <2>6. log' \in [Messages -> Row]  BY <2>1, <2>4
    <2>7. charged' \in [Messages -> Nat]  BY <2>2, <2>5
    <2>8. ASSUME NEW m \in Messages, m \in S
          PROVE  /\ log'[m].billing # "reserved"
                 /\ log'[m].status = log[m].status /\ log'[m].receipt = log[m].receipt
      BY <2>1, <2>3, <2>8 DEF Row
    <2> QED BY <2>1, <2>2, <2>6, <2>7, <2>8
  <1>2. CASE UNCHANGED <<account, bundled, log, charged>>  BY <1>2 DEF Shape
  <1> QED BY <1>1, <1>2 DEF Settled

LEMMA NewFailureRow ==
  ASSUME Shape, NEW m \in Messages, failures' = WithFailure(m)
  PROVE  /\ failures' \in [Messages -> Seq(FailureRow)]
         /\ failures'[m] = Append(failures[m], NewFailure)
         /\ \A n \in Messages : DOMAIN failures[n] \subseteq DOMAIN failures'[n]
  <1>1. NewFailure \in FailureRow  BY DEF NewFailure, FailureRow
  <1>2. failures[m] \in Seq(FailureRow) /\ failures \in [Messages -> Seq(FailureRow)]
    BY DEF Shape
  <1>3. Append(failures[m], NewFailure) \in Seq(FailureRow)
        /\ DOMAIN failures[m] \subseteq DOMAIN Append(failures[m], NewFailure)
    BY <1>1, <1>2
  <1>4. failures' = [failures EXCEPT ![m] = Append(failures[m], NewFailure)]
    BY DEF WithFailure
  <1> QED BY <1>2, <1>3, <1>4

\* Retries keep their row when rows are only added or rewritten.
LEMMA Tied ==
  ASSUME Shape, UNCHANGED retry, failures' \in [Messages -> Seq(FailureRow)],
         \A n \in Messages : DOMAIN failures[n] \subseteq DOMAIN failures'[n]
  PROVE  \A r \in Retriers :
           retry'[r].at # "idle" =>
             retry'[r].msg \in Messages /\ retry'[r].row \in DOMAIN failures'[retry'[r].msg]
  BY DEF Shape, Msg

LEMMA VerdictType ==
  ASSUME Shape, NEW m \in Messages
  PROVE  Verdict(m) \in Row
  <1>1. log[m] \in Row  BY DEF Shape
  <1>2. (answer[m] = "accepted") \in BOOLEAN  OBVIOUS
  <1>3. (IF answer[m] = "accepted" THEN "sent" ELSE "failed") \in Statuses  BY DEF Statuses
  <1> QED BY <1>1, <1>2, <1>3 DEF Verdict, Row

LEMMA BatchActsShape ==
  ASSUME Shape, NEW b \in Batches,
         \/ Queue(b) \/ ReserveNotice(b) \/ InsertNotice(b) \/ NoticeUnrecorded(b)
         \/ ProviderAnswers(b) \/ ProviderThrows(b) \/ AnswerLost(b) \/ BatchDies(b)
  PROVE  Shape'
  <1>0. BatchShape  BY DEF Shape, BatchShape
  <1> DEFINE To1(step) == step \in BatchSteps /\ Goto(b, step)
  <1>1. ASSUME NEW step, To1(step) PROVE BatchShape'
    BY <1>0, <1>1, GotoShape
  <1>2. To(b) \subseteq Messages  BY RecipientTypes
  <1>3. Inserted(b) \in [Messages -> Row]
    <2>1. \A m \in Messages : NewRow(m) \in Row /\ log[m] \in Row
      BY AmountAssumption DEF Shape, NewRow, Row, Statuses, BillingStates
    <2> QED BY <2>1 DEF Inserted
  <1>4. BatchShape' /\ log' \in [Messages -> Row]
    <2>1. CASE Queue(b)  BY <2>1, <1>1, <1>3 DEF Queue, BatchSteps
    <2>2. CASE ReserveNotice(b)  BY <2>2, <1>1 DEF ReserveNotice, BatchSteps, Shape
    <2>3. CASE InsertNotice(b)  BY <2>3, <1>1, <1>3 DEF InsertNotice, BatchSteps
    <2>4. CASE NoticeUnrecorded(b)  BY <2>4, <1>1 DEF NoticeUnrecorded, BatchSteps, Shape
    <2>5. CASE ProviderAnswers(b)  BY <2>5, <1>1 DEF ProviderAnswers, BatchSteps, Shape
    <2>6. CASE ProviderThrows(b)  BY <2>6, <1>1 DEF ProviderThrows, BatchSteps, Shape
    <2>7. CASE AnswerLost(b)  BY <2>7, <1>1 DEF AnswerLost, BatchSteps, Shape
    <2>8. CASE BatchDies(b)  BY <2>8, <1>1 DEF BatchDies, BatchSteps, Shape
    <2> QED BY <2>1, <2>2, <2>3, <2>4, <2>5, <2>6, <2>7, <2>8
  <1>5. /\ UNCHANGED <<failures, kind, sweep, retry, charged>>
        /\ doubts' \in [Messages -> Nat] /\ raced' \subseteq Messages
    BY Undoubted DEF Queue, ReserveNotice, InsertNotice, NoticeUnrecorded, ProviderAnswers,
         ProviderThrows, AnswerLost, BatchDies, ghosts, Shape, Sent
  <1>6. answer' \in [Messages -> AnswerKinds]
    <2>1. ASSUME NEW v, \A m \in DOMAIN v : v[m] \in AnswerKinds
          PROVE  Answered(v) \in [Messages -> AnswerKinds]
      BY <2>1 DEF Answered, Shape
    <2>2. CASE ProviderAnswers(b)
      BY <2>1, <2>2 DEF ProviderAnswers, Verdicts, AnswerKinds
    <2>3. CASE ProviderThrows(b) \/ AnswerLost(b)
      BY <2>1, <2>3 DEF ProviderThrows, AnswerLost, AnswerKinds
    <2>4. CASE UNCHANGED answer  BY <2>4 DEF Shape
    <2> QED BY <2>2, <2>3, <2>4 DEF Queue, ReserveNotice, InsertNotice, NoticeUnrecorded,
              BatchDies
  <1>7. accepted' \in [Messages -> Nat]
    BY DEF Queue, ReserveNotice, InsertNotice, NoticeUnrecorded, ProviderAnswers,
         ProviderThrows, AnswerLost, BatchDies, ghosts, Shape
  <1> QED BY <1>4, <1>5, <1>6, <1>7 DEF Shape, BatchShape, Msg

LEMMA RecordActsShape ==
  ASSUME Shape, NEW b \in Batches,
         \/ RecordRow(b) \/ RecordRowFails(b) \/ CatchMarks(b) \/ CatchLogs(b)
         \/ CatchCampaign(b) \/ RecordCampaign(b) \/ FinaliseNotice(b) \/ FinaliseLost(b)
         \/ ConsumeSent(b) \/ ReleaseFailed(b) \/ FileFailure(b)
  PROVE  Shape'
  <1>0. BatchShape  BY DEF Shape, BatchShape
  <1>1. ASSUME NEW step, step \in BatchSteps, Goto(b, step) \/ Advance(b, step)
        PROVE  BatchShape'
    BY <1>0, <1>1, GotoShape, AdvanceShape
  <1>2. To(b) \subseteq Messages /\ Current(b) \in Messages
    BY RecipientTypes, <1>0 DEF Current, BatchShape
  <1>3. \A m \in Messages : log[m] \in Row /\ Verdict(m) \in Row
    BY VerdictType DEF Shape
  <1>4. FailedRows(b) \in [Messages -> Row]
    <2>1. \A m \in Messages : [log[m] EXCEPT !.status = "failed"] \in Row
      BY <1>3 DEF Row, Statuses
    <2> QED BY <2>1, <1>3 DEF FailedRows
  <1>5. BatchShape'
    BY <1>1 DEF RecordRow, RecordRowFails, CatchMarks, CatchLogs, CatchCampaign,
         RecordCampaign, FinaliseNotice, FinaliseLost, ConsumeSent, ReleaseFailed, FileFailure,
         BatchSteps
  <1>6. log' \in [Messages -> Row] /\ charged' \in [Messages -> Nat]
    <2>1. CASE RecordRow(b)  BY <2>1, <1>2, <1>3 DEF RecordRow, ghosts, Shape
    <2>2. CASE RecordRowFails(b)  BY <2>2, <1>2, <1>3 DEF RecordRowFails, Shape
    <2>3. CASE CatchMarks(b) \/ CatchCampaign(b)
      BY <2>3, <1>4 DEF CatchMarks, CatchCampaign, ghosts, Shape
    <2>4. CASE RecordCampaign(b)  BY <2>4, <1>3 DEF RecordCampaign, ghosts, Shape
    <2>5. CASE FinaliseNotice(b)  BY <2>5, <1>3 DEF FinaliseNotice, ghosts, Shape
    <2>6. CASE ConsumeSent(b)  BY <2>6, SettledRow DEF ConsumeSent
    <2>7. CASE ReleaseFailed(b)  BY <2>7, SettledRow DEF ReleaseFailed
    <2>8. CASE UNCHANGED <<log, charged>>  BY <2>8 DEF Shape
    <2> QED BY <2>1, <2>2, <2>3, <2>4, <2>5, <2>6, <2>7, <2>8
            DEF CatchLogs, FinaliseLost, FileFailure, ghosts
  <1>7. /\ failures' \in [Messages -> Seq(FailureRow)]
        /\ \A n \in Messages : DOMAIN failures[n] \subseteq DOMAIN failures'[n]
    <2>1. CASE failures' = WithFailure(Current(b))  BY <2>1, <1>2, NewFailureRow
    <2>2. CASE UNCHANGED failures  BY <2>2 DEF Shape
    <2>3. CASE CatchCampaign(b)
      <3>1. \A m \in Messages : failures[m] \in Seq(FailureRow)  BY DEF Shape
      <3>2. NewFailure \in FailureRow  BY DEF NewFailure, FailureRow
      <3>3. \A m \in Messages : /\ Append(failures[m], NewFailure) \in Seq(FailureRow)
                                /\ DOMAIN failures[m] \subseteq DOMAIN Append(failures[m], NewFailure)
        BY <3>1, <3>2
      <3>4. failures' = [m \in Messages |-> IF m \in To(b) THEN Append(failures[m], NewFailure)
                                            ELSE failures[m]]
        BY <2>3 DEF CatchCampaign
      <3> QED BY <3>1, <3>3, <3>4
    <2> QED BY <2>1, <2>2, <2>3 DEF RecordRow, RecordRowFails, CatchMarks, CatchLogs,
              RecordCampaign, FinaliseNotice, FinaliseLost, ConsumeSent, ReleaseFailed, FileFailure
  <1>8. /\ UNCHANGED <<kind, sweep, retry, accepted>>
        /\ doubts' \in [Messages -> Nat] /\ raced' \subseteq Messages
    BY Undoubted DEF RecordRow, RecordRowFails, CatchMarks, CatchLogs, CatchCampaign,
         RecordCampaign, FinaliseNotice, FinaliseLost, ConsumeSent, ReleaseFailed, FileFailure,
         ghosts, Shape
  <1>9. answer' \in [Messages -> AnswerKinds]
    <2>1. CASE RecordRowFails(b)
      BY <2>1 DEF RecordRowFails, Answered, AnswerKinds, Shape
    <2>2. CASE UNCHANGED answer  BY <2>2 DEF Shape
    <2> QED BY <2>1, <2>2 DEF RecordRow, CatchMarks, CatchLogs, CatchCampaign,
         RecordCampaign, FinaliseNotice, FinaliseLost, ConsumeSent, ReleaseFailed, FileFailure
  <1>10. \A r \in Retriers :
           retry'[r].at # "idle" =>
             retry'[r].msg \in Messages /\ retry'[r].row \in DOMAIN failures'[retry'[r].msg]
    BY <1>7, <1>8, Tied
  <1> QED BY <1>5, <1>6, <1>7, <1>8, <1>9, <1>10 DEF Shape, BatchShape, Msg

RetryShape ==
  /\ retry \in [Retriers -> [at : RetrySteps, msg : Messages \cup {None}, row : Nat]]
  /\ \A r \in Retriers :
       retry[r].at # "idle" => Msg(r) \in Messages /\ retry[r].row \in DOMAIN failures[Msg(r)]

LEMMA RetryMoveShape ==
  ASSUME Shape, NEW r \in Retriers, ~RetryAt(r, "idle"),
         failures' \in [Messages -> Seq(FailureRow)],
         \A n \in Messages : DOMAIN failures[n] \subseteq DOMAIN failures'[n],
         NEW step \in RetrySteps, RetryGoto(r, step) \/ RetryEnds(r)
  PROVE  RetryShape'
  <1>1. Idle \in [at : RetrySteps, msg : Messages \cup {None}, row : Nat]
    BY DEF Idle, RetrySteps
  <1>2. CASE RetryGoto(r, step)
    <2>1. retry \in [Retriers -> [at : RetrySteps, msg : Messages \cup {None}, row : Nat]]
      BY DEF Shape
    <2>2. retry' = [retry EXCEPT ![r] = [retry[r] EXCEPT !.at = step]]
      BY <1>2 DEF RetryGoto
    <2>3. /\ retry' \in [Retriers -> [at : RetrySteps, msg : Messages \cup {None}, row : Nat]]
          /\ retry'[r].msg = retry[r].msg /\ retry'[r].row = retry[r].row
          /\ \A q \in Retriers \ {r} : retry'[q] = retry[q]
      BY <2>1, <2>2
    <2> QED BY <2>3 DEF RetryShape, Shape, Msg, RetryAt
  <1>3. CASE RetryEnds(r)
    <2>1. retry \in [Retriers -> [at : RetrySteps, msg : Messages \cup {None}, row : Nat]]
      BY DEF Shape
    <2>2. retry' = [retry EXCEPT ![r] = Idle]  BY <1>3 DEF RetryEnds
    <2>3. retry' \in [Retriers -> [at : RetrySteps, msg : Messages \cup {None}, row : Nat]]
      BY <1>1, <2>1, <2>2
    <2>4. retry'[r].at = "idle" /\ \A q \in Retriers \ {r} : retry'[q] = retry[q]
      BY <2>1, <2>2 DEF Idle
    <2> QED BY <2>3, <2>4 DEF RetryShape, Shape, Msg
  <1> QED BY <1>2, <1>3

\* The failure row a retry rewrites exists, and stays one.
LEMMA SetFailureShape ==
  ASSUME Shape, NEW r \in Retriers, ~RetryAt(r, "idle"),
         NEW f \in FailureRow, SetFailure(r, f)
  PROVE  /\ failures' \in [Messages -> Seq(FailureRow)]
         /\ \A n \in Messages : DOMAIN failures[n] = DOMAIN failures'[n]
         /\ failures'[Msg(r)] = [failures[Msg(r)] EXCEPT ![retry[r].row] = f]
         /\ \A n \in Messages : n # Msg(r) => failures'[n] = failures[n]
  <1>1. Msg(r) \in Messages /\ retry[r].row \in DOMAIN failures[Msg(r)]
    BY DEF Shape, RetryAt
  <1>2. failures[Msg(r)] \in Seq(FailureRow)  BY <1>1 DEF Shape
  <1>3. failures' = [failures EXCEPT ![Msg(r)] = [failures[Msg(r)] EXCEPT ![retry[r].row] = f]]
    BY DEF SetFailure
  <1>4. [failures[Msg(r)] EXCEPT ![retry[r].row] = f] \in Seq(FailureRow)
    BY <1>1, <1>2
  <1>5. DOMAIN [failures[Msg(r)] EXCEPT ![retry[r].row] = f] = DOMAIN failures[Msg(r)]
    OBVIOUS
  <1>6. failures \in [Messages -> Seq(FailureRow)]  BY DEF Shape
  <1>7. failures'[Msg(r)] = [failures[Msg(r)] EXCEPT ![retry[r].row] = f]
    BY <1>1, <1>3, <1>6
  <1>8. \A n \in Messages : n # Msg(r) => failures'[n] = failures[n]
    BY <1>3, <1>6
  <1>9. failures' \in [Messages -> Seq(FailureRow)]
    BY <1>3, <1>4, <1>6
  <1> QED BY <1>5, <1>7, <1>8, <1>9

LEMMA FailureType ==
  ASSUME Shape, NEW r \in Retriers, ~RetryAt(r, "idle")
  PROVE  /\ Msg(r) \in Messages /\ retry[r].row \in DOMAIN failures[Msg(r)]
         /\ Failure(r) \in FailureRow
         /\ Resolved(Failure(r)) \in FailureRow
         /\ [Failure(r) EXCEPT !.resolved = TRUE] \in FailureRow
         /\ [Failure(r) EXCEPT !.tries = @ + 1] \in FailureRow
  <1>1. Msg(r) \in Messages /\ retry[r].row \in DOMAIN failures[Msg(r)]
    BY DEF Shape, RetryAt
  <1>2. Failure(r) \in FailureRow  BY <1>1 DEF Shape, Failure
  <1>3. ASSUME NEW f \in FailureRow
        PROVE  /\ Resolved(f) \in FailureRow
               /\ [f EXCEPT !.resolved = TRUE] \in FailureRow
               /\ [f EXCEPT !.tries = @ + 1] \in FailureRow
    <2>1. f.tries + 1 \in Nat  BY DEF FailureRow
    <2>2. [f EXCEPT !.resolved = TRUE] \in FailureRow  BY DEF FailureRow
    <2>3. [f EXCEPT !.tries = @ + 1] \in FailureRow  BY <2>1 DEF FailureRow
    <2>4. Resolved(f) \in FailureRow  BY <2>1 DEF FailureRow, Resolved
    <2> QED BY <2>2, <2>3, <2>4
  <1> QED BY <1>1, <1>2, <1>3

\* What a retry writes on the row of its message.
LEMMA StampedRow ==
  ASSUME Shape, NEW r \in Retriers, Stamp(r)
  PROVE  /\ log' \in [Messages -> Row] /\ Msg(r) \in Messages
         /\ log'[Msg(r)].billing = "reserved" /\ log'[Msg(r)].amount = Segments[Msg(r)]
         /\ log'[Msg(r)].status = log[Msg(r)].status
         /\ log'[Msg(r)].receipt = log[Msg(r)].receipt
         /\ \A n \in Messages : n # Msg(r) => log'[n] = log[n]
  <1>1. Msg(r) \in Messages  BY FailureType DEF Stamp, RetryAt
  <1>2. ASSUME NEW m \in Messages,
               log' = [log EXCEPT ![m].billing = "reserved", ![m].amount = Segments[m]]
        PROVE  /\ log' \in [Messages -> Row]
               /\ log'[m].billing = "reserved" /\ log'[m].amount = Segments[m]
               /\ log'[m].status = log[m].status /\ log'[m].receipt = log[m].receipt
               /\ \A n \in Messages : n # m => log'[n] = log[n]
    <2>1. log[m] \in Row /\ log \in [Messages -> Row] /\ Segments[m] \in Nat
      BY AmountAssumption DEF Shape
    <2>2. log' = [log EXCEPT ![m] = [[log[m] EXCEPT !.billing = "reserved"]
                                       EXCEPT !.amount = Segments[m]]]
      BY <1>2, <2>1
    <2>3. [[log[m] EXCEPT !.billing = "reserved"] EXCEPT !.amount = Segments[m]] \in Row
      BY <2>1 DEF Row, BillingStates
    <2>4. log'[m] = [[log[m] EXCEPT !.billing = "reserved"] EXCEPT !.amount = Segments[m]]
      BY <2>1, <2>2
    <2>5. log' \in [Messages -> Row]  BY <2>1, <2>2, <2>3
    <2>6. \A n \in Messages : n # m => log'[n] = log[n]  BY <2>1, <2>2
    <2> QED BY <2>1, <2>4, <2>5, <2>6 DEF Row
  <1> QED BY <1>1, <1>2 DEF Stamp

LEMMA RecordedRow ==
  ASSUME Shape, NEW r \in Retriers, RecordRetry(r)
  PROVE  /\ log' \in [Messages -> Row] /\ Msg(r) \in Messages
         /\ log'[Msg(r)].status = "sent"
         /\ log'[Msg(r)].billing = log[Msg(r)].billing
         /\ log'[Msg(r)].amount = log[Msg(r)].amount
         /\ \A n \in Messages : n # Msg(r) => log'[n] = log[n]
  <1>1. Msg(r) \in Messages  BY FailureType DEF RecordRetry, RetryAt
  <1>2. ASSUME NEW m \in Messages,
               log' = [log EXCEPT ![m].status = "sent", ![m].receipt = TRUE]
        PROVE  /\ log' \in [Messages -> Row]
               /\ log'[m].status = "sent"
               /\ log'[m].billing = log[m].billing /\ log'[m].amount = log[m].amount
               /\ \A n \in Messages : n # m => log'[n] = log[n]
    <2>1. log[m] \in Row /\ log \in [Messages -> Row]  BY DEF Shape
    <2>2. log' = [log EXCEPT ![m] = [[log[m] EXCEPT !.status = "sent"] EXCEPT !.receipt = TRUE]]
      BY <1>2, <2>1
    <2>3. [[log[m] EXCEPT !.status = "sent"] EXCEPT !.receipt = TRUE] \in Row
      BY <2>1 DEF Row, Statuses
    <2>4. log'[m] = [[log[m] EXCEPT !.status = "sent"] EXCEPT !.receipt = TRUE]
      BY <2>1, <2>2
    <2>5. log' \in [Messages -> Row]  BY <2>1, <2>2, <2>3
    <2>6. \A n \in Messages : n # m => log'[n] = log[n]  BY <2>1, <2>2
    <2> QED BY <2>1, <2>4, <2>5, <2>6 DEF Row
  <1> QED BY <1>1, <1>2 DEF RecordRetry

LEMMA RetryActsShape ==
  ASSUME Shape, NEW r \in Retriers, RetryProceeds(r) \/ RetryFails(r)
  PROVE  Shape'
  <1>1. ~RetryAt(r, "idle")
    BY DEF RetryProceeds, RetryFails, Suppress, Rereserve, RefuseRetry, Stamp, RetryAccepted,
         RetryRejected, RecordRetry, ConsumeRetry, ReleaseRetry, Bump, RetryAnswerLost,
         RecordRetryFails, RetryDies, RetryAt
  <1> USE DEF RetryProceeds, RetryFails
  <1>2. /\ failures' \in [Messages -> Seq(FailureRow)]
        /\ \A n \in Messages : DOMAIN failures[n] \subseteq DOMAIN failures'[n]
    <2>1. CASE Suppress(r)  BY <1>1, <2>1, SetFailureShape, FailureType DEF Suppress
    <2>2. CASE RecordRetry(r)  BY <1>1, <2>2, SetFailureShape, FailureType DEF RecordRetry
    <2>3. CASE Bump(r)  BY <1>1, <2>3, SetFailureShape, FailureType DEF Bump
    <2>4. CASE UNCHANGED failures  BY <2>4 DEF Shape
    <2> QED BY <2>1, <2>2, <2>3, <2>4 DEF Rereserve, RefuseRetry, Stamp, RetryAccepted,
         RetryRejected, ConsumeRetry, ReleaseRetry, RetryAnswerLost, RecordRetryFails, RetryDies
  <1>3. RetryShape'
    <2>1. ASSUME NEW step \in RetrySteps, RetryGoto(r, step) \/ RetryEnds(r)  PROVE RetryShape'
      BY <1>1, <1>2, <2>1, RetryMoveShape
    <2> QED BY <2>1 DEF Suppress, Rereserve, RefuseRetry, Stamp, RetryAccepted,
         RetryRejected, RecordRetry, ConsumeRetry, ReleaseRetry, Bump, RetryAnswerLost,
         RecordRetryFails, RetryDies, RetrySteps
  <1>4. log' \in [Messages -> Row] /\ charged' \in [Messages -> Nat]
    <2>1. CASE Stamp(r)
      BY <1>1, <2>1, StampedRow DEF Stamp, Shape
    <2>2. CASE RecordRetry(r)
      BY <1>1, <2>2, RecordedRow DEF RecordRetry, Shape, ghosts
    <2>3. CASE ConsumeRetry(r)  BY <2>3, SettledRow DEF ConsumeRetry
    <2>4. CASE ReleaseRetry(r)  BY <2>4, SettledRow DEF ReleaseRetry
    <2>5. CASE UNCHANGED <<log, charged>>  BY <2>5 DEF Shape
    <2> QED BY <2>1, <2>2, <2>3, <2>4, <2>5 DEF Suppress, Rereserve, RefuseRetry, RetryAccepted,
         RetryRejected, Bump, RetryAnswerLost, RecordRetryFails, RetryDies, ghosts
  <1>5. UNCHANGED <<kind, sweep, batch, answer>>
    BY DEF Suppress, Rereserve, RefuseRetry, Stamp, RetryAccepted,
         RetryRejected, RecordRetry, ConsumeRetry, ReleaseRetry, Bump, RetryAnswerLost,
         RecordRetryFails, RetryDies
  <1>6. /\ doubts' \in [Messages -> Nat] /\ raced' \subseteq Messages
        /\ accepted' \in [Messages -> Nat]
    <2>0. Msg(r) \in Messages /\ doubts \in [Messages -> Nat]
      BY <1>1, FailureType DEF Shape
    <2> HIDE DEF RetryProceeds, RetryFails
    <2>1. CASE RetryAccepted(r) \/ RetryAnswerLost(r)
      <3>1. \A m \in Messages : [accepted EXCEPT ![m] = @ + 1] \in [Messages -> Nat]
        BY DEF Shape
      <3>2. accepted' = [accepted EXCEPT ![Msg(r)] = @ + 1] /\ UNCHANGED raced
        BY <2>1 DEF RetryAccepted, RetryAnswerLost
      <3>3. doubts' = doubts \/ doubts' = Doubted({Msg(r)})
        BY <2>1 DEF RetryAccepted, RetryAnswerLost
      <3>4. doubts' \in [Messages -> Nat]  BY <2>0, <3>3, Undoubted
      <3> QED BY <2>0, <3>1, <3>2, <3>4 DEF Shape
    <2>2. CASE RecordRetryFails(r)  BY <2>0, <2>2, Undoubted DEF RecordRetryFails, Shape
    <2>3. CASE RetryDies(r)  BY <2>0, <2>3, Undoubted DEF RetryDies, Shape
    <2>4. CASE Stamp(r)  BY <2>0, <2>4 DEF Stamp, Shape
    <2>5. CASE UNCHANGED <<accepted, doubts, raced>>  BY <2>5 DEF Shape
    <2> QED BY <2>1, <2>2, <2>3, <2>4, <2>5 DEF RetryProceeds, RetryFails, Suppress, Rereserve,
         RefuseRetry, RetryRejected, RecordRetry, ConsumeRetry, ReleaseRetry, Bump, ghosts
  <1> QED BY <1>2, <1>3, <1>4, <1>5, <1>6 DEF Shape, RetryShape

LEMMA ChooseShape ==
  ASSUME Shape, NEW r \in Retriers, NEW m \in Messages, NEW i \in DOMAIN failures[m],
         ChooseFailure(r, m, i)
  PROVE  Shape'
  <1>1. i \in Nat  BY DEF Shape
  <1>2. [at |-> "chosen", msg |-> m, row |-> i]
          \in [at : RetrySteps, msg : Messages \cup {None}, row : Nat]
    BY <1>1 DEF RetrySteps
  <1>3. RetryShape'  BY <1>2 DEF ChooseFailure, RetryShape, Shape, Msg
  <1>4. doubts' \in [Messages -> Nat]  BY Undoubted DEF ChooseFailure, Shape
  <1> QED BY <1>3, <1>4 DEF ChooseFailure, Shape, RetryShape, money, bounds

LEMMA ShapeStep == Shape /\ [Next]_vars => Shape'
  <1> SUFFICES ASSUME Shape, [Next]_vars PROVE Shape'  OBVIOUS
  <1>1. ASSUME NEW b \in Batches,
               Queue(b) \/ ReserveNotice(b) \/ BatchProceeds(b) \/ BatchFails(b)
        PROVE  Shape'
    BY <1>1, BatchActsShape, RecordActsShape DEF BatchProceeds, BatchFails
  <1>2. CASE SweepProceeds \/ SweepDies
    <2>1. log' \in [Messages -> Row] /\ charged' \in [Messages -> Nat]
      <3>1. CASE SweepConsume  BY <3>1, SettledRow DEF SweepConsume
      <3>2. CASE SweepRelease  BY <3>2, SettledRow DEF SweepRelease
      <3>3. CASE SweepSelect \/ SweepDies
        BY <3>3 DEF SweepSelect, SweepDies, ghosts, Shape
      <3> QED BY <1>2, <3>1, <3>2, <3>3 DEF SweepProceeds
    <2>2. sweep' \in [consume : SUBSET Messages, release : SUBSET Messages]
      <3>1. CASE SweepSelect
        <4>1. PICK S \in SUBSET {m \in Messages : Stale(m)} :
                sweep' = [consume |-> {m \in S : TakenByProvider(m)},
                          release |-> {m \in S : ~TakenByProvider(m)}]
          BY <3>1 DEF SweepSelect
        <4>2. /\ {m \in S : TakenByProvider(m)} \in SUBSET Messages
              /\ {m \in S : ~TakenByProvider(m)} \in SUBSET Messages
          OBVIOUS
        <4> QED BY <4>1, <4>2
      <3>2. CASE SweepConsume
        <4>1. sweep' = [sweep EXCEPT !.consume = {}]  BY <3>2 DEF SweepConsume
        <4> QED BY <4>1 DEF Shape
      <3>3. CASE sweep' = Nothing  BY <3>3 DEF Nothing
      <3> QED BY <1>2, <3>1, <3>2, <3>3 DEF SweepProceeds, SweepRelease, SweepDies
    <2>3. UNCHANGED <<failures, kind, batch, answer, retry, accepted, doubts, raced>>
      BY <1>2
      DEF SweepProceeds, SweepSelect, SweepConsume, SweepRelease, SweepDies, ghosts
    <2> QED BY <2>1, <2>2, <2>3 DEF Shape, Msg
  <1>3. CASE TopUp \/ ResetAllowance
    BY <1>3 DEF TopUp, ResetAllowance, Shape, Msg, ghosts
  <1>4. CASE UNCHANGED vars  BY <1>4 DEF vars, money, bounds, ghosts, Shape, Msg
  <1> QED BY <1>1, <1>2, <1>3, <1>4, RetryActsShape, ChooseShape DEF Next
-----------------------------------------------------------------------------
(* One message.                                                            *)

\* A message is in one call, at one place.
LEMMA OneCall ==
  ASSUME NEW b \in Batches, NEW i \in DOMAIN Recipients[b]
  PROVE  /\ Recipients[b][i] \in To(b)
         /\ \A c \in Batches : Recipients[b][i] \in To(c) => c = b
         /\ \A c \in Batches : \A j \in DOMAIN Recipients[c] :
              Recipients[c][j] = Recipients[b][i] => c = b /\ j = i
  <1>1. \A c \in Batches : \A j \in DOMAIN Recipients[c] : Recipients[c][j] \in To(c)
    BY RecipientTypes
  <1>2. \A c \in Batches : Recipients[b][i] \in To(c) => c = b
    BY <1>1, BatchAssumption
  <1> QED BY <1>1, <1>2, BatchAssumption

\* Nothing moved that the message depends on.
LEMMA Unmoved ==
  ASSUME NEW m \in Messages, Fine(m), UNCHANGED kind, m \in raced' <=> m \in raced,
         log'[m] = log[m], failures'[m] = failures[m], answer'[m] = answer[m],
         accepted'[m] = accepted[m], charged'[m] = charged[m],
         \A b \in Batches : m \in To(b) => batch'[b] = batch[b],
         \A r \in Retriers : Working(r, m) \/ Working(r, m)' => retry'[r] = retry[r]
  PROVE  Fine(m)'
  <1> DEFINE Mine(b) == m \in To(b)
  <1>1. \A r \in Retriers :
          /\ Working(r, m)' <=> Working(r, m)
          /\ Working(r, m) => retry'[r] = retry[r] /\ Msg(r) = m /\ Msg(r)' = m
    BY DEF Working, RetryAt, Msg
  <1>2. Retried(m)' <=> Retried(m)  BY <1>1 DEF Retried, Working, RetryAt, Msg
  <1>3. Busy(m)' <=> Busy(m)  BY DEF Busy, Live
  <1>4. Alone(m)'  BY <1>1, <1>2, <1>3 DEF Fine, Alone
  <1>5. Untouched(m)'  BY DEF Fine, Untouched, Fresh, Reserved, TakenByProvider, At
  <1>6. Unrecorded(m)' <=> Unrecorded(m)  BY <1>1 DEF Unrecorded, At, RetryAt
  <1>7. Books(m)'
    BY <1>1, <1>6 DEF Fine, Books, Settling, Reserved, TakenByProvider, RetryAt
  <1>8. ASSUME NEW b \in Batches, NEW i \in DOMAIN Recipients[b], Recipients[b][i] = m
        PROVE  Standing(b, i)'
    <2>1. m \in To(b)  BY <1>8, RecipientTypes
    <2>2. batch'[b] = batch[b] /\ Standing(b, i)  BY <1>8, <2>1 DEF Fine
    <2> QED BY <1>8, <2>2
            DEF Standing, Live, At, Fresh, Taken, NotTaken, Reserved, TakenByProvider
  <1>9. ASSUME NEW r \in Retriers, Working(r, m)'  PROVE Retrying(r)'
    <2>1. Retrying(r) /\ retry'[r] = retry[r] /\ Msg(r) = m /\ Msg(r)' = m
      BY <1>1, <1>9 DEF Fine
    <2> QED BY <2>1 DEF Retrying, RetryAt, NotTaken, Reserved, TakenByProvider, Failure
  <1> QED BY <1>4, <1>5, <1>7, <1>8, <1>9 DEF Fine

\* Its call moved.
LEMMA BatchMoves ==
  ASSUME Shape, NEW b \in Batches, NEW i \in DOMAIN Recipients[b], NEW m \in Messages,
         m = Recipients[b][i], Fine(m), UNCHANGED <<kind, retry>>,
         \A c \in Batches \ {b} : batch'[c] = batch[c],
         batch'[b].at # "idle",
         Live(b) \/ failures[m] = <<>>,
         Books(m)', Standing(b, i)'
  PROVE  Fine(m)'
  <1>1. ~Retried(m)
    <2>1. CASE Live(b)  BY <2>1, OneCall DEF Fine, Alone, Busy
    <2>2. CASE failures[m] = <<>>  BY <2>2 DEF Retried, Shape, Msg
    <2> QED BY <2>1, <2>2
  <1>2. \A r \in Retriers : ~Working(r, m)'
    BY <1>1 DEF Retried, Working, RetryAt, Msg
  <1>3. Alone(m)'  BY <1>2 DEF Alone, Retried, Working, RetryAt, Msg
  <1>4. Untouched(m)'  BY OneCall DEF Untouched, At
  <1>5. \A c \in Batches : \A j \in DOMAIN Recipients[c] : Recipients[c][j] = m => Standing(c, j)'
    BY OneCall
  <1> QED BY <1>2, <1>3, <1>4, <1>5 DEF Fine

\* Its retry moved.
LEMMA RetryMoves ==
  ASSUME Shape, NEW r \in Retriers, NEW m \in Messages, Working(r, m), Fine(m),
         UNCHANGED <<batch, kind>>,
         \A q \in Retriers \ {r} : retry'[q] = retry[q],
         retry'[r].at = "idle" \/ retry'[r].msg = m,
         Books(m)', Working(r, m)' => Retrying(r)'
  PROVE  Fine(m)'
  <1>1. ~Busy(m) /\ \A q \in Retriers : Working(q, m) => q = r
    BY DEF Fine, Alone, Retried, Working, RetryAt, Msg
  <1>2. \A q \in Retriers : Working(q, m)' => q = r
    BY <1>1 DEF Working, RetryAt, Msg
  <1>3. ~Busy(m)' /\ \A b \in Batches : m \in To(b) => ~Live(b) /\ ~Live(b)'
    BY <1>1 DEF Busy, Live
  <1>4. Alone(m)'  BY <1>2, <1>3 DEF Alone
  <1>5. Untouched(m)'
    <2>1. failures[m] # <<>>  BY DEF Shape, Working, RetryAt, Msg
    <2>2. ~(\A b \in Batches : m \in To(b) => At(b, "idle"))
      BY <2>1 DEF Fine, Untouched, Fresh
    <2> QED BY <2>2 DEF Untouched, At
  <1>6. ASSUME NEW b \in Batches, NEW i \in DOMAIN Recipients[b], Recipients[b][i] = m
        PROVE  Standing(b, i)'
    <2>1. ~Live(b)'  BY <1>3, <1>6, OneCall
    <2> QED BY <2>1 DEF Standing, Live, At
  <1> QED BY <1>2, <1>4, <1>5, <1>6 DEF Fine
-----------------------------------------------------------------------------
(* The steps of a call.                                                    *)

\* A message of another call is not touched by them.
LEMMA OtherCall ==
  ASSUME NEW b \in Batches, NEW m \in Messages, m \notin To(b), Fine(m),
         UNCHANGED <<kind, retry, raced>>,
         \A c \in Batches \ {b} : batch'[c] = batch[c],
         log'[m] = log[m], failures'[m] = failures[m], answer'[m] = answer[m],
         accepted'[m] = accepted[m], charged'[m] = charged[m]
  PROVE  Fine(m)'
  <1>1. \A c \in Batches : m \in To(c) => batch'[c] = batch[c]  OBVIOUS
  <1> QED BY <1>1, Unmoved

\* The place of a message in its call.
LEMMA PlaceOf ==
  ASSUME NEW b \in Batches, NEW m \in To(b)
  PROVE  \E i \in DOMAIN Recipients[b] : Recipients[b][i] = m
  BY DEF To

LEMMA InsertedRow ==
  ASSUME NEW b \in Batches, NEW m \in Messages
  PROVE  Inserted(b)[m] = IF m \in To(b) THEN NewRow(m) ELSE log[m]
  BY DEF Inserted

LEMMA QueueFine ==
  ASSUME Shape, NEW b \in Batches, Queue(b), NEW m \in Messages, Fine(m)
  PROVE  Fine(m)'
  <1>1. /\ batch'[b] = [at |-> "dispatch", next |-> 1]
        /\ \A c \in Batches \ {b} : batch'[c] = batch[c]
    BY GotoShape DEF Queue, Shape, BatchShape, BatchSteps
  <1>2. UNCHANGED <<raced, kind, retry, failures, answer, accepted, charged>>
    BY DEF Queue, ghosts
  <1>3. log'[m] = IF m \in To(b) THEN NewRow(m) ELSE log[m]
    BY InsertedRow DEF Queue
  <1>4. CASE m \notin To(b)  BY <1>1, <1>2, <1>3, <1>4, OtherCall
  <1>5. CASE m \in To(b)
    <2>1. PICK i \in DOMAIN Recipients[b] : Recipients[b][i] = m  BY <1>5, PlaceOf
    <2>2. Fresh(m)  BY <2>1, OneCall DEF Fine, Untouched, Queue
    <2>3. log'[m] = NewRow(m)  BY <1>3, <1>5
    <2>4. /\ log'[m].status = "queued" /\ log'[m].billing = "reserved"
          /\ log'[m].amount = Segments[m] /\ log'[m].receipt = FALSE
      BY <2>3 DEF NewRow
    <2>5. Books(m)'
      BY <1>2, <2>2, <2>4 DEF Books, Fresh, Reserved, TakenByProvider, None
    <2>6. Standing(b, i)'
      BY <1>1, <1>2, <2>1, <2>2, <2>4
         DEF Standing, Live, At, NotTaken, Fresh, Reserved, None
    <2> QED BY <1>1, <1>2, <2>1, <2>2, <2>5, <2>6, BatchMoves DEF Fresh
  <1> QED BY <1>4, <1>5

LEMMA ReserveNoticeFine ==
  ASSUME Shape, NEW b \in Batches, ReserveNotice(b), NEW m \in Messages, Fine(m)
  PROVE  Fine(m)'
  <1>1. /\ batch'[b] = [at |-> "ticket", next |-> 1]
        /\ \A c \in Batches \ {b} : batch'[c] = batch[c]
    BY GotoShape DEF ReserveNotice, Shape, BatchShape, BatchSteps
  <1>2. UNCHANGED <<raced, log, kind, retry, failures, answer, accepted, charged>>
    BY DEF ReserveNotice, ghosts
  <1>3. CASE m \notin To(b)  BY <1>1, <1>2, <1>3, OtherCall
  <1>4. CASE m \in To(b)
    <2>1. PICK i \in DOMAIN Recipients[b] : Recipients[b][i] = m  BY <1>4, PlaceOf
    <2>2. Fresh(m)  BY <2>1, OneCall DEF Fine, Untouched, ReserveNotice
    <2>3. Fresh(m)'  BY <1>2, <2>2 DEF Fresh, Reserved, TakenByProvider
    <2>4. Books(m)'  BY <2>3 DEF Books, Fresh
    <2>5. Standing(b, i)'  BY <1>1, <2>1, <2>3 DEF Standing, Live, At
    <2> QED BY <1>1, <1>2, <2>1, <2>2, <2>4, <2>5, BatchMoves DEF Fresh
  <1> QED BY <1>3, <1>4

LEMMA InsertNoticeFine ==
  ASSUME Shape, NEW b \in Batches, InsertNotice(b), NEW m \in Messages, Fine(m)
  PROVE  Fine(m)'
  <1>1. /\ batch'[b] = [at |-> "dispatch", next |-> 1]
        /\ \A c \in Batches \ {b} : batch'[c] = batch[c]
    BY GotoShape DEF InsertNotice, Shape, BatchShape, BatchSteps
  <1>2. UNCHANGED <<raced, kind, retry, failures, answer, accepted, charged>>
    BY DEF InsertNotice, ghosts
  <1>3. log'[m] = IF m \in To(b) THEN NewRow(m) ELSE log[m]
    BY InsertedRow DEF InsertNotice
  <1>4. CASE m \notin To(b)  BY <1>1, <1>2, <1>3, <1>4, OtherCall
  <1>5. CASE m \in To(b)
    <2>1. PICK i \in DOMAIN Recipients[b] : Recipients[b][i] = m  BY <1>5, PlaceOf
    <2>2. Fresh(m)  BY <2>1 DEF Fine, Standing, InsertNotice
    <2>3. log'[m] = NewRow(m)  BY <1>3, <1>5
    <2>4. /\ log'[m].status = "queued" /\ log'[m].billing = "reserved"
          /\ log'[m].amount = Segments[m] /\ log'[m].receipt = FALSE
      BY <2>3 DEF NewRow
    <2>5. Books(m)'
      BY <1>2, <2>2, <2>4 DEF Books, Fresh, Reserved, TakenByProvider, None
    <2>6. Standing(b, i)'
      BY <1>1, <1>2, <2>1, <2>2, <2>4
         DEF Standing, Live, At, NotTaken, Fresh, Reserved, None
    <2> QED BY <1>1, <1>2, <2>1, <2>2, <2>5, <2>6, BatchMoves DEF Fresh
  <1> QED BY <1>4, <1>5

LEMMA AnsweredAt ==
  ASSUME Shape, NEW v, NEW m \in Messages
  PROVE  Answered(v)[m] = IF m \in DOMAIN v THEN v[m] ELSE answer[m]
  BY DEF Answered

LEMMA ProviderAnswersFine ==
  ASSUME Shape, NEW b \in Batches, ProviderAnswers(b), NEW m \in Messages, Fine(m)
  PROVE  Fine(m)'
  <1>1. /\ batch'[b] = [at |-> "answered", next |-> 1]
        /\ \A c \in Batches \ {b} : batch'[c] = batch[c]
    BY GotoShape DEF ProviderAnswers, Shape, BatchShape, BatchSteps
  <1>2. UNCHANGED <<raced, log, kind, retry, failures, charged>>
    BY DEF ProviderAnswers
  <1>3. PICK v \in [To(b) -> Verdicts(b)] :
          /\ answer' = Answered(v)
          /\ accepted' = [n \in Messages |->
               IF n \in To(b) /\ v[n] = "accepted" THEN accepted[n] + 1 ELSE accepted[n]]
    BY DEF ProviderAnswers
  <1>4. CASE m \notin To(b)
    <2>1. answer'[m] = answer[m] /\ accepted'[m] = accepted[m]
      BY <1>3, <1>4, AnsweredAt
    <2> QED BY <1>1, <1>2, <1>4, <2>1, OtherCall
  <1>5. CASE m \in To(b)
    <2>1. PICK i \in DOMAIN Recipients[b] : Recipients[b][i] = m  BY <1>5, PlaceOf
    <2>2. Live(b) /\ ~At(b, "ticket") /\ At(b, "dispatch")  BY DEF ProviderAnswers, Live, At
    <2>3. /\ accepted[m] = 0 /\ Reserved(m) /\ failures[m] = <<>> /\ log[m].status # None
          /\ charged[m] = 0 /\ ~TakenByProvider(m) /\ log[m].amount = Segments[m]
      BY <2>1, <2>2 DEF Fine, Standing, NotTaken, Books
    <2>4. answer'[m] = v[m] /\ accepted'[m] = IF v[m] = "accepted" THEN 1 ELSE 0
      BY <1>3, <1>5, <2>3, AnsweredAt
    <2>5. Unrecorded(m)'  BY <1>1, <1>5 DEF Unrecorded, At
    <2>6. Books(m)'
      BY <1>2, <2>3, <2>4, <2>5 DEF Books, Settling, Reserved, TakenByProvider
    <2>7. ~(i < 1)  BY <2>1, RecipientTypes
    <2>8. Standing(b, i)'
      BY <1>1, <1>2, <2>1, <2>3, <2>4, <2>7 DEF Standing, Live, At, Reserved
    <2> QED BY <1>1, <1>2, <2>1, <2>2, <2>6, <2>8, BatchMoves
  <1> QED BY <1>4, <1>5

LEMMA ProviderThrowsFine ==
  ASSUME Shape, NEW b \in Batches, ProviderThrows(b) \/ AnswerLost(b),
         NEW m \in Messages, m \in Clear', Fine(m)
  PROVE  Fine(m)'
  <1>1. /\ batch'[b] = [at |-> "thrown", next |-> 1]
        /\ \A c \in Batches \ {b} : batch'[c] = batch[c]
    BY GotoShape DEF ProviderThrows, AnswerLost, Shape, BatchShape, BatchSteps
  <1>2. UNCHANGED <<raced, log, kind, retry, failures, charged>>
    BY DEF ProviderThrows, AnswerLost, ghosts
  <1>3. answer'[m] = IF m \in To(b) THEN "thrown" ELSE answer[m]
    BY AnsweredAt DEF ProviderThrows, AnswerLost
  <1>4. accepted'[m] = accepted[m]
    <2>1. CASE ProviderThrows(b)  BY <2>1 DEF ProviderThrows, ghosts
    <2>2. CASE AnswerLost(b)
      <3>1. PICK S \in SUBSET To(b) :
              /\ accepted' = [n \in Messages |-> IF n \in S THEN accepted[n] + 1 ELSE accepted[n]]
              /\ doubts' = Doubted(S)
        BY <2>2 DEF AnswerLost
      <3>2. m \notin S /\ m \in Messages  BY <3>1, Undoubted DEF Shape, Clear
      <3> QED BY <3>1, <3>2
    <2> QED BY <2>1, <2>2
  <1>5. CASE m \notin To(b)  BY <1>1, <1>2, <1>3, <1>4, <1>5, OtherCall
  <1>6. CASE m \in To(b)
    <2>1. PICK i \in DOMAIN Recipients[b] : Recipients[b][i] = m  BY <1>6, PlaceOf
    <2>2. Live(b) /\ ~At(b, "ticket") /\ At(b, "dispatch")
      BY DEF ProviderThrows, AnswerLost, Live, At
    <2>3. /\ accepted[m] = 0 /\ Reserved(m) /\ failures[m] = <<>> /\ log[m].status # None
          /\ charged[m] = 0 /\ ~TakenByProvider(m) /\ log[m].amount = Segments[m]
      BY <2>1, <2>2 DEF Fine, Standing, NotTaken, Books
    <2>4. Books(m)'
      BY <1>2, <1>4, <2>3 DEF Books, Reserved, TakenByProvider
    <2>5. Standing(b, i)'
      BY <1>1, <1>2, <1>3, <1>4, <1>6, <2>1, <2>3 DEF Standing, Live, At, Reserved, NotTaken
    <2> QED BY <1>1, <1>2, <2>1, <2>2, <2>4, <2>5, BatchMoves
  <1> QED BY <1>5, <1>6
\* What the verdict of the provider makes of a row.
LEMMA VerdictRow ==
  ASSUME Shape, NEW m \in Messages, log[m].status # None, log'[m] = Verdict(m)
  PROVE  /\ log'[m].status # None
         /\ log'[m].billing = log[m].billing /\ log'[m].amount = log[m].amount
         /\ answer[m] = "accepted" => TakenByProvider(m)'
         /\ answer[m] # "accepted" => ~TakenByProvider(m)'
  <1>1. log[m] \in Row  BY DEF Shape
  <1>2. log'[m] = [[log[m] EXCEPT !.status = IF answer[m] = "accepted" THEN "sent" ELSE "failed"]
                     EXCEPT !.receipt = answer[m] = "accepted"]
    BY DEF Verdict
  <1>3. /\ log'[m].status = IF answer[m] = "accepted" THEN "sent" ELSE "failed"
        /\ log'[m].receipt = (answer[m] = "accepted")
        /\ log'[m].billing = log[m].billing /\ log'[m].amount = log[m].amount
    BY <1>1, <1>2 DEF Row
  <1>4. log'[m].status \in {"sent", "failed"}  BY <1>3
  <1>5. log'[m].status # None  BY <1>4 DEF None
  <1>6. answer[m] = "accepted" => TakenByProvider(m)'  BY <1>3 DEF TakenByProvider
  <1>7. ASSUME answer[m] # "accepted"  PROVE ~TakenByProvider(m)'
    <2>1. log'[m].status = "failed"  BY <1>3, <1>7
    <2>2. ~log'[m].receipt  BY <1>3, <1>7
    <2> QED BY <2>1, <2>2 DEF TakenByProvider
  <1> QED BY <1>3, <1>5, <1>6, <1>7

\* The row of a live call that waits for its answer to be written.
LEMMA AnsweredRow ==
  ASSUME NEW b \in Batches, NEW i \in DOMAIN Recipients[b], NEW m \in Messages,
         Recipients[b][i] = m, Fine(m), At(b, "answered")
  PROVE  /\ Live(b) /\ log[m].status # None /\ Reserved(m) /\ charged[m] = 0
         /\ kind[b] # "send" => batch[b].next = 1
         /\ accepted[m] = (IF answer[m] = "accepted" THEN 1 ELSE 0)
         /\ answer[m] = "accepted" /\ i < batch[b].next => TakenByProvider(m)
         /\ i >= batch[b].next \/ answer[m] # "rejected" => failures[m] = <<>>
         /\ log[m].amount = Segments[m] /\ Len(failures[m]) <= 1
         /\ accepted[m] = 0 => ~TakenByProvider(m)
  <1>1. Live(b) /\ ~At(b, "ticket")  BY DEF Live, At
  <1>2. Standing(b, i) /\ Books(m)  BY DEF Fine
  <1>3. log[m].status # None /\ Reserved(m)  BY <1>1, <1>2 DEF Standing
  <1> QED BY <1>1, <1>2, <1>3 DEF Standing, Books

LEMMA OneFailure ==
  ASSUME Shape, NEW m \in Messages, failures[m] = <<>>, failures' = WithFailure(m)
  PROVE  failures'[m] # <<>> /\ Len(failures'[m]) = 1
  <1>1. failures'[m] = Append(<<>>, NewFailure)  BY NewFailureRow
  <1> QED BY <1>1

LEMMA RecordRowFine ==
  ASSUME Shape, NEW b \in Batches, RecordRow(b), NEW m \in Messages, Fine(m)
  PROVE  Fine(m)'
  <1> DEFINE n == Current(b)
  <1>1. BatchShape /\ At(b, "answered") /\ kind[b] = "send" /\ Advance(b, "consume")
    BY DEF RecordRow, Shape, BatchShape
  <1>2. /\ n \in To(b) /\ n \in Messages
        /\ \/ /\ batch'[b] = [at |-> "consume", next |-> 1]
              /\ batch[b].next = Len(Recipients[b])
           \/ batch'[b] = [at |-> "answered", next |-> batch[b].next + 1]
        /\ \A c \in Batches \ {b} : batch'[c] = batch[c]
    BY <1>1, AdvanceShape DEF BatchSteps, At
  <1>3. UNCHANGED <<raced, kind, answer, retry, accepted, charged>>  BY DEF RecordRow, ghosts
  <1>4. /\ log' = IF answer[n] = "silent" THEN log ELSE [log EXCEPT ![n] = Verdict(n)]
        /\ failures' = IF answer[n] = "rejected" THEN WithFailure(n) ELSE failures
    BY DEF RecordRow
  <1>5. m # n => log'[m] = log[m] /\ failures'[m] = failures[m]
    BY <1>4 DEF WithFailure, Shape
  <1>6. CASE m \notin To(b)  BY <1>2, <1>3, <1>5, <1>6, OtherCall
  <1>7. CASE m \in To(b)
    <2>1. PICK i \in DOMAIN Recipients[b] : Recipients[b][i] = m  BY <1>7, PlaceOf
    <2>2. /\ i \in 1 .. Len(Recipients[b]) /\ batch[b].next \in 1 .. Len(Recipients[b])
          /\ Len(Recipients[b]) \in Nat
      BY <1>1, RecipientTypes DEF BatchShape
    <2>3. m = n <=> i = batch[b].next
      BY <1>1, <2>1, OneCall DEF Current, BatchShape
    <2>4. /\ Live(b) /\ log[m].status # None /\ Reserved(m) /\ charged[m] = 0
          /\ accepted[m] = (IF answer[m] = "accepted" THEN 1 ELSE 0)
          /\ answer[m] = "accepted" /\ i < batch[b].next => TakenByProvider(m)
          /\ i >= batch[b].next \/ answer[m] # "rejected" => failures[m] = <<>>
          /\ log[m].amount = Segments[m] /\ Len(failures[m]) <= 1
          /\ accepted[m] = 0 => ~TakenByProvider(m)
      BY <1>1, <2>1, AnsweredRow
    <2>5. /\ Reserved(m)' /\ log'[m].amount = Segments[m] /\ log'[m].status # None
          /\ accepted[m] = 0 => ~TakenByProvider(m)'
          /\ answer[m] = "accepted" /\ i <= batch[b].next => TakenByProvider(m)'
      <3>1. CASE m = n /\ answer[n] # "silent"
        <4>1. log'[m] = Verdict(m)  BY <1>4, <3>1 DEF Shape
        <4> QED BY <2>4, <4>1, VerdictRow DEF Reserved
      <3>2. CASE m # n \/ answer[n] = "silent"
        <4>1. log'[m] = log[m]  BY <1>4, <1>5, <3>2
        <4>2. answer[m] = "accepted" => i # batch[b].next  BY <2>3, <3>2
        <4> QED BY <2>2, <2>4, <4>1, <4>2 DEF Reserved, TakenByProvider
      <3> QED BY <3>1, <3>2
    <2>6. /\ Len(failures'[m]) <= 1
          /\ i > batch[b].next \/ answer[m] # "rejected" => failures'[m] = <<>>
      <3>1. CASE m = n /\ answer[n] = "rejected"
        <4>1. failures[m] = <<>> /\ failures' = WithFailure(m)
          BY <1>4, <2>2, <2>3, <2>4, <3>1
        <4>2. Len(failures'[m]) = 1  BY <4>1, OneFailure
        <4>3. i = batch[b].next /\ answer[m] = "rejected"  BY <2>3, <3>1
        <4> QED BY <2>2, <4>2, <4>3
      <3>2. CASE m # n \/ answer[n] # "rejected"
        <4>1. failures'[m] = failures[m]  BY <1>4, <1>5, <3>2
        <4> QED BY <2>2, <2>4, <4>1
      <3> QED BY <3>1, <3>2
    <2>7. TakenByProvider(m)' \/ accepted[m] = 0 \/ Unrecorded(m)'
      <3>1. CASE batch'[b].at = "answered"  BY <1>7, <3>1 DEF Unrecorded, At
      <3>2. CASE batch[b].next = Len(Recipients[b])
        BY <2>2, <2>4, <2>5, <3>2
      <3> QED BY <1>2, <3>1, <3>2
    <2>8. Books(m)'
      BY <1>3, <2>4, <2>5, <2>6, <2>7 DEF Books, Settling, Reserved
    <2>9. Standing(b, i)'
      <3>1. CASE batch'[b] = [at |-> "consume", next |-> 1] /\ batch[b].next = Len(Recipients[b])
        BY <1>1, <1>3, <2>1, <2>2, <2>4, <2>5, <2>6, <3>1
           DEF Standing, Live, At, Taken, NotTaken
      <3>2. CASE batch'[b] = [at |-> "answered", next |-> batch[b].next + 1]
        BY <1>1, <1>3, <2>1, <2>2, <2>4, <2>5, <2>6, <3>2
           DEF Standing, Live, At
      <3> QED BY <1>2, <3>1, <3>2
    <2>10. batch'[b].at # "idle"  BY <1>2
    <2> QED BY <1>2, <1>3, <2>1, <2>4, <2>8, <2>9, <2>10, BatchMoves
  <1> QED BY <1>6, <1>7

\* The row of a call that was refused.
LEMMA ThrownRow ==
  ASSUME NEW b \in Batches, NEW i \in DOMAIN Recipients[b], NEW m \in Messages,
         Recipients[b][i] = m, Fine(m), At(b, "thrown")
  PROVE  /\ Live(b) /\ log[m].status # None /\ Reserved(m) /\ charged[m] = 0
         /\ accepted[m] = 0 /\ answer[m] = "thrown" /\ failures[m] = <<>>
         /\ log[m].amount = Segments[m] /\ ~TakenByProvider(m)
  <1>1. Live(b) /\ ~At(b, "ticket")  BY DEF Live, At
  <1>2. Standing(b, i) /\ Books(m)  BY DEF Fine
  <1>3. log[m].status # None /\ Reserved(m) /\ NotTaken(m) BY <1>1, <1>2 DEF Standing
  <1> QED BY <1>1, <1>2, <1>3 DEF Standing, Books, NotTaken

LEMMA FailedRow ==
  ASSUME Shape, NEW b \in Batches, NEW m \in Messages, log' = FailedRows(b)
  PROVE  /\ m \notin To(b) => log'[m] = log[m]
         /\ m \in To(b) =>
              /\ log'[m].status = "failed" /\ log'[m].billing = log[m].billing
              /\ log'[m].amount = log[m].amount /\ log'[m].receipt = log[m].receipt
  <1>1. log[m] \in Row  BY DEF Shape
  <1>2. log'[m] = IF m \in To(b) THEN [log[m] EXCEPT !.status = "failed"] ELSE log[m]
    BY DEF FailedRows
  <1> QED BY <1>1, <1>2 DEF Row

LEMMA CatchMarksFine ==
  ASSUME Shape, NEW b \in Batches, CatchMarks(b), NEW m \in Messages, Fine(m)
  PROVE  Fine(m)'
  <1>1. /\ batch'[b] = [at |-> "logging", next |-> 1]
        /\ \A c \in Batches \ {b} : batch'[c] = batch[c]
    BY GotoShape DEF CatchMarks, Shape, BatchShape, BatchSteps
  <1>2. UNCHANGED <<raced, kind, retry, failures, answer, accepted, charged>> /\ log' = FailedRows(b)
    BY DEF CatchMarks, ghosts
  <1>3. CASE m \notin To(b)  BY <1>1, <1>2, <1>3, OtherCall, FailedRow
  <1>4. CASE m \in To(b)
    <2>1. PICK i \in DOMAIN Recipients[b] : Recipients[b][i] = m  BY <1>4, PlaceOf
    <2>2. /\ Live(b) /\ Reserved(m) /\ charged[m] = 0
          /\ accepted[m] = 0 /\ answer[m] = "thrown" /\ failures[m] = <<>>
          /\ log[m].amount = Segments[m] /\ ~TakenByProvider(m)
      BY <2>1, ThrownRow DEF CatchMarks
    <2>3. /\ log'[m].status = "failed" /\ log'[m].billing = log[m].billing
          /\ log'[m].amount = log[m].amount /\ log'[m].receipt = log[m].receipt
      BY <1>2, <1>4, FailedRow
    <2>4. Books(m)'  BY <1>2, <2>2, <2>3 DEF Books, Reserved, TakenByProvider
    <2>5. Standing(b, i)'
      BY <1>1, <1>2, <2>1, <2>2, <2>3 DEF Standing, Live, At, NotTaken, None
    <2> QED BY <1>1, <1>2, <2>1, <2>2, <2>4, <2>5, BatchMoves
  <1> QED BY <1>3, <1>4

LEMMA CatchLogsFine ==
  ASSUME Shape, NEW b \in Batches, CatchLogs(b), NEW m \in Messages, Fine(m)
  PROVE  Fine(m)'
  <1> DEFINE n == Current(b)
  <1>1. BatchShape /\ At(b, "logging") /\ Advance(b, "consume") /\ failures' = WithFailure(n)
    BY DEF CatchLogs, Shape, BatchShape
  <1>2. /\ n \in To(b) /\ n \in Messages
        /\ \/ batch'[b] = [at |-> "consume", next |-> 1]
           \/ batch'[b] = [at |-> "logging", next |-> batch[b].next + 1]
        /\ \A c \in Batches \ {b} : batch'[c] = batch[c]
    BY <1>1, AdvanceShape DEF BatchSteps, At
  <1>3. UNCHANGED <<raced, log, kind, answer, retry, accepted, charged>>  BY DEF CatchLogs, ghosts
  <1>4. m # n => failures'[m] = failures[m]  BY <1>1 DEF WithFailure, Shape
  <1>5. CASE m \notin To(b)  BY <1>2, <1>3, <1>4, <1>5, OtherCall
  <1>6. CASE m \in To(b)
    <2>1. PICK i \in DOMAIN Recipients[b] : Recipients[b][i] = m  BY <1>6, PlaceOf
    <2>2. i \in Nat /\ batch[b].next \in Nat
      BY <1>1, <2>1, RecipientTypes DEF BatchShape
    <2>3. m = n <=> i = batch[b].next
      BY <1>1, <2>1, OneCall DEF Current, BatchShape
    <2>4. Live(b) /\ ~At(b, "ticket")  BY <1>1 DEF Live, At
    <2>5. /\ log[m].status # None /\ accepted[m] = 0 /\ answer[m] = "thrown"
          /\ i >= batch[b].next => failures[m] = <<>>
      BY <1>1, <2>1, <2>4 DEF Fine, Standing, NotTaken
    <2>6. Books(m)  BY DEF Fine
    <2>7. Len(failures'[m]) <= 1 /\ (i > batch[b].next => failures'[m] = <<>>)
      <3>1. CASE m = n
        <4>1. failures' = WithFailure(m) /\ i = batch[b].next  BY <1>1, <2>3, <3>1
        <4>2. failures[m] = <<>>  BY <2>2, <2>5, <4>1
        <4>3. Len(failures'[m]) = 1  BY <4>1, <4>2, OneFailure
        <4> QED BY <2>2, <4>1, <4>3
      <3>2. CASE m # n  BY <1>4, <2>2, <2>5, <2>6, <3>2 DEF Books
      <3> QED BY <3>1, <3>2
    <2>8. Books(m)'
      BY <1>3, <2>5, <2>6, <2>7 DEF Books, Reserved, TakenByProvider
    <2>9. Standing(b, i)'
      <3>1. CASE batch'[b] = [at |-> "consume", next |-> 1]
        BY <1>3, <2>1, <2>5, <3>1 DEF Standing, Live, At, NotTaken
      <3>2. CASE batch'[b] = [at |-> "logging", next |-> batch[b].next + 1]
        BY <1>3, <2>1, <2>2, <2>5, <2>7, <3>2 DEF Standing, Live, At, NotTaken
      <3> QED BY <1>2, <3>1, <3>2
    <2>10. batch'[b].at # "idle"  BY <1>2
    <2> QED BY <1>2, <1>3, <2>1, <2>4, <2>8, <2>9, <2>10, BatchMoves
  <1> QED BY <1>5, <1>6
LEMMA CatchCampaignFine ==
  ASSUME Shape, NEW b \in Batches, CatchCampaign(b), NEW m \in Messages, Fine(m)
  PROVE  Fine(m)'
  <1>1. /\ batch'[b] = [at |-> "consume", next |-> 1]
        /\ \A c \in Batches \ {b} : batch'[c] = batch[c]
    BY GotoShape DEF CatchCampaign, Shape, BatchShape, BatchSteps
  <1>2. UNCHANGED <<raced, kind, retry, answer, accepted, charged>> /\ log' = FailedRows(b)
    BY DEF CatchCampaign, ghosts
  <1>3. failures'[m] = IF m \in To(b) THEN Append(failures[m], NewFailure) ELSE failures[m]
    BY DEF CatchCampaign
  <1>4. CASE m \notin To(b)  BY <1>1, <1>2, <1>3, <1>4, OtherCall, FailedRow
  <1>5. CASE m \in To(b)
    <2>1. PICK i \in DOMAIN Recipients[b] : Recipients[b][i] = m  BY <1>5, PlaceOf
    <2>2. /\ Live(b) /\ Reserved(m) /\ charged[m] = 0
          /\ accepted[m] = 0 /\ answer[m] = "thrown" /\ failures[m] = <<>>
          /\ log[m].amount = Segments[m] /\ ~TakenByProvider(m)
      BY <2>1, ThrownRow DEF CatchCampaign
    <2>3. /\ log'[m].status = "failed" /\ log'[m].billing = log[m].billing
          /\ log'[m].amount = log[m].amount /\ log'[m].receipt = log[m].receipt
      BY <1>2, <1>5, FailedRow
    <2>4. Len(failures'[m]) = 1  BY <1>3, <1>5, <2>2
    <2>5. Books(m)'  BY <1>2, <2>2, <2>3, <2>4 DEF Books, Reserved, TakenByProvider, None
    <2>6. Standing(b, i)'
      BY <1>1, <1>2, <2>1, <2>2, <2>3 DEF Standing, Live, At, NotTaken, None
    <2> QED BY <1>1, <1>2, <2>1, <2>2, <2>5, <2>6, BatchMoves
  <1> QED BY <1>4, <1>5

LEMMA RecordCampaignFine ==
  ASSUME Shape, NEW b \in Batches, RecordCampaign(b), NEW m \in Messages, Fine(m)
  PROVE  Fine(m)'
  <1>1. /\ batch'[b] = [at |-> "consume", next |-> 1]
        /\ \A c \in Batches \ {b} : batch'[c] = batch[c]
    BY GotoShape DEF RecordCampaign, Shape, BatchShape, BatchSteps
  <1>2. UNCHANGED <<raced, kind, retry, failures, answer, accepted, charged>>
    BY DEF RecordCampaign, ghosts
  <1>3. log'[m] = IF m \in To(b) /\ answer[m] # "silent" THEN Verdict(m) ELSE log[m]
    BY DEF RecordCampaign
  <1>4. CASE m \notin To(b)  BY <1>1, <1>2, <1>3, <1>4, OtherCall
  <1>5. CASE m \in To(b)
    <2>1. PICK i \in DOMAIN Recipients[b] : Recipients[b][i] = m  BY <1>5, PlaceOf
    <2>2. At(b, "answered") /\ kind[b] = "campaign"  BY DEF RecordCampaign
    <2>3. /\ Live(b) /\ log[m].status # None /\ Reserved(m) /\ charged[m] = 0
          /\ batch[b].next = 1
          /\ accepted[m] = (IF answer[m] = "accepted" THEN 1 ELSE 0)
          /\ i >= batch[b].next \/ answer[m] # "rejected" => failures[m] = <<>>
          /\ log[m].amount = Segments[m]
          /\ accepted[m] = 0 => ~TakenByProvider(m)
      BY <2>1, <2>2, AnsweredRow
    <2>4. failures[m] = <<>>  BY <2>1, <2>3, RecipientTypes
    <2>5. /\ Reserved(m)' /\ log'[m].amount = Segments[m] /\ log'[m].status # None
          /\ IF answer[m] = "accepted" THEN TakenByProvider(m)' ELSE ~TakenByProvider(m)'
      <3>1. CASE answer[m] # "silent"
        <4>1. log'[m] = Verdict(m)  BY <1>3, <1>5, <3>1
        <4> QED BY <2>3, <4>1, VerdictRow DEF Reserved
      <3>2. CASE answer[m] = "silent"
        <4>1. log'[m] = log[m]  BY <1>3, <3>2
        <4> QED BY <2>3, <3>2, <4>1 DEF Reserved, TakenByProvider
      <3> QED BY <3>1, <3>2
    <2>6. Books(m)'  BY <1>2, <2>3, <2>4, <2>5 DEF Books, Settling, Reserved
    <2>7. Standing(b, i)'
      BY <1>1, <1>2, <2>1, <2>3, <2>4, <2>5 DEF Standing, Live, At, Taken, NotTaken
    <2> QED BY <1>1, <1>2, <2>1, <2>3, <2>6, <2>7, BatchMoves
  <1> QED BY <1>4, <1>5

LEMMA FinaliseNoticeFine ==
  ASSUME Shape, NEW b \in Batches, FinaliseNotice(b), NEW m \in Messages, Fine(m)
  PROVE  Fine(m)'
  <1>1. /\ batch'[b] = [at |-> "consume", next |-> 1]
        /\ \A c \in Batches \ {b} : batch'[c] = batch[c]
    BY GotoShape DEF FinaliseNotice, Shape, BatchShape, BatchSteps
  <1>2. UNCHANGED <<raced, kind, retry, failures, answer, accepted, charged>>
    BY DEF FinaliseNotice, ghosts
  <1>3. log'[m] = IF m \in To(b) THEN Verdict(m) ELSE log[m]
    BY DEF FinaliseNotice
  <1>4. CASE m \notin To(b)  BY <1>1, <1>2, <1>3, <1>4, OtherCall
  <1>5. CASE m \in To(b)
    <2>1. PICK i \in DOMAIN Recipients[b] : Recipients[b][i] = m  BY <1>5, PlaceOf
    <2>2. (At(b, "answered") \/ At(b, "thrown")) /\ kind[b] = "notify"
      BY DEF FinaliseNotice, At
    <2>3. /\ Live(b) /\ log[m].status # None /\ Reserved(m) /\ charged[m] = 0
          /\ failures[m] = <<>>
          /\ accepted[m] = (IF answer[m] = "accepted" THEN 1 ELSE 0)
          /\ log[m].amount = Segments[m]
      <3>1. CASE At(b, "answered")
        <4>1. batch[b].next = 1 /\ i >= 1
          BY <2>1, <2>2, <3>1, AnsweredRow, RecipientTypes
        <4> QED BY <2>1, <3>1, <4>1, AnsweredRow
      <3>2. CASE At(b, "thrown")  BY <2>1, <3>2, ThrownRow
      <3> QED BY <2>2, <3>1, <3>2
    <2>4. log'[m] = Verdict(m)  BY <1>3, <1>5
    <2>5. /\ Reserved(m)' /\ log'[m].amount = Segments[m] /\ log'[m].status # None
          /\ IF answer[m] = "accepted" THEN TakenByProvider(m)' ELSE ~TakenByProvider(m)'
      BY <2>3, <2>4, VerdictRow DEF Reserved
    <2>6. Books(m)'  BY <1>2, <2>3, <2>5 DEF Books, Settling, Reserved
    <2>7. Standing(b, i)'
      BY <1>1, <1>2, <2>1, <2>3, <2>5 DEF Standing, Live, At, Taken, NotTaken
    <2> QED BY <1>1, <1>2, <2>1, <2>3, <2>6, <2>7, BatchMoves
  <1> QED BY <1>4, <1>5

\* The row of a call that settles.
LEMMA SettlingRow ==
  ASSUME NEW b \in Batches, NEW i \in DOMAIN Recipients[b], NEW m \in Messages,
         Recipients[b][i] = m, Fine(m), batch[b].at \in {"consume", "release"}
  PROVE  /\ Live(b) /\ log[m].status # None /\ Books(m)
         /\ IF answer[m] = "accepted" THEN Taken(m) ELSE NotTaken(m)
         /\ kind[b] = "campaign" /\ answer[m] = "rejected" => failures[m] = <<>>
  <1>1. Live(b) /\ ~At(b, "ticket")  BY DEF Live, At
  <1>2. Standing(b, i) /\ Books(m)  BY DEF Fine
  <1> QED BY <1>1, <1>2 DEF Standing

\* A settlement leaves the books of a message in order: what was taken is charged, what was
\* not is given back.
LEMMA SettledBooks ==
  ASSUME Shape, NEW m \in Messages, NEW ids, NEW o \in {"consume", "release"},
         Settled(ids, o), Books(m),
         UNCHANGED <<accepted, failures, raced>>,
         m \in ids => IF o = "consume" THEN accepted[m] = 1 ELSE accepted[m] = 0,
         accepted[m] = 1 => TakenByProvider(m),
         accepted[m] = 1 => \A i \in DOMAIN failures[m] : ~Outstanding(failures[m][i])
  PROVE  /\ Books(m)' /\ log'[m].status = log[m].status
         /\ TakenByProvider(m)' <=> TakenByProvider(m)
  <1>1. \/ log'[m] = log[m] /\ charged'[m] = charged[m]
        \/ /\ m \in ids /\ Reserved(m) /\ log'[m].billing # "reserved"
           /\ log'[m].status = log[m].status /\ log'[m].receipt = log[m].receipt
           /\ charged'[m] = IF o = "consume" THEN charged[m] + log[m].amount ELSE charged[m]
    BY SettledRow
  <1>2. log'[m].status = log[m].status /\ log'[m].receipt = log[m].receipt  BY <1>1
  <1>3. TakenByProvider(m)' <=> TakenByProvider(m)  BY <1>2 DEF TakenByProvider
  <1>4. accepted'[m] = accepted[m] /\ failures'[m] = failures[m]  OBVIOUS
  <1>5. CASE log'[m] = log[m] /\ charged'[m] = charged[m]
    BY <1>3, <1>4, <1>5 DEF Books, Settling, Reserved
  <1>6. CASE /\ m \in ids /\ Reserved(m) /\ log'[m].billing # "reserved"
             /\ charged'[m] = IF o = "consume" THEN charged[m] + log[m].amount ELSE charged[m]
    <2>1. ~Reserved(m)' /\ log[m].amount = Segments[m] /\ Segments[m] \in Nat
      BY <1>6, AmountAssumption DEF Reserved, Books
    <2>2. CASE o = "consume"
      <3>1. accepted[m] = 1 /\ charged[m] = 0  BY <1>6, <2>2 DEF Books, Settling
      <3>2. charged'[m] = Segments[m]  BY <1>6, <2>1, <2>2, <3>1
      <3> QED BY <1>2, <1>3, <1>4, <2>1, <3>1, <3>2 DEF Books, Settling
    <2>3. CASE o # "consume"
      <3>1. accepted[m] = 0 /\ charged'[m] = charged[m]  BY <1>6, <2>3
      <3> QED BY <1>2, <1>3, <1>4, <2>1, <3>1 DEF Books
    <2> QED BY <2>2, <2>3
  <1> QED BY <1>1, <1>2, <1>3, <1>5, <1>6

LEMMA SettleBatchFine ==
  ASSUME Shape, NEW b \in Batches, ConsumeSent(b) \/ ReleaseFailed(b),
         NEW m \in Messages, Fine(m)
  PROVE  Fine(m)'
  <1> DEFINE ids == IF ConsumeSent(b) THEN Sent(b) ELSE Failed(b)
             o == IF ConsumeSent(b) THEN "consume" ELSE "release"
  <1>1. /\ \/ ConsumeSent(b) /\ batch'[b] = [at |-> "release", next |-> 1]
           \/ /\ ~ConsumeSent(b)
              /\ \/ batch'[b] = [at |-> "filing", next |-> 1] /\ kind[b] = "campaign"
                 \/ batch'[b] = [at |-> "done", next |-> 1]
        /\ \A c \in Batches \ {b} : batch'[c] = batch[c]
    BY GotoShape DEF ConsumeSent, ReleaseFailed, Shape, BatchShape, BatchSteps
  <1>2. UNCHANGED <<raced, kind, retry, failures, answer, accepted>>
    BY DEF ConsumeSent, ReleaseFailed
  <1>3. Settled(ids, o) /\ o \in {"consume", "release"}
    BY DEF ConsumeSent, ReleaseFailed
  <1> HIDE DEF o
  <1>4. CASE m \notin To(b)
    <2>1. m \notin ids  BY <1>4 DEF Sent, Failed
    <2>2. log'[m] = log[m] /\ charged'[m] = charged[m]  BY <1>3, <2>1, SettledRow
    <2> QED BY <1>1, <1>2, <1>4, <2>2, OtherCall
  <1>5. CASE m \in To(b)
    <2>1. PICK i \in DOMAIN Recipients[b] : Recipients[b][i] = m  BY <1>5, PlaceOf
    <2>2. batch[b].at \in {"consume", "release"}  BY DEF ConsumeSent, ReleaseFailed, At
    <2>3. /\ Live(b) /\ log[m].status # None /\ Books(m)
          /\ IF answer[m] = "accepted" THEN Taken(m) ELSE NotTaken(m)
          /\ kind[b] = "campaign" /\ answer[m] = "rejected" => failures[m] = <<>>
      BY <2>1, <2>2, SettlingRow
    <2>4. m \in ids => IF o = "consume" THEN accepted[m] = 1 ELSE accepted[m] = 0
      <3>1. m \in Sent(b) => answer[m] = "accepted"  BY DEF Sent
      <3>2. m \in Failed(b) => answer[m] # "accepted"  BY DEF Failed, GivesBack
      <3> QED BY <2>3, <3>1, <3>2 DEF o, Taken, NotTaken
    <2>5. accepted[m] = 1 => TakenByProvider(m) /\ failures[m] = <<>>
      BY <2>3 DEF Taken, NotTaken
    <2>6. \A j \in DOMAIN failures[m] : accepted[m] = 1 => ~Outstanding(failures[m][j])
      BY <2>5
    <2>7. /\ Books(m)' /\ log'[m].status = log[m].status
          /\ TakenByProvider(m)' <=> TakenByProvider(m)
      BY <1>2, <1>3, <2>3, <2>4, <2>5, <2>6, SettledBooks
    <2>8. Standing(b, i)'
      BY <1>1, <1>2, <2>1, <2>3, <2>7 DEF Standing, Live, At, Taken, NotTaken
    <2>9. batch'[b].at # "idle"  BY <1>1
    <2> QED BY <1>1, <1>2, <2>1, <2>3, <2>7, <2>8, <2>9, BatchMoves
  <1> QED BY <1>4, <1>5
LEMMA FileFailureFine ==
  ASSUME Shape, NEW b \in Batches, FileFailure(b), NEW m \in Messages, Fine(m)
  PROVE  Fine(m)'
  <1> DEFINE n == Current(b)
  <1>1. BatchShape /\ At(b, "filing") /\ Advance(b, "done")
    BY DEF FileFailure, Shape, BatchShape
  <1>2. /\ n \in To(b) /\ n \in Messages
        /\ \/ batch'[b] = [at |-> "done", next |-> 1]
           \/ batch'[b] = [at |-> "filing", next |-> batch[b].next + 1]
        /\ \A c \in Batches \ {b} : batch'[c] = batch[c]
    BY <1>1, AdvanceShape DEF BatchSteps, At
  <1>3. UNCHANGED <<raced, log, kind, answer, retry, accepted, charged>>  BY DEF FileFailure, ghosts
  <1>4. failures' = IF answer[n] = "rejected" THEN WithFailure(n) ELSE failures
    BY DEF FileFailure
  <1>5. m # n => failures'[m] = failures[m]  BY <1>4 DEF WithFailure, Shape
  <1>6. CASE m \notin To(b)  BY <1>2, <1>3, <1>5, <1>6, OtherCall
  <1>7. CASE m \in To(b)
    <2>1. PICK i \in DOMAIN Recipients[b] : Recipients[b][i] = m  BY <1>7, PlaceOf
    <2>2. i \in Nat /\ batch[b].next \in Nat
      BY <1>1, <2>1, RecipientTypes DEF BatchShape
    <2>3. m = n <=> i = batch[b].next
      BY <1>1, <2>1, OneCall DEF Current, BatchShape
    <2>4. Live(b) /\ ~At(b, "ticket")  BY <1>1 DEF Live, At
    <2>5. /\ log[m].status # None /\ kind[b] = "campaign"
          /\ IF answer[m] = "accepted" THEN Taken(m) ELSE NotTaken(m)
          /\ answer[m] = "rejected" /\ i >= batch[b].next => failures[m] = <<>>
      BY <1>1, <2>1, <2>4 DEF Fine, Standing
    <2>6. Books(m)  BY DEF Fine
    <2>7. /\ Len(failures'[m]) <= 1
          /\ i > batch[b].next /\ answer[m] = "rejected" => failures'[m] = <<>>
          /\ answer[m] # "rejected" => failures'[m] = failures[m]
      <3>1. CASE m = n /\ answer[m] = "rejected"
        <4>1. failures' = WithFailure(m) /\ i = batch[b].next  BY <1>4, <2>3, <3>1
        <4>2. failures[m] = <<>>  BY <2>2, <2>5, <3>1, <4>1
        <4>3. Len(failures'[m]) = 1  BY <4>1, <4>2, OneFailure
        <4> QED BY <2>2, <3>1, <4>1, <4>3
      <3>2. CASE m # n \/ answer[m] # "rejected"
        <4>1. failures'[m] = failures[m]  BY <1>4, <1>5, <3>2
        <4> QED BY <2>2, <2>5, <2>6, <4>1 DEF Books
      <3> QED BY <3>1, <3>2
    <2>8. accepted[m] = 1 => failures'[m] = <<>> /\ TakenByProvider(m)
      BY <2>5, <2>7 DEF Taken, NotTaken
    <2>9. Books(m)'
      BY <1>3, <2>5, <2>6, <2>7, <2>8 DEF Books, Settling, Reserved, TakenByProvider
    <2>10. Standing(b, i)'
      <3>1. CASE batch'[b] = [at |-> "done", next |-> 1]
        BY <3>1 DEF Standing, Live, At
      <3>2. CASE batch'[b] = [at |-> "filing", next |-> batch[b].next + 1]
        <4>1. i >= batch[b].next + 1 => i > batch[b].next  BY <2>2
        <4>2. IF answer'[m] = "accepted" THEN Taken(m)' ELSE NotTaken(m)'
          BY <1>3, <2>5, <2>7 DEF Taken, NotTaken, TakenByProvider
        <4> QED BY <1>3, <2>1, <2>5, <2>7, <3>2, <4>1, <4>2 DEF Standing, Live, At
      <3> QED BY <1>2, <3>1, <3>2
    <2>11. batch'[b].at # "idle"  BY <1>2
    <2> QED BY <1>2, <1>3, <2>1, <2>4, <2>9, <2>10, <2>11, BatchMoves
  <1> QED BY <1>6, <1>7

LEMMA BatchDiesFine ==
  ASSUME Shape, NEW b \in Batches, BatchDies(b), NEW m \in Messages, m \in Clear', Fine(m)
  PROVE  Fine(m)'
  <1>1. /\ batch'[b] = [at |-> "done", next |-> 1]
        /\ \A c \in Batches \ {b} : batch'[c] = batch[c]
    BY GotoShape DEF BatchDies, Shape, BatchShape, BatchSteps
  <1>2. UNCHANGED <<raced, log, kind, retry, failures, answer, accepted, charged>>
    BY DEF BatchDies
  <1>3. CASE m \notin To(b)  BY <1>1, <1>2, <1>3, OtherCall
  <1>4. CASE m \in To(b)
    <2>1. PICK i \in DOMAIN Recipients[b] : Recipients[b][i] = m  BY <1>4, PlaceOf
    <2>2. Live(b) /\ Books(m)  BY DEF BatchDies, Fine
    <2>3. ~Retried(m)  BY <1>4, <2>2 DEF Fine, Alone, Busy
    <2>4. accepted[m] = 1 => TakenByProvider(m)
      <3>1. SUFFICES ASSUME accepted[m] = 1, ~TakenByProvider(m)  PROVE FALSE  OBVIOUS
      <3>2. Unrecorded(m)  BY <2>2, <3>1 DEF Books
      <3>3. \A r \in Retriers : ~Working(r, m)
        BY <2>3 DEF Retried, Working, RetryAt, Msg
      <3>4. At(b, "answered")  BY <2>1, <3>2, <3>3, OneCall DEF Unrecorded
      <3>5. answer[m] = "accepted" /\ Reserved(m)  BY <2>1, <3>1, <3>4, AnsweredRow
      <3>6. m \in {n \in Sent(b) : OffRecord(n)}
        BY <1>4, <3>1, <3>5 DEF Sent, OffRecord, TakenByProvider
      <3>7. Clear' = Clear \ {n \in Sent(b) : OffRecord(n)}
        BY Undoubted DEF BatchDies, Shape
      <3> QED BY <3>6, <3>7
    <2>5. Books(m)'
      BY <1>2, <2>2, <2>4 DEF Books, Settling, Reserved, TakenByProvider, Working, RetryAt, Msg
    <2>6. Standing(b, i)'  BY <1>1 DEF Standing, Live, At
    <2> QED BY <1>1, <1>2, <2>1, <2>2, <2>5, <2>6, BatchMoves
  <1> QED BY <1>3, <1>4

\* The other failures cast a doubt on every message of the call.
LEMMA BatchFailsFine ==
  ASSUME Shape, NEW b \in Batches,
         NoticeUnrecorded(b) \/ RecordRowFails(b) \/ FinaliseLost(b),
         NEW m \in Messages, m \in Clear', Fine(m)
  PROVE  Fine(m)'
  <1>1. m \notin To(b)  BY Undoubted DEF Shape, NoticeUnrecorded, RecordRowFails, FinaliseLost
  <1>2. \A c \in Batches \ {b} : batch'[c] = batch[c]
    BY GotoShape DEF NoticeUnrecorded, RecordRowFails, FinaliseLost, Shape, BatchShape,
                     BatchSteps
  <1>3. UNCHANGED <<raced, kind, retry, accepted, charged>>
    BY DEF NoticeUnrecorded, RecordRowFails, FinaliseLost
  <1>4. log'[m] = log[m] /\ failures'[m] = failures[m] /\ answer'[m] = answer[m]
    <2>1. CASE NoticeUnrecorded(b) \/ FinaliseLost(b)
      BY <2>1 DEF NoticeUnrecorded, FinaliseLost
    <2>2. CASE RecordRowFails(b)
      <3>1. m # Current(b)
        BY <1>1, <2>2, RecipientTypes DEF RecordRowFails, Current, Shape
      <3>2. log' = log \/ log' = [log EXCEPT ![Current(b)] = Verdict(Current(b))]
        BY <2>2 DEF RecordRowFails
      <3>3. failures' = failures \/ failures' = WithFailure(Current(b))
        BY <2>2 DEF RecordRowFails
      <3>4. answer'[m] = answer[m]  BY <1>1, <2>2, AnsweredAt DEF RecordRowFails
      <3> QED BY <3>1, <3>2, <3>3, <3>4 DEF WithFailure, Shape
    <2> QED BY <2>1, <2>2
  <1> QED BY <1>1, <1>2, <1>3, <1>4, OtherCall

LEMMA BatchFine ==
  ASSUME Shape, NEW b \in Batches,
         Queue(b) \/ ReserveNotice(b) \/ BatchProceeds(b) \/ BatchFails(b),
         NEW m \in Messages, m \in Clear', Fine(m)
  PROVE  Fine(m)'
  BY QueueFine, ReserveNoticeFine, InsertNoticeFine, ProviderAnswersFine, ProviderThrowsFine,
     RecordRowFine, CatchMarksFine, CatchLogsFine, CatchCampaignFine, RecordCampaignFine,
     FinaliseNoticeFine, SettleBatchFine, FileFailureFine, BatchDiesFine, BatchFailsFine
  DEF BatchProceeds, BatchFails
-----------------------------------------------------------------------------
(* The steps of a retry.                                                   *)

\* A message it does not work on is not touched by them.
LEMMA OtherRetry ==
  ASSUME NEW r \in Retriers, NEW m \in Messages, ~Working(r, m), ~Working(r, m)', Fine(m),
         UNCHANGED <<batch, kind, answer>>, m \in raced' <=> m \in raced,
         \A q \in Retriers \ {r} : retry'[q] = retry[q],
         log'[m] = log[m], failures'[m] = failures[m],
         accepted'[m] = accepted[m], charged'[m] = charged[m]
  PROVE  Fine(m)'
  <1>1. \A q \in Retriers : Working(q, m) \/ Working(q, m)' => retry'[q] = retry[q]
    OBVIOUS
  <1> QED BY <1>1, Unmoved

LEMMA RetryStep ==
  ASSUME Shape, NEW r \in Retriers, ~RetryAt(r, "idle"),
         NEW step \in RetrySteps, RetryGoto(r, step) \/ RetryEnds(r)
  PROVE  /\ \A q \in Retriers \ {r} : retry'[q] = retry[q]
         /\ retry'[r].at = "idle" \/ retry'[r].msg = Msg(r)
         /\ \A m \in Messages : ~Working(r, m) => ~Working(r, m)'
         /\ RetryEnds(r) => retry'[r].at = "idle"
         /\ RetryGoto(r, step) =>
              retry'[r].at = step /\ Msg(r)' = Msg(r) /\ retry'[r].row = retry[r].row
  <1>1. retry[r] \in [at : RetrySteps, msg : Messages \cup {None}, row : Nat]
        /\ retry \in [Retriers -> [at : RetrySteps, msg : Messages \cup {None}, row : Nat]]
    BY DEF Shape
  <1>2. CASE RetryEnds(r)
    <2>1. retry'[r] = Idle /\ \A q \in Retriers \ {r} : retry'[q] = retry[q]
      BY <1>1, <1>2 DEF RetryEnds
    <2>2. retry'[r].at = "idle"  BY <2>1 DEF Idle
    <2>3. RetryGoto(r, step) => step = "idle" /\ retry'[r] = [retry[r] EXCEPT !.at = step]
      BY <1>1, <2>2 DEF RetryGoto
    <2> QED BY <1>1, <2>1, <2>2, <2>3 DEF Working, RetryAt, Msg
  <1>3. CASE RetryGoto(r, step) /\ ~RetryEnds(r)
    <2>1. retry'[r] = [retry[r] EXCEPT !.at = step]
          /\ \A q \in Retriers \ {r} : retry'[q] = retry[q]
      BY <1>1, <1>3 DEF RetryGoto
    <2>2. retry'[r].at = step /\ retry'[r].msg = retry[r].msg /\ retry'[r].row = retry[r].row
      BY <1>1, <2>1
    <2> QED BY <1>3, <2>1, <2>2 DEF Working, RetryAt, Msg
  <1> QED BY <1>2, <1>3

\* What is known of the message a retry works on.
LEMMA RetriedRow ==
  ASSUME Shape, NEW r \in Retriers, ~RetryAt(r, "idle"), Fine(Msg(r))
  PROVE  /\ Msg(r) \in Messages /\ retry[r].row \in DOMAIN failures[Msg(r)]
         /\ Working(r, Msg(r)) /\ Books(Msg(r)) /\ Retrying(r)
         /\ failures[Msg(r)] # <<>> /\ log[Msg(r)].status # None
         /\ \A q \in Retriers : Working(q, Msg(r)) => q = r
         /\ ~Busy(Msg(r))
  <1>1. Msg(r) \in Messages /\ retry[r].row \in DOMAIN failures[Msg(r)]
    BY FailureType
  <1>2. Working(r, Msg(r)) /\ Retried(Msg(r))  BY DEF Working, Retried, RetryAt, Msg
  <1>3. failures[Msg(r)] # <<>>  BY <1>1
  <1>4. Books(Msg(r)) /\ Alone(Msg(r)) /\ Retrying(r)  BY <1>2 DEF Fine
  <1> QED BY <1>1, <1>2, <1>3, <1>4 DEF Books, Alone

\* While nothing was taken, its books only need the row to be right.
LEMMA UntakenBooks ==
  ASSUME NEW m \in Messages, Books(m), accepted[m] = 0, accepted'[m] = 0,
         charged'[m] = charged[m],
         log'[m].status = log[m].status, log'[m].receipt = log[m].receipt,
         Reserved(m)' => log'[m].amount = Segments[m],
         Len(failures'[m]) = Len(failures[m]), failures'[m] # <<>> => failures[m] # <<>>
  PROVE  Books(m)'
  BY DEF Books, Reserved, TakenByProvider

\* The retry that only moves on, or writes on the failure it works on.
LEMMA RetryBeforeSendFine ==
  ASSUME Shape, NEW r \in Retriers,
         \/ Suppress(r) \/ Rereserve(r) \/ RefuseRetry(r) \/ RetryRejected(r) \/ Bump(r),
         NEW m \in Messages, Fine(m)
  PROVE  Fine(m)'
  <1>1. ~RetryAt(r, "idle")
    BY DEF Suppress, Rereserve, RefuseRetry, RetryRejected, Bump, RetryAt
  <1>2. UNCHANGED <<raced, log, kind, batch, answer, accepted, charged>>
    BY DEF Suppress, Rereserve, RefuseRetry, RetryRejected, Bump, ghosts
  <1>3. /\ \A q \in Retriers \ {r} : retry'[q] = retry[q]
        /\ retry'[r].at = "idle" \/ retry'[r].msg = Msg(r)
        /\ \A n \in Messages : ~Working(r, n) => ~Working(r, n)'
        /\ \/ retry'[r].at = "idle"
           \/ retry'[r].at \in {"stamp", "bump", "release"} /\ Msg(r)' = Msg(r)
    <2>1. CASE Suppress(r) \/ Bump(r)
      BY <1>1, <2>1, RetryStep DEF Suppress, Bump, RetrySteps
    <2>2. CASE Rereserve(r)
      <3>1. RetryGoto(r, "stamp") /\ "stamp" \in RetrySteps  BY <2>2 DEF Rereserve, RetrySteps
      <3> QED BY <1>1, <3>1, RetryStep
    <2>3. CASE RefuseRetry(r)
      <3>1. RetryGoto(r, "bump") /\ "bump" \in RetrySteps  BY <2>3 DEF RefuseRetry, RetrySteps
      <3> QED BY <1>1, <3>1, RetryStep
    <2>4. CASE RetryRejected(r)
      <3>1. RetryGoto(r, "release") /\ "release" \in RetrySteps
        BY <2>4 DEF RetryRejected, RetrySteps
      <3> QED BY <1>1, <3>1, RetryStep
    <2> QED BY <2>1, <2>2, <2>3, <2>4
  <1>4. /\ \A n \in Messages : DOMAIN failures[n] = DOMAIN failures'[n]
        /\ \A n \in Messages : n # Msg(r) => failures'[n] = failures[n]
        /\ failures' \in [Messages -> Seq(FailureRow)]
    <2>1. CASE Suppress(r) \/ Bump(r)
      <3>1. PICK f \in FailureRow : SetFailure(r, f)
        BY <1>1, <2>1, FailureType DEF Suppress, Bump
      <3> QED BY <1>1, <3>1, SetFailureShape
    <2>2. CASE UNCHANGED failures  BY <2>2 DEF Shape
    <2> QED BY <2>1, <2>2 DEF Rereserve, RefuseRetry, RetryRejected
  <1>5. CASE ~Working(r, m)
    <2>1. m # Msg(r)  BY <1>1, <1>5 DEF Working
    <2> QED BY <1>2, <1>3, <1>4, <1>5, <2>1, OtherRetry
  <1>6. CASE Working(r, m)
    <2>1. m = Msg(r)  BY <1>6 DEF Working
    <2>2. Books(m) /\ Retrying(r)  BY <1>1, <2>1, RetriedRow
    <2>3. accepted[m] = 0
      BY <2>1, <2>2 DEF Retrying, NotTaken, RetryAt, Suppress, Rereserve, RefuseRetry,
                        RetryRejected, Bump
    <2>4. /\ Len(failures'[m]) = Len(failures[m])
          /\ failures'[m] # <<>> => failures[m] # <<>>
      <3>1. failures[m] \in Seq(FailureRow) /\ failures'[m] \in Seq(FailureRow)
        BY <1>4 DEF Shape
      <3>2. DOMAIN failures[m] = DOMAIN failures'[m]  BY <1>4
      <3> QED BY <3>1, <3>2
    <2>5. Books(m)'
      <3>1. Reserved(m)' => log'[m].amount = Segments[m]
        BY <1>2, <2>2 DEF Reserved, Books
      <3> QED BY <1>2, <2>2, <2>3, <2>4, <3>1, UntakenBooks
    <2>6. Working(r, m)' => Retrying(r)'
      BY <1>2, <1>3, <2>1, <2>3 DEF Working, Retrying, RetryAt, NotTaken
    <2> QED BY <1>2, <1>3, <1>6, <2>1, <2>5, <2>6, RetryMoves
  <1> QED BY <1>5, <1>6

LEMMA StampFine ==
  ASSUME Shape, NEW r \in Retriers, Stamp(r), NEW m \in Messages, Fine(m)
  PROVE  Fine(m)'
  <1>1. ~RetryAt(r, "idle") /\ RetryAt(r, "stamp") /\ RetryGoto(r, "send")
    BY DEF Stamp, RetryAt
  <1>2. UNCHANGED <<kind, batch, answer, failures, accepted, charged>>  BY DEF Stamp
  <1>3. /\ \A q \in Retriers \ {r} : retry'[q] = retry[q]
        /\ \A n \in Messages : ~Working(r, n) => ~Working(r, n)'
        /\ retry'[r].at = "send" /\ Msg(r)' = Msg(r)
    BY <1>1, RetryStep DEF RetrySteps
  <1>4. CASE ~Working(r, m)
    <2>1. m # Msg(r)  BY <1>1, <1>4 DEF Working
    <2>2. log'[m] = log[m]  BY <2>1, StampedRow
    <2>3. m \in raced' <=> m \in raced  BY <2>1 DEF Stamp
    <2> QED BY <1>2, <1>3, <1>4, <2>2, <2>3, OtherRetry
  <1>5. CASE Working(r, m)
    <2>1. m = Msg(r)  BY <1>5 DEF Working
    <2>2. Books(m) /\ Retrying(r)  BY <1>1, <2>1, RetriedRow
    <2>3. accepted[m] = 0  BY <1>1, <2>1, <2>2 DEF Retrying, NotTaken, RetryAt
    <2>4. /\ log'[m].billing = "reserved" /\ log'[m].amount = Segments[m]
          /\ log'[m].status = log[m].status /\ log'[m].receipt = log[m].receipt
      BY <2>1, StampedRow
    <2>5. Books(m)'  BY <1>2, <2>2, <2>3, <2>4, UntakenBooks
    <2>6. Retrying(r)'
      BY <1>2, <1>3, <2>1, <2>3, <2>4 DEF Retrying, RetryAt, NotTaken, Reserved
    <2>7. retry'[r].msg = m  BY <1>3, <2>1 DEF Msg
    <2> QED BY <1>2, <1>3, <1>5, <2>5, <2>6, <2>7, RetryMoves
  <1> QED BY <1>4, <1>5

LEMMA RetryAcceptedFine ==
  ASSUME Shape, NEW r \in Retriers, RetryAccepted(r), NEW m \in Messages, Fine(m)
  PROVE  Fine(m)'
  <1>1. ~RetryAt(r, "idle") /\ RetryAt(r, "send") /\ RetryGoto(r, "accepted")
    BY DEF RetryAccepted, RetryAt
  <1>2. UNCHANGED <<raced, log, kind, batch, answer, failures, charged>>  BY DEF RetryAccepted
  <1>3. /\ \A q \in Retriers \ {r} : retry'[q] = retry[q]
        /\ \A n \in Messages : ~Working(r, n) => ~Working(r, n)'
        /\ retry'[r].at = "accepted" /\ Msg(r)' = Msg(r)
    BY <1>1, RetryStep DEF RetrySteps
  <1>4. accepted' = [accepted EXCEPT ![Msg(r)] = accepted[Msg(r)] + 1]
    BY DEF RetryAccepted
  <1>5. CASE ~Working(r, m)
    <2>1. m # Msg(r)  BY <1>1, <1>5 DEF Working
    <2>2. accepted'[m] = accepted[m]  BY <1>4, <2>1 DEF Shape
    <2> QED BY <1>2, <1>3, <1>5, <2>2, OtherRetry
  <1>6. CASE Working(r, m)
    <2>1. m = Msg(r)  BY <1>6 DEF Working
    <2>2. Books(m) /\ Retrying(r)  BY <1>1, <2>1, RetriedRow
    <2>3. accepted[m] = 0 /\ charged[m] = 0 /\ (Reserved(m) \/ m \in raced)
      BY <1>1, <2>1, <2>2 DEF Retrying, NotTaken, RetryAt, Books
    <2>4. accepted'[m] = 1  BY <1>4, <2>1, <2>3 DEF Shape
    <2>5. Working(r, m)' /\ RetryAt(r, "accepted")'
      BY <1>3, <2>1 DEF Working, RetryAt
    <2>6. Unrecorded(m)'  BY <2>5 DEF Unrecorded
    <2>7. Books(m)'
      BY <1>2, <2>2, <2>3, <2>4, <2>5, <2>6 DEF Books, Settling, Reserved
    <2>8. Retrying(r)'
      BY <1>2, <1>3, <2>1, <2>3, <2>4 DEF Retrying, RetryAt, Reserved
    <2>9. retry'[r].msg = m  BY <1>3, <2>1 DEF Msg
    <2> QED BY <1>2, <1>3, <1>6, <2>7, <2>8, <2>9, RetryMoves
  <1> QED BY <1>5, <1>6
LEMMA RecordRetryFine ==
  ASSUME Shape, NEW r \in Retriers, RecordRetry(r), NEW m \in Messages, Fine(m)
  PROVE  Fine(m)'
  <1>1. ~RetryAt(r, "idle") /\ RetryAt(r, "accepted") /\ RetryGoto(r, "consume")
        /\ SetFailure(r, Resolved(Failure(r)))
    BY DEF RecordRetry, RetryAt
  <1>2. UNCHANGED <<raced, kind, batch, answer, accepted, charged>>  BY DEF RecordRetry, ghosts
  <1>3. /\ \A q \in Retriers \ {r} : retry'[q] = retry[q]
        /\ \A n \in Messages : ~Working(r, n) => ~Working(r, n)'
        /\ retry'[r].at = "consume" /\ Msg(r)' = Msg(r) /\ retry'[r].row = retry[r].row
    BY <1>1, RetryStep DEF RetrySteps
  <1>4. /\ \A n \in Messages : DOMAIN failures[n] = DOMAIN failures'[n]
        /\ failures'[Msg(r)] = [failures[Msg(r)] EXCEPT ![retry[r].row] = Resolved(Failure(r))]
        /\ \A n \in Messages : n # Msg(r) => failures'[n] = failures[n]
        /\ failures' \in [Messages -> Seq(FailureRow)]
    BY <1>1, FailureType, SetFailureShape
  <1>5. CASE ~Working(r, m)
    <2>1. m # Msg(r)  BY <1>1, <1>5 DEF Working
    <2>2. log'[m] = log[m]  BY <2>1, RecordedRow
    <2> QED BY <1>2, <1>3, <1>4, <1>5, <2>1, <2>2, OtherRetry
  <1>6. CASE Working(r, m)
    <2>1. m = Msg(r)  BY <1>6 DEF Working
    <2>2. Books(m) /\ Retrying(r) /\ retry[r].row \in DOMAIN failures[m]
      BY <1>1, <2>1, RetriedRow
    <2>3. accepted[m] = 1  BY <1>1, <2>1, <2>2 DEF Retrying
    <2>4. /\ log'[m].status = "sent" /\ log'[m].billing = log[m].billing
          /\ log'[m].amount = log[m].amount
      BY <2>1, RecordedRow
    <2>5. TakenByProvider(m)' /\ (Reserved(m)' <=> Reserved(m)) /\ log'[m].status # None
      BY <2>3, <2>4 DEF TakenByProvider, Reserved, None
    <2>6. /\ failures[m] \in Seq(FailureRow) /\ failures'[m] \in Seq(FailureRow)
          /\ DOMAIN failures'[m] = DOMAIN failures[m] /\ Len(failures[m]) <= 1
      BY <1>4, <2>2 DEF Shape, Books
    <2>7. Len(failures'[m]) <= 1 /\ DOMAIN failures'[m] = {retry[r].row}
      BY <2>2, <2>6
    <2>8. Resolved(Failure(r)).resolved
      <3>1. Failure(r) \in FailureRow  BY <1>1, FailureType
      <3>2. ASSUME NEW f \in FailureRow  PROVE Resolved(f).resolved
        <4>1. Resolved(f) = [[f EXCEPT !.resolved = TRUE] EXCEPT !.tries = f.tries + 1]
          BY DEF Resolved
        <4> QED BY <4>1 DEF FailureRow
      <3> QED BY <3>1, <3>2
    <2>9. failures'[m][retry[r].row] = Resolved(Failure(r))
      BY <1>4, <2>1, <2>2
    <2>10. \A i \in DOMAIN failures'[m] : ~Outstanding(failures'[m][i])
      BY <2>7, <2>8, <2>9 DEF Outstanding
    <2>11. Books(m)'
      BY <1>2, <2>2, <2>3, <2>4, <2>5, <2>7, <2>10 DEF Books, Settling, Reserved
    <2>12. Retrying(r)'
      <3>1. Failure(r)' = failures'[m][retry[r].row]  BY <1>3, <2>1 DEF Failure
      <3>2. ~Outstanding(Failure(r))'  BY <2>8, <2>9, <3>1 DEF Outstanding
      <3> QED BY <1>2, <1>3, <2>1, <2>3, <2>5, <3>2 DEF Retrying, RetryAt
    <2>13. retry'[r].msg = m  BY <1>3, <2>1 DEF Msg
    <2> QED BY <1>2, <1>3, <1>6, <2>11, <2>12, <2>13, RetryMoves
  <1> QED BY <1>5, <1>6

LEMMA SettleRetryFine ==
  ASSUME Shape, NEW r \in Retriers, ConsumeRetry(r) \/ ReleaseRetry(r),
         NEW m \in Messages, Fine(m)
  PROVE  Fine(m)'
  <1> DEFINE o == IF RetryAt(r, "consume") THEN "consume" ELSE "release"
  <1>1. /\ ~RetryAt(r, "idle") /\ Settled({Msg(r)}, o) /\ o \in {"consume", "release"}
        /\ \/ RetryAt(r, "consume") /\ RetryEnds(r)
           \/ RetryAt(r, "release") /\ RetryGoto(r, "bump")
    BY DEF ConsumeRetry, ReleaseRetry, RetryAt
  <1>2. UNCHANGED <<raced, kind, batch, answer, failures, accepted>>
    BY DEF ConsumeRetry, ReleaseRetry
  <1>3. /\ \A q \in Retriers \ {r} : retry'[q] = retry[q]
        /\ \A n \in Messages : ~Working(r, n) => ~Working(r, n)'
        /\ retry'[r].at = "idle" \/ retry'[r].msg = Msg(r)
        /\ \/ RetryAt(r, "consume") /\ retry'[r].at = "idle"
           \/ RetryAt(r, "release") /\ retry'[r].at = "bump" /\ Msg(r)' = Msg(r)
    BY <1>1, RetryStep DEF RetrySteps
  <1>4. CASE ~Working(r, m)
    <2>1. m # Msg(r)  BY <1>1, <1>4 DEF Working
    <2>2. log'[m] = log[m] /\ charged'[m] = charged[m]  BY <1>1, <2>1, SettledRow
    <2> QED BY <1>2, <1>3, <1>4, <2>2, OtherRetry
  <1>5. CASE Working(r, m)
    <2>1. m = Msg(r)  BY <1>5 DEF Working
    <2>2. Books(m) /\ Retrying(r) /\ \A q \in Retriers : Working(q, m) => q = r
      BY <1>1, <2>1, RetriedRow
    <2>3. IF RetryAt(r, "consume") THEN accepted[m] = 1 /\ TakenByProvider(m)
          ELSE accepted[m] = 0
      BY <1>1, <2>1, <2>2 DEF Retrying, NotTaken, RetryAt
    <2>4. accepted[m] = 1 => \A i \in DOMAIN failures[m] : ~Outstanding(failures[m][i])
      BY <1>1, <2>2, <2>3 DEF Books, RetryAt
    <2>5. /\ m \in {Msg(r)} => IF o = "consume" THEN accepted[m] = 1 ELSE accepted[m] = 0
          /\ accepted[m] = 1 => TakenByProvider(m)
      BY <2>3
    <2> HIDE DEF o
    <2>6. Books(m)'  BY <1>1, <1>2, <2>2, <2>4, <2>5, SettledBooks
    <2>7. Working(r, m)' => Retrying(r)'
      BY <1>2, <1>3, <2>1, <2>3 DEF Working, Retrying, RetryAt, NotTaken
    <2> QED BY <1>2, <1>3, <1>5, <2>1, <2>6, <2>7, RetryMoves
  <1> QED BY <1>4, <1>5

LEMMA RetryFailsFine ==
  ASSUME Shape, NEW r \in Retriers, RetryFails(r), NEW m \in Messages, m \in Clear', Fine(m)
  PROVE  Fine(m)'
  <1>1. ~RetryAt(r, "idle")
    BY DEF RetryFails, RetryAnswerLost, RecordRetryFails, RetryDies, RetryAt
  <1>2. UNCHANGED <<raced, log, kind, batch, answer, failures, charged>>
    BY DEF RetryFails, RetryAnswerLost, RecordRetryFails, RetryDies
  <1>3. /\ \A q \in Retriers \ {r} : retry'[q] = retry[q]
        /\ \A n \in Messages : ~Working(r, n) => ~Working(r, n)'
        /\ retry'[r].at = "idle" \/ retry'[r].msg = Msg(r)
        /\ RetryEnds(r) => retry'[r].at = "idle"
    BY <1>1, RetryStep
       DEF RetryFails, RetryAnswerLost, RecordRetryFails, RetryDies, RetrySteps
  <1>4. CASE ~Working(r, m)
    <2>1. m # Msg(r)  BY <1>1, <1>4 DEF Working
    <2>2. accepted'[m] = accepted[m]
      BY <2>1 DEF RetryFails, RetryAnswerLost, RecordRetryFails, RetryDies, Shape
    <2> QED BY <1>2, <1>3, <1>4, <2>2, OtherRetry
  <1>5. CASE Working(r, m)
    <2>1. m = Msg(r)  BY <1>5 DEF Working
    <2>2. RetryDies(r) /\ ~RetryAt(r, "accepted")
      BY <2>1, Undoubted DEF Shape, RetryFails, RetryAnswerLost, RecordRetryFails, RetryDies
    <2>3. retry'[r].at = "idle" /\ accepted'[m] = accepted[m]
      BY <1>3, <2>2 DEF RetryDies
    <2>4. Books(m) /\ \A q \in Retriers : Working(q, m) => q = r
      BY <1>1, <2>1, RetriedRow
    <2>5. ~Busy(m)  BY <1>1, <2>1, RetriedRow
    <2>6. ~Unrecorded(m)  BY <2>2, <2>4, <2>5 DEF Unrecorded, Busy, Live, At
    <2>7. accepted[m] = 1 =>
            TakenByProvider(m) /\ \A i \in DOMAIN failures[m] : ~Outstanding(failures[m][i])
      BY <2>2, <2>4, <2>6 DEF Books
    <2>8. Books(m)'
      BY <1>2, <2>3, <2>4, <2>7 DEF Books, Settling, Reserved, TakenByProvider
    <2>9. ~Working(r, m)'  BY <2>3 DEF Working, RetryAt
    <2> QED BY <1>2, <1>3, <1>5, <2>8, <2>9, <2>3, RetryMoves
  <1> QED BY <1>4, <1>5

LEMMA ChooseFine ==
  ASSUME Shape, NEW r \in Retriers, NEW n \in Messages, NEW i \in DOMAIN failures[n],
         ChooseFailure(r, n, i), NEW m \in Messages, m \in Clear', Fine(m)
  PROVE  Fine(m)'
  <1>1. /\ RetryAt(r, "idle") /\ Outstanding(failures[n][i])
        /\ retry' = [retry EXCEPT ![r] = [at |-> "chosen", msg |-> n, row |-> i]]
        /\ doubts' = IF Busy(n) \/ Retried(n) THEN Doubted({n}) ELSE doubts
    BY DEF ChooseFailure
  <1>2. UNCHANGED <<raced, log, failures, kind, batch, answer, accepted, charged>>
    BY DEF ChooseFailure
  <1>3. /\ retry'[r].at = "chosen" /\ retry'[r].msg = n /\ retry'[r].row = i
        /\ \A q \in Retriers \ {r} : retry'[q] = retry[q]
    BY <1>1 DEF Shape
  <1>4. CASE m # n
    <2>1. ~Working(r, m) /\ ~Working(r, m)'
      BY <1>1, <1>3, <1>4 DEF Working, RetryAt, Msg
    <2> QED BY <1>2, <1>3, <2>1, OtherRetry
  <1>5. CASE m = n
    <2>1. ~Busy(m) /\ ~Retried(m)  BY <1>1, <1>5, Undoubted DEF Shape
    <2>2. \A q \in Retriers : ~Working(q, m)  BY <2>1 DEF Retried, Working, RetryAt, Msg
    <2>3. \A q \in Retriers : Working(q, m)' => q = r
      BY <1>3, <2>2 DEF Working, RetryAt, Msg
    <2>4. ~Busy(m)'  BY <1>2, <2>1 DEF Busy, Live
    <2>5. accepted[m] = 0
      BY <1>1, <1>5, <2>2 DEF Fine, Books
    <2>6. Books(m)'
      BY <1>2, <2>5 DEF Fine, Books, Reserved, TakenByProvider
    <2>7. Alone(m)'  BY <2>3, <2>4 DEF Alone
    <2>8. Untouched(m)'
      <3>1. failures[m] # <<>>  BY <1>5
      <3>2. ~(\A b \in Batches : m \in To(b) => At(b, "idle"))
        BY <3>1 DEF Fine, Untouched, Fresh
      <3> QED BY <1>2, <3>2 DEF Untouched, At
    <2>9. Retrying(r)'
      BY <1>2, <1>3, <1>5, <2>5 DEF Retrying, RetryAt, NotTaken, Msg
    <2>10. ASSUME NEW b \in Batches, NEW j \in DOMAIN Recipients[b], Recipients[b][j] = m
           PROVE  Standing(b, j)'
      <3>1. ~Live(b)'  BY <2>4, <2>10, OneCall DEF Busy
      <3> QED BY <3>1 DEF Standing, Live, At
    <2> QED BY <2>3, <2>6, <2>7, <2>8, <2>9, <2>10 DEF Fine
  <1> QED BY <1>4, <1>5

-----------------------------------------------------------------------------
(* The sweep.                                                              *)

\* A row that the sweep gives back although a retry has stamped it since: it will never be
\* charged, and that is all.
LEMMA SweepRacedFine ==
  ASSUME Shape, SweepRelease, NEW m \in Messages, Fine(m), m \in raced, ~Busy(m)
  PROVE  Fine(m)'
  <1>1. UNCHANGED <<failures, kind, batch, answer, retry, accepted, raced>>  BY DEF SweepRelease
  <1>2. \/ log'[m] = log[m] /\ charged'[m] = charged[m]
        \/ /\ Reserved(m) /\ log'[m].billing # "reserved"
           /\ log'[m].status = log[m].status /\ log'[m].receipt = log[m].receipt
           /\ charged'[m] = charged[m]
    BY SettledRow DEF SweepRelease
  <1>3. CASE log'[m] = log[m] /\ charged'[m] = charged[m]  BY <1>1, <1>3, Unmoved
  <1>4. CASE /\ Reserved(m) /\ log'[m].billing # "reserved"
             /\ log'[m].status = log[m].status /\ log'[m].receipt = log[m].receipt
             /\ charged'[m] = charged[m]
    <2>1. ~Reserved(m)' /\ (TakenByProvider(m)' <=> TakenByProvider(m))
      BY <1>4 DEF Reserved, TakenByProvider
    <2>2. Books(m) /\ Alone(m) /\ Untouched(m)  BY DEF Fine
    <2>3. accepted[m] = 1 => charged[m] = 0  BY <1>4, <2>2 DEF Books, Settling
    <2>4. \A r \in Retriers : Working(r, m)' <=> Working(r, m)
      BY <1>1 DEF Working, RetryAt, Msg
    <2>5. Unrecorded(m)' <=> Unrecorded(m)  BY <1>1, <2>4 DEF Unrecorded, At, RetryAt
    <2>6. Books(m)'
      <3>1. CASE accepted[m] = 0  BY <1>1, <1>4, <2>1, <2>2, <3>1 DEF Books
      <3>2. CASE accepted[m] = 1
        <4>1. Settling(m)'  BY <1>1, <1>4, <2>1, <2>3, <3>2 DEF Settling
        <4> QED BY <1>1, <1>4, <2>1, <2>2, <2>4, <2>5, <3>2, <4>1 DEF Books, RetryAt
      <3> QED BY <2>2, <3>1, <3>2 DEF Books
    <2>7. Alone(m)' /\ ~Busy(m)'
      BY <1>1, <2>2, <2>4 DEF Alone, Busy, Live, Retried, Working, RetryAt, Msg
    <2>8. Untouched(m)'  BY <1>1, <2>2 DEF Untouched, Fresh, At
    <2>9. ASSUME NEW b \in Batches, NEW j \in DOMAIN Recipients[b], Recipients[b][j] = m
          PROVE  Standing(b, j)'
      <3>1. ~Live(b)'  BY <2>7, <2>9, OneCall DEF Busy
      <3> QED BY <3>1 DEF Standing, Live, At
    <2>10. ASSUME NEW r \in Retriers, Working(r, m)'  PROVE Retrying(r)'
      <3>1. Retrying(r) /\ Msg(r) = m /\ Msg(r)' = m
        BY <1>1, <2>4, <2>10 DEF Fine, Working, Msg
      <3> QED BY <1>1, <2>1, <3>1 DEF Retrying, RetryAt, NotTaken, Failure
    <2> QED BY <2>6, <2>7, <2>8, <2>9, <2>10 DEF Fine
  <1> QED BY <1>2, <1>3, <1>4

\* Any other row the sweep settles is settled as the provider took it.
LEMMA SweepSettlesFine ==
  ASSUME Shape, SweepConsume \/ SweepRelease, NEW m \in Messages, Fine(m), Swept(m)
  PROVE  Fine(m)'
  <1>0. CASE SweepRelease /\ m \in sweep.release /\ m \in raced
    BY <1>0, SweepRacedFine DEF Swept
  <1> SUFFICES ASSUME ~(SweepRelease /\ m \in sweep.release /\ m \in raced)  PROVE Fine(m)'
    BY <1>0
  <1> DEFINE o == IF sweep.consume # {} THEN "consume" ELSE "release"
             ids == IF sweep.consume # {} THEN sweep.consume ELSE sweep.release
  <1>1. Settled(ids, o) /\ o \in {"consume", "release"}  BY DEF SweepConsume, SweepRelease
  <1>2. UNCHANGED <<failures, kind, batch, answer, retry, accepted, raced>>
    BY DEF SweepConsume, SweepRelease
  <1>3. CASE m \notin ids
    <2> HIDE DEF o, ids
    <2>1. log'[m] = log[m] /\ charged'[m] = charged[m]  BY <1>1, <1>3, SettledRow
    <2> QED BY <1>2, <2>1, Unmoved
  <1>4. CASE m \in ids
    <2>0. sweep.consume = {} => SweepRelease  BY DEF SweepConsume
    <2>1. Reserved(m) /\ ~Busy(m) /\ ~Stamped(m)  BY <1>4, <2>0 DEF Swept
    <2>2. ~Unrecorded(m)
      BY <2>1 DEF Unrecorded, Busy, Live, At, Stamped, Working, RetryAt
    <2>3. Books(m)  BY DEF Fine
    <2>4. /\ accepted[m] = 1 <=> TakenByProvider(m)
          /\ accepted[m] \in {0, 1}
      BY <2>2, <2>3 DEF Books
    <2>5. accepted[m] = 1 => \A i \in DOMAIN failures[m] : ~Outstanding(failures[m][i])
      BY <2>1, <2>3 DEF Books, Stamped, Working, RetryAt
    <2>6. IF o = "consume" THEN accepted[m] = 1 ELSE accepted[m] = 0
      BY <1>4, <2>0, <2>4 DEF Swept
    <2>7. m \in ids => IF o = "consume" THEN accepted[m] = 1 ELSE accepted[m] = 0
      BY <2>6
    <2> HIDE DEF o, ids
    <2>8. Books(m)'  BY <1>1, <1>2, <2>3, <2>4, <2>5, <2>7, SettledBooks
    <2>9. Alone(m)' /\ ~Busy(m)'
      BY <1>2, <2>1 DEF Fine, Alone, Busy, Live, Retried, Working, RetryAt, Msg
    <2>10. Untouched(m)'
      BY <1>2, <2>1 DEF Fine, Untouched, Fresh, At
    <2>11. ASSUME NEW b \in Batches, NEW j \in DOMAIN Recipients[b], Recipients[b][j] = m
           PROVE  Standing(b, j)'
      <3>1. ~Live(b)'  BY <2>9, <2>11, OneCall DEF Busy
      <3> QED BY <3>1 DEF Standing, Live, At
    <2>12. ASSUME NEW r \in Retriers, Working(r, m)'  PROVE Retrying(r)'
      <3>1. Working(r, m) /\ Msg(r) = m /\ Msg(r)' = m
        BY <1>2, <2>12 DEF Working, RetryAt, Msg
      <3>2. retry[r].at \in {"chosen", "stamp", "bump"}
        BY <2>1, <3>1 DEF Shape, RetrySteps, Stamped, Working, RetryAt
      <3>3. NotTaken(m)  BY <3>1, <3>2 DEF Fine, Retrying
      <3> QED BY <1>2, <3>1, <3>2, <3>3 DEF Retrying, RetryAt, NotTaken
    <2> QED BY <2>8, <2>9, <2>10, <2>11, <2>12 DEF Fine
  <1> QED BY <1>3, <1>4

\* It only reads, or forgets what it has read.
LEMMA SweepReadsFine ==
  ASSUME SweepSelect \/ SweepDies, NEW m \in Messages, Fine(m)
  PROVE  Fine(m)'
  <1>1. UNCHANGED <<log, failures, kind, batch, answer, retry, accepted, charged, raced>>
    BY DEF SweepSelect, SweepDies, ghosts
  <1> QED BY <1>1, Unmoved

\* The sweep's own steps keep its reading of the rows it has not settled.
LEMMA SweepKeeps ==
  ASSUME Shape, SweepProceeds \/ SweepDies, NEW m \in Messages, Swept(m)
  PROVE  Swept(m)'
  <1>1. UNCHANGED <<batch, retry>>
    BY DEF SweepProceeds, SweepSelect, SweepConsume, SweepRelease, SweepDies
  <1>0. UNCHANGED raced
    BY DEF SweepProceeds, SweepSelect, SweepConsume, SweepRelease, SweepDies, ghosts
  <1>2. (Busy(m)' <=> Busy(m)) /\ (Stamped(m)' <=> Stamped(m))
    BY <1>1 DEF Busy, Live, Stamped, Msg
  <1>3. CASE SweepSelect
    <2>1. PICK S \in SUBSET {n \in Messages : Stale(n)} :
            sweep' = [consume |-> {n \in S : TakenByProvider(n)},
                      release |-> {n \in S : ~TakenByProvider(n)}]
      BY <1>3 DEF SweepSelect
    <2>2. UNCHANGED log  BY <1>3 DEF SweepSelect
    <2>3. m \in S => Reserved(m) /\ ~Busy(m) /\ ~Stamped(m)  BY <2>1 DEF Stale
    <2>4. /\ m \in sweep'.consume <=> m \in S /\ TakenByProvider(m)
          /\ m \in sweep'.release <=> m \in S /\ ~TakenByProvider(m)
      BY <2>1
    <2> QED BY <1>2, <2>2, <2>3, <2>4 DEF Swept, Reserved, TakenByProvider
  <1>4. CASE SweepConsume
    <2>1. sweep'.consume = {} /\ sweep'.release = sweep.release
      BY <1>4 DEF SweepConsume, Shape
    <2>2. m \in sweep.release => m \notin sweep.consume  BY DEF Swept
    <2>3. m \in sweep.release => log'[m] = log[m]  BY <1>4, <2>2, SettledRow DEF SweepConsume
    <2> QED BY <1>0, <1>2, <2>1, <2>3 DEF Swept, Reserved, TakenByProvider
  <1>5. CASE SweepRelease \/ SweepDies
    <2>1. sweep' = Nothing  BY <1>5 DEF SweepRelease, SweepDies
    <2> QED BY <2>1 DEF Swept, Nothing
  <1> QED BY <1>3, <1>4, <1>5 DEF SweepProceeds

\* A call writes no row but its own.
LEMMA CallLeavesRow ==
  ASSUME Shape, NEW b \in Batches,
         Queue(b) \/ ReserveNotice(b) \/ BatchProceeds(b) \/ BatchFails(b),
         NEW m \in Messages \ To(b)
  PROVE  log'[m] = log[m] /\ \A c \in Batches \ {b} : batch'[c] = batch[c]
  <1>1. Current(b) \in To(b)  BY RecipientTypes DEF Current, Shape
  <1>2. Sent(b) \subseteq To(b) /\ Failed(b) \subseteq To(b)  BY DEF Sent, Failed
  <1>3. log'[m] = log[m]
    <2>1. CASE Queue(b) \/ InsertNotice(b)
      BY <2>1, InsertedRow DEF Queue, InsertNotice
    <2>2. CASE RecordRow(b) \/ RecordRowFails(b)
      <3>1. log' = log \/ log' = [log EXCEPT ![Current(b)] = Verdict(Current(b))]
        BY <2>2 DEF RecordRow, RecordRowFails
      <3> QED BY <1>1, <3>1 DEF Shape
    <2>3. CASE CatchMarks(b) \/ CatchCampaign(b) \/ RecordCampaign(b) \/ FinaliseNotice(b)
      <3>1. FailedRows(b)[m] = log[m]  BY DEF FailedRows
      <3>2. CASE log' = FailedRows(b)  BY <3>1, <3>2
      <3>3. CASE RecordCampaign(b) \/ FinaliseNotice(b)
        BY <3>3 DEF RecordCampaign, FinaliseNotice
      <3> QED BY <2>3, <3>2, <3>3 DEF CatchMarks, CatchCampaign
    <2>4. CASE ConsumeSent(b)  BY <1>2, <2>4, SettledRow DEF ConsumeSent
    <2>5. CASE ReleaseFailed(b)  BY <1>2, <2>5, SettledRow DEF ReleaseFailed
    <2>6. CASE UNCHANGED log  BY <2>6
    <2> QED BY <2>1, <2>2, <2>3, <2>4, <2>5, <2>6
            DEF BatchProceeds, BatchFails, ReserveNotice, ProviderAnswers, ProviderThrows,
                CatchLogs, FileFailure, NoticeUnrecorded, AnswerLost, FinaliseLost, BatchDies
  <1>4. \/ \E step \in BatchSteps : Goto(b, step)
        \/ \E step \in BatchSteps : Advance(b, step)
    BY DEF BatchProceeds, BatchFails, Queue, ReserveNotice, InsertNotice, ProviderAnswers,
           ProviderThrows, RecordRow, CatchMarks, CatchLogs, CatchCampaign, RecordCampaign,
           FinaliseNotice, ConsumeSent, ReleaseFailed, FileFailure, NoticeUnrecorded,
           AnswerLost, RecordRowFails, FinaliseLost, BatchDies, BatchSteps
  <1>5. \A c \in Batches \ {b} : batch'[c] = batch[c]
    BY <1>4 DEF Advance, Goto, Shape
  <1> QED BY <1>3, <1>5

LEMMA CallKeeps ==
  ASSUME Shape, NEW b \in Batches,
         Queue(b) \/ ReserveNotice(b) \/ BatchProceeds(b) \/ BatchFails(b),
         NEW m \in Messages, Fine(m), Swept(m)
  PROVE  Swept(m)'
  <1>1. UNCHANGED <<sweep, retry, raced>>
    BY DEF BatchProceeds, BatchFails, Queue, ReserveNotice, InsertNotice, ProviderAnswers,
           ProviderThrows, RecordRow, CatchMarks, CatchLogs, CatchCampaign, RecordCampaign,
           FinaliseNotice, ConsumeSent, ReleaseFailed, FileFailure, NoticeUnrecorded,
           AnswerLost, RecordRowFails, FinaliseLost, BatchDies, ghosts
  <1>2. CASE ~InSweep(m)  BY <1>1, <1>2 DEF Swept, InSweep
  <1>3. CASE InSweep(m)
    <2>1. ~Busy(m) /\ (Reserved(m) \/ m \in raced)  BY <1>3 DEF Swept, InSweep
    <2>2. m \notin To(b)
      <3>1. SUFFICES ASSUME m \in To(b)  PROVE FALSE  OBVIOUS
      <3>2. ~Live(b)  BY <2>1, <3>1 DEF Busy
      <3>3. At(b, "idle")
        BY <3>2
        DEF BatchProceeds, BatchFails, Queue, ReserveNotice, InsertNotice, ProviderAnswers,
            ProviderThrows, RecordRow, CatchMarks, CatchLogs, CatchCampaign, RecordCampaign,
            FinaliseNotice, ConsumeSent, ReleaseFailed, FileFailure, NoticeUnrecorded,
            AnswerLost, RecordRowFails, FinaliseLost, BatchDies, Live, At
      <3>4. \A c \in Batches : m \in To(c) => c = b  BY <3>1, BatchAssumption
      <3>5. Fresh(m)  BY <3>3, <3>4 DEF Fine, Untouched
      <3> QED BY <2>1, <3>5 DEF Fresh
    <2>3. log'[m] = log[m] /\ \A c \in Batches : m \in To(c) => batch'[c] = batch[c]
      BY <2>2, CallLeavesRow
    <2>4. ~Busy(m)'  BY <2>1, <2>3 DEF Busy, Live
    <2>5. Stamped(m)' <=> Stamped(m)  BY <1>1 DEF Stamped, Msg
    <2> QED BY <1>1, <2>3, <2>4, <2>5 DEF Swept, Reserved, TakenByProvider
  <1> QED BY <1>2, <1>3

\* A retry writes on the row of its message alone, and only its stamp touches a row that the
\* sweep has read: one it will release, as nothing the provider took is stamped again.
LEMMA RetryKeeps ==
  ASSUME Shape, NEW r \in Retriers,
         \/ \E n \in Messages : \E i \in DOMAIN failures[n] : ChooseFailure(r, n, i)
         \/ RetryProceeds(r) \/ RetryFails(r),
         NEW m \in Messages, Fine(m), Swept(m)
  PROVE  Swept(m)'
  <1>1. UNCHANGED <<sweep, batch>>
    BY DEF RetryProceeds, RetryFails, ChooseFailure, Suppress, Rereserve, RefuseRetry, Stamp,
           RetryAccepted, RetryRejected, RecordRetry, ConsumeRetry, ReleaseRetry, Bump,
           RetryAnswerLost, RecordRetryFails, RetryDies
  <1>2. /\ Busy(m)' <=> Busy(m)
        /\ (Stamp(r) /\ Msg(r) = m) \/ (m \in raced' <=> m \in raced)
    <2>1. CASE Stamp(r)  BY <2>1 DEF Stamp, Busy, Live
    <2>2. CASE UNCHANGED raced  BY <1>1, <2>2 DEF Busy, Live
    <2> QED BY <2>1, <2>2
        DEF RetryProceeds, RetryFails, ChooseFailure, Suppress, Rereserve, RefuseRetry,
            RetryAccepted, RetryRejected, RecordRetry, ConsumeRetry, ReleaseRetry, Bump,
            RetryAnswerLost, RecordRetryFails, RetryDies, ghosts
  <1>3. CASE Stamp(r) /\ Msg(r) = m
    <2>1. m \notin sweep.consume
      <3>1. ~RetryAt(r, "idle") /\ RetryAt(r, "stamp")  BY <1>3 DEF Stamp, RetryAt
      <3>2. Retrying(r) /\ Books(m)  BY <1>3, <3>1, RetriedRow
      <3>3. ~TakenByProvider(m)  BY <1>3, <3>1, <3>2 DEF Retrying, RetryAt, NotTaken, Books
      <3> QED BY <3>3 DEF Swept
    <2>2. m \in sweep.release => m \in raced'  BY <1>3 DEF Stamp, InSweep
    <2> QED BY <1>1, <1>2, <2>1, <2>2 DEF Swept
  <1>4. CASE /\ ~(Stamp(r) /\ Msg(r) = m)
             /\ ~InSweep(m) \/ (m \in raced /\ m \notin sweep.consume)
    BY <1>1, <1>2, <1>4 DEF Swept, InSweep
  <1>5. CASE /\ ~(Stamp(r) /\ Msg(r) = m)
             /\ InSweep(m) /\ (m \notin raced \/ m \in sweep.consume)
    <2>1. Reserved(m) /\ ~Busy(m) /\ ~Stamped(m)  BY <1>5 DEF Swept, InSweep
    <2>3. Msg(r) = m => retry[r].at \notin {"send", "accepted", "consume", "release"}
      BY <2>1 DEF Stamped
    <2>4. /\ log'[m] = log[m]
          /\ \A q \in Retriers \ {r} : retry'[q] = retry[q]
          /\ retry'[r].msg = m => retry'[r].at \notin {"send", "accepted", "consume", "release"}
      <3>1. CASE \E n \in Messages : \E i \in DOMAIN failures[n] : ChooseFailure(r, n, i)
        BY <3>1 DEF ChooseFailure, Shape
      <3>2. CASE Stamp(r)
        <4>1. m # Msg(r)  BY <1>5, <3>2
        <4> QED BY <3>2, <4>1, StampedRow DEF Stamp, RetryGoto, Shape, Msg
      <3>3. CASE Suppress(r) \/ Rereserve(r) \/ RefuseRetry(r) \/ Bump(r) \/ RetryDies(r)
        BY <3>3
        DEF Suppress, Rereserve, RefuseRetry, Bump, RetryDies, RetryGoto, RetryEnds, Idle, Shape
      <3>4. CASE \/ RetryAccepted(r) \/ RetryRejected(r) \/ RetryAnswerLost(r)
                 \/ RecordRetryFails(r) \/ RecordRetry(r) \/ ConsumeRetry(r) \/ ReleaseRetry(r)
        <4>1. m # Msg(r)
          BY <2>3, <3>4
          DEF RetryAccepted, RetryRejected, RetryAnswerLost, RecordRetryFails, RecordRetry,
              ConsumeRetry, ReleaseRetry, RetryAt
        <4>2. log'[m] = log[m]
          <5>1. CASE RecordRetry(r)  BY <4>1, <5>1, RecordedRow DEF RecordRetry
          <5>2. CASE ConsumeRetry(r)  BY <4>1, <5>2, SettledRow DEF ConsumeRetry
          <5>3. CASE ReleaseRetry(r)  BY <4>1, <5>3, SettledRow DEF ReleaseRetry
          <5>4. CASE UNCHANGED log  BY <5>4
          <5> QED BY <3>4, <5>1, <5>2, <5>3, <5>4
                  DEF RetryAccepted, RetryRejected, RetryAnswerLost, RecordRetryFails
        <4>3. retry'[r].at = "idle" \/ retry'[r].msg = Msg(r)
          BY <3>4
          DEF RetryAccepted, RetryRejected, RetryAnswerLost, RecordRetryFails, RecordRetry,
              ConsumeRetry, ReleaseRetry, RetryGoto, RetryEnds, Idle, Shape, Msg
        <4>4. \A q \in Retriers \ {r} : retry'[q] = retry[q]
          BY <3>4
          DEF RetryAccepted, RetryRejected, RetryAnswerLost, RecordRetryFails, RecordRetry,
              ConsumeRetry, ReleaseRetry, RetryGoto, RetryEnds, Shape
        <4> QED BY <4>1, <4>2, <4>3, <4>4
      <3> QED BY <3>1, <3>2, <3>3, <3>4 DEF RetryProceeds, RetryFails
    <2>5. ~Stamped(m)'  BY <2>1, <2>4 DEF Stamped, Msg
    <2>6. ~Busy(m)' /\ Reserved(m)' /\ (TakenByProvider(m)' <=> TakenByProvider(m))
      BY <1>2, <2>1, <2>4 DEF Reserved, TakenByProvider
    <2>7. m \in raced' <=> m \in raced  BY <1>2, <1>5
    <2> QED BY <1>1, <2>5, <2>6, <2>7 DEF Swept
  <1> QED BY <1>3, <1>4, <1>5

-----------------------------------------------------------------------------
(* The invariant.                                                          *)

LEMMA InitHolds == Init => IInv
  <1> SUFFICES ASSUME Init PROVE IInv  OBVIOUS
  <1>1. Shape
    <2>1. NoRow \in Row  BY DEF NoRow, Row, Statuses, BillingStates
    <2>2. Idle \in [at : RetrySteps, msg : Messages \cup {None}, row : Nat]
      BY DEF Idle, RetrySteps
    <2>3. batch \in [Batches -> [at : BatchSteps, next : Nat]]
      BY DEF Init, BatchSteps
    <2>4. \A b \in Batches : batch[b].next \in DOMAIN Recipients[b]
      BY RecipientTypes DEF Init
    <2>5. \A r \in Retriers : retry[r].at = "idle"  BY DEF Init, Idle
    <2>6. retry \in [Retriers -> [at : RetrySteps, msg : Messages \cup {None}, row : Nat]]
      BY <2>2 DEF Init
    <2>7. failures \in [Messages -> Seq(FailureRow)]  BY DEF Init
    <2>8. sweep \in [consume : SUBSET Messages, release : SUBSET Messages]
      BY DEF Init, Nothing
    <2> QED BY <2>1, <2>3, <2>4, <2>5, <2>6, <2>7, <2>8 DEF Init, Shape, AnswerKinds
  <1>2. ASSUME NEW m \in Messages  PROVE Fine(m)
    <2>1. /\ log[m].status = None /\ log[m].billing = None /\ log[m].receipt = FALSE
          /\ failures[m] = <<>> /\ accepted[m] = 0 /\ charged[m] = 0 /\ m \notin raced
      BY DEF Init, NoRow
    <2>2. ~Reserved(m) /\ ~TakenByProvider(m)
      BY <2>1 DEF Reserved, TakenByProvider, None
    <2>3. \A r \in Retriers : ~Working(r, m)  BY DEF Init, Idle, Working, RetryAt
    <2>4. \A b \in Batches : batch[b].at = "idle"  BY DEF Init
    <2>5. Alone(m)  BY <2>3, <2>4 DEF Alone, Busy, Live
    <2>6. Untouched(m) /\ Books(m)  BY <2>1, <2>2 DEF Untouched, Fresh, Books
    <2>7. \A b \in Batches : \A i \in DOMAIN Recipients[b] : Standing(b, i)
      BY <2>4 DEF Standing, Live, At
    <2> QED BY <2>3, <2>5, <2>6, <2>7 DEF Fine
  <1>3. ASSUME NEW m \in Messages  PROVE Swept(m)
    BY DEF Init, Nothing, Swept, InSweep
  <1> QED BY <1>1, <1>2, <1>3 DEF IInv, Clear

LEMMA StepHolds == IInv /\ [Next]_vars => IInv'
  <1> SUFFICES ASSUME IInv, [Next]_vars PROVE IInv'  OBVIOUS
  <1>1. Shape /\ Shape'  BY ShapeStep DEF IInv
  <1>2. Clear' \subseteq Clear
    <2>1. doubts' = doubts \/ \E S : doubts' = Doubted(S)
      BY DEF Next, Queue, ReserveNotice, BatchProceeds, BatchFails, RetryProceeds, RetryFails,
         InsertNotice, ProviderAnswers, ProviderThrows, RecordRow, CatchMarks, CatchLogs,
         CatchCampaign, RecordCampaign, FinaliseNotice, ConsumeSent, ReleaseFailed, FileFailure,
         NoticeUnrecorded, AnswerLost, RecordRowFails, FinaliseLost, BatchDies,
         ChooseFailure, Suppress, Rereserve, RefuseRetry, Stamp, RetryAccepted, RetryRejected,
         RecordRetry, ConsumeRetry, ReleaseRetry, Bump, RetryAnswerLost, RecordRetryFails,
         RetryDies, SweepProceeds, SweepSelect, SweepConsume, SweepRelease, SweepDies, TopUp,
         ResetAllowance, ghosts, vars
    <2> QED BY <1>1, <2>1, Undoubted DEF Shape, Clear
  <1>3. SUFFICES ASSUME NEW m \in Messages, m \in Clear'  PROVE Fine(m)' /\ Swept(m)'
    <2>1. Clear' \subseteq Messages  BY DEF Clear
    <2> QED BY <1>1, <1>3, <2>1 DEF IInv
  <1>4. m \in Clear /\ Fine(m) /\ Swept(m)  BY <1>2, <1>3 DEF IInv
  <1>5. ASSUME NEW b \in Batches,
               Queue(b) \/ ReserveNotice(b) \/ BatchProceeds(b) \/ BatchFails(b)
        PROVE  Fine(m)' /\ Swept(m)'
    BY <1>1, <1>3, <1>4, <1>5, BatchFine, CallKeeps
  <1>6. ASSUME NEW r \in Retriers, RetryProceeds(r)  PROVE Fine(m)' /\ Swept(m)'
    <2>1. Fine(m)'
      BY <1>1, <1>4, <1>6, RetryBeforeSendFine, StampFine, RetryAcceptedFine, RecordRetryFine,
         SettleRetryFine DEF RetryProceeds
    <2> QED BY <1>1, <1>4, <1>6, <2>1, RetryKeeps
  <1>7. ASSUME NEW r \in Retriers, RetryFails(r)  PROVE Fine(m)' /\ Swept(m)'
    BY <1>1, <1>3, <1>4, <1>7, RetryFailsFine, RetryKeeps
  <1>8. ASSUME NEW r \in Retriers, NEW n \in Messages, NEW i \in DOMAIN failures[n],
               ChooseFailure(r, n, i)
        PROVE  Fine(m)' /\ Swept(m)'
    <2>1. Fine(m)'  BY <1>1, <1>3, <1>4, <1>8, ChooseFine
    <2>2. Swept(m)'  BY <1>1, <1>4, <1>8, RetryKeeps
    <2> QED BY <2>1, <2>2
  <1>9. CASE SweepProceeds \/ SweepDies
    BY <1>1, <1>4, <1>9, SweepSettlesFine, SweepReadsFine, SweepKeeps DEF SweepProceeds
  <1>10. CASE TopUp \/ ResetAllowance \/ UNCHANGED vars
    <2>1. UNCHANGED <<log, failures, kind, sweep, batch, answer, retry, accepted, charged, raced>>
      BY <1>10 DEF TopUp, ResetAllowance, vars, ghosts
    <2>2. Fine(m)'  BY <1>4, <2>1, Unmoved
    <2>3. Swept(m)'
      BY <1>4, <2>1 DEF Swept, Reserved, Busy, Live, Stamped, Msg, TakenByProvider
    <2> QED BY <2>2, <2>3
  <1> QED BY <1>5, <1>6, <1>7, <1>8, <1>9, <1>10 DEF Next

\* The provider takes a message once, however send, notifyMember, retryFailures, retryFailure
\* and the sweep interleave and wherever an invocation dies, as long as no write on it is lost
\* after the provider's answer and no second invocation takes it up at the same time.
THEOREM MessageDeliveredOnce == Spec => [](\A m \in Clear : accepted[m] <= 1)
  <1>1. Init => IInv  BY InitHolds
  <1>2. IInv /\ [Next]_vars => IInv'  BY StepHolds
  <1>3. IInv => \A m \in Clear : accepted[m] <= 1  BY DEF IInv, Fine, Books
  <1> QED BY <1>1, <1>2, <1>3, PTL DEF Spec

\* Under the same proviso settle_sms_credit_reservation charges a message for as often as the
\* provider took it: never more, and once nobody works on it and it is settled no less, but
\* when a retry stamps its row between the sweep's reading and the sweep's settlement.
THEOREM MessageChargedAsTaken == Spec => []AcceptedIsCharged
  <1>1. Init => IInv  BY InitHolds
  <1>2. IInv /\ [Next]_vars => IInv'  BY StepHolds
  <1>3. IInv => AcceptedIsCharged
    <2> SUFFICES ASSUME IInv, NEW m \in Messages, doubts[m] = 0
                 PROVE  /\ charged[m] <= Segments[m] * accepted[m]
                        /\ ~Reserved(m) /\ m \notin raced =>
                             charged[m] = Segments[m] * accepted[m]
      BY DEF AcceptedIsCharged
    <2>1. Books(m) /\ Segments[m] \in Nat  BY AmountAssumption DEF IInv, Fine, Clear
    <2>2. Segments[m] * 0 = 0 /\ Segments[m] * 1 = Segments[m]  BY <2>1
    <2>3. CASE accepted[m] = 0  BY <2>1, <2>2, <2>3 DEF Books
    <2>4. CASE accepted[m] = 1
      <3>1. charged[m] = 0 \/ charged[m] = Segments[m]
        BY <2>1, <2>4 DEF Books, Settling
      <3>2. ~Reserved(m) /\ m \notin raced => charged[m] = Segments[m]
        BY <2>1, <2>4 DEF Books, Settling
      <3> QED BY <2>1, <2>2, <2>4, <3>1, <3>2
    <2> QED BY <2>1, <2>3, <2>4 DEF Books
  <1> QED BY <1>1, <1>2, <1>3, PTL DEF Spec
=============================================================================
