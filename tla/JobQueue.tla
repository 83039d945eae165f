------------------------------- MODULE JobQueue -------------------------------
(***************************************************************************)
(* The job queue: background work is a row of job_queue, and serverless    *)
(* invocations started by cron (or by hand) sweep, claim and run the rows. *)
(*                                                                         *)
(*   lib/jobs/db.ts         claim, stuck-job sweep, completion, retry      *)
(*   lib/jobs/processor.ts  processJobBatch, processSingleJob, rotation    *)
(*                                                                         *)
(* Every database statement is a step of its own: no transaction spans two *)
(* of them, and the writes after a job has run are by id, whatever the     *)
(* status is by then.  What keeps two invocations off one row is time: an  *)
(* invocation is killed at the platform's ceiling, before the row it holds *)
(* is old enough for the sweep.                                            *)
(*                                                                         *)
(* Time passes in minutes.  A due time is kept as the minutes still to     *)
(* wait, and updated_at as the row's age, kept where the code compares it: *)
(* up to Threshold + 1 while the row is processing, and up to Retention +  *)
(* 1 once it ended.  Inside a minute the time budget of a batch may be     *)
(* spent or not: that is a choice.                                         *)
(***************************************************************************)
EXTENDS Integers, FiniteSets

CONSTANTS
  Rows,        \* job_queue rows
  Types,       \* job types
  TypeOf,      \* [Rows -> Types]
  Priority,    \* [Rows -> Int]
  DedupKey,    \* [Rows -> dedup keys, or None]
  Recurring,   \* rows that are pruned when they ended, and enqueued again
  Invocations, \* invocations of processJobBatch that may overlap
  MaxAttempts, \* max_attempts
  MaxDelay,    \* bound: minutes an inserted row may have to wait for its run_at
  Ceiling,     \* minutes the platform lets an invocation live (maxDuration)
  Threshold,   \* minutes after which a processing row counts as stuck
  Retention,   \* minutes (days, in the code) an ended row is kept
  Period,      \* minutes between two ticks of cron
  Cycle,       \* tick numbers are kept modulo this
  Faults       \* may invocations die holding a row, or be started by hand?

None == "none"

ASSUME RowAssumption ==
  /\ TypeOf \in [Rows -> Types]
  /\ Priority \in [Rows -> Int]
  /\ None \notin Rows
  /\ Recurring \subseteq Rows

\* The ceiling (1 minute for the cron route) is within the sweep's threshold (6).
ASSUME TimeAssumption ==
  /\ MaxAttempts \in Nat \ {0}
  /\ Ceiling \in Nat /\ Threshold \in Nat /\ Ceiling <= Threshold
  /\ Period \in Nat \ {0} /\ Retention \in Nat /\ MaxDelay \in Nat

\* No rotation can tell tick numbers kept modulo Cycle from real ones.
ASSUME CycleAssumption ==
  /\ Cycle \in Nat \ {0}
  /\ IsFiniteSet(Types)
  /\ \A n \in 1..Cardinality(Types) : Cycle % n = 0

ASSUME ModeAssumption == Faults \subseteq {"die", "manual"}

VARIABLES
  status,   \* job_queue.status, None before the insert
  attempts, \* job_queue.attempts
  wait,     \* minutes until job_queue.run_at
  age,      \* minutes since job_queue.updated_at
  runs,     \* times a handler was started for the row
  at,       \* where an invocation is
  job,      \* the row it claimed
  seen,     \* the attempts the claim returned
  lived,    \* minutes it has run
  order,    \* the types it goes through, rotated
  turn,     \* its place in that order
  round,    \* "busy": it claimed a row in this round, "dry": not yet, "fresh": not one ever
  clock,    \* minutes, modulo Period * Cycle
  fired     \* cron started an invocation in this tick

rows == <<status, attempts, wait, age, runs>>
place == <<order, turn, round>>
time == <<clock, fired>>
vars == <<rows, at, job, seen, lived, place, time>>

Statuses == {None, "pending", "processing", "completed", "failed"}
Terminal == {"completed", "failed"}
Places == {"off", "looking", "claiming", "running"}

\* 2^attempts * 60 seconds.
Backoff(n) == 2^n

NoOrder == [n \in {} |-> None]
Orders == UNION {[1..n -> Types] : n \in 0..Cardinality(Types)}

TypeOK ==
  /\ status \in [Rows -> Statuses]
  /\ attempts \in [Rows -> 0..MaxAttempts]
  /\ wait \in [Rows -> Nat]
  /\ age \in [Rows -> Nat]
  /\ runs \in [Rows -> Nat]
  /\ at \in [Invocations -> Places]
  /\ job \in [Invocations -> Rows \cup {None}]
  /\ seen \in [Invocations -> 0..MaxAttempts]
  /\ lived \in [Invocations -> 0..Ceiling]
  /\ order \in [Invocations -> Orders]
  /\ turn \in [Invocations -> Nat]
  /\ round \in [Invocations -> {"fresh", "dry", "busy"}]
  /\ clock \in 0..(Period * Cycle - 1)
  /\ fired \in BOOLEAN

Init ==
  /\ status = [r \in Rows |-> None]
  /\ attempts = [r \in Rows |-> 0]
  /\ wait = [r \in Rows |-> 0]
  /\ age = [r \in Rows |-> 0]
  /\ runs = [r \in Rows |-> 0]
  /\ at = [i \in Invocations |-> "off"]
  /\ job = [i \in Invocations |-> None]
  /\ seen = [i \in Invocations |-> 0]
  /\ lived = [i \in Invocations |-> 0]
  /\ order = [i \in Invocations |-> NoOrder]
  /\ turn = [i \in Invocations |-> 0]
  /\ round = [i \in Invocations |-> "fresh"]
  /\ clock = 0 /\ fired = FALSE

-----------------------------------------------------------------------------
(* Enqueue and prune *)

\* Mutant of Open: a key is taken only while its job still waits.
OpenPendingOnly(r) == status[r] = "pending"

\* The rows of the partial unique index: neither completed nor failed.
Open(r) == status[r] \in {"pending", "processing"}

Taken(key) == key # None /\ \E r \in Rows : Open(r) /\ DedupKey[r] = key

\* insertJob, with a run_at now or in the future; ON CONFLICT DO NOTHING when the key is
\* taken, by a row that is not yet due as well.
Enqueue(r) ==
  /\ status[r] = None
  /\ ~Taken(DedupKey[r])
  /\ status' = [status EXCEPT ![r] = "pending"]
  /\ \E delay \in 0..MaxDelay : wait' = [wait EXCEPT ![r] = delay]
  /\ UNCHANGED <<attempts, age, runs, at, job, seen, lived, place, time>>

\* pruneOldJobs: the row of a recurring job goes, and its place is free for the next one.
Prune(r) ==
  /\ r \in Recurring /\ status[r] \in Terminal /\ age[r] > Retention
  /\ status' = [status EXCEPT ![r] = None]
  /\ attempts' = [attempts EXCEPT ![r] = 0]
  /\ runs' = [runs EXCEPT ![r] = 0]
  /\ age' = [age EXCEPT ![r] = 0]
  /\ UNCHANGED <<wait, at, job, seen, lived, place, time>>

-----------------------------------------------------------------------------
(* processJobBatch *)

Goto(i, p) == at' = [at EXCEPT ![i] = p]

\* The invocation is over: it returned, threw, or was killed.
End(i) ==
  /\ Goto(i, "off")
  /\ job' = [job EXCEPT ![i] = None]
  /\ seen' = [seen EXCEPT ![i] = 0]
  /\ lived' = [lived EXCEPT ![i] = 0]
  /\ order' = [order EXCEPT ![i] = NoOrder]
  /\ turn' = [turn EXCEPT ![i] = 0]
  /\ round' = [round EXCEPT ![i] = "fresh"]

\* Mutants of Stuck: the boundary is off by one; the last attempt is left alone.
StuckAtThreshold(r) == status[r] = "processing" /\ age[r] >= Threshold
StuckWithAttemptsLeft(r) ==
  status[r] = "processing" /\ age[r] > Threshold /\ attempts[r] + 1 < MaxAttempts

Stuck(r) == status[r] = "processing" /\ age[r] > Threshold

\* Mutant of SweptAttempts: a timeout is not an attempt.
SweptAttemptsSame(r) == attempts[r]

\* A timeout counts as an attempt.
SweptAttempts(r) == attempts[r] + 1

\* Mutant of SweptStatus: always released.
SweptStatusAlways(r) == "pending"

SweptStatus(r) == IF attempts[r] + 1 >= MaxAttempts THEN "failed" ELSE "pending"

\* The batch starts with resetStuckJobs, one UPDATE.  Cron fires once a tick; an
\* administrator may start another batch at any time.
Start(i) ==
  /\ at[i] = "off"
  /\ fired => "manual" \in Faults
  /\ fired' = TRUE
  /\ status' = [r \in Rows |-> IF Stuck(r) THEN SweptStatus(r) ELSE status[r]]
  /\ attempts' = [r \in Rows |-> IF Stuck(r) THEN SweptAttempts(r) ELSE attempts[r]]
  /\ age' = [r \in Rows |-> IF Stuck(r) THEN 0 ELSE age[r]]
  /\ Goto(i, "looking")
  /\ UNCHANGED <<wait, runs, job, seen, lived, place, clock>>

\* Mutant of Due: a failed row may be claimed.
DueUnlessDone(r) == status[r] \in {"pending", "failed"} /\ wait[r] = 0

Due(r) == status[r] = "pending" /\ wait[r] = 0
DueTypes == {TypeOf[r] : r \in {q \in Rows : Due(q)}}

\* The due row of the type that claimPendingJobs and the snapshot look at first.
First(r) == Due(r) /\ \A q \in Rows : Due(q) /\ TypeOf[q] = TypeOf[r] => Priority[q] <= Priority[r]
TypePriority(t) == Priority[CHOOSE r \in Rows : TypeOf[r] = t /\ First(r)]

\* ORDER BY priority DESC: the due types, ties in any order.
ByPriority(o) ==
  /\ {o[n] : n \in DOMAIN o} = DueTypes
  /\ \A m, n \in DOMAIN o : m < n => o[m] # o[n] /\ TypePriority(o[m]) >= TypePriority(o[n])

\* Number of the tick in which the invocation started.
Tick(i) == ((clock - lived[i]) % (Period * Cycle)) \div Period

\* Mutant of Rotated: the most urgent type always leads.
RotatedNever(o, tick) == o
\* rotateStartingType: the type at tick % length leads.
Rotated(o, tick) ==
  LET n == Cardinality(DOMAIN o) IN [m \in 1..n |-> o[((m - 1 + tick) % n) + 1]]

\* getJobQueueSnapshot, with the order of the rounds; nothing due, nothing to do.
Snapshot(i) ==
  /\ at[i] = "looking"
  /\ IF DueTypes = {} THEN End(i)
     ELSE /\ \E o \in [1..Cardinality(DueTypes) -> Types] :
               ByPriority(o) /\ order' = [order EXCEPT ![i] = Rotated(o, Tick(i))]
          /\ turn' = [turn EXCEPT ![i] = 1]
          /\ Goto(i, "claiming")
          /\ UNCHANGED <<job, seen, lived, round>>
  /\ UNCHANGED <<rows, time>>

Turns(i) == Cardinality(DOMAIN order[i])

\* claimPendingJobs(1, type): FOR UPDATE SKIP LOCKED and the UPDATE are one statement.
\* The row returned carries the attempts processSingleJob will count from.
Claim(i) ==
  /\ at[i] = "claiming" /\ turn[i] <= Turns(i)
  /\ \E r \in Rows :
       /\ TypeOf[r] = order[i][turn[i]] /\ First(r)
       /\ status' = [status EXCEPT ![r] = "processing"]
       /\ age' = [age EXCEPT ![r] = 0]
       /\ runs' = [runs EXCEPT ![r] = @ + 1]
       /\ job' = [job EXCEPT ![i] = r]
       /\ seen' = [seen EXCEPT ![i] = attempts[r]]
  /\ Goto(i, "running")
  /\ round' = [round EXCEPT ![i] = "busy"]
  /\ UNCHANGED <<attempts, wait, lived, order, turn, time>>

\* The type ran dry.
Skip(i) ==
  /\ at[i] = "claiming" /\ turn[i] <= Turns(i)
  /\ ~\E r \in Rows : TypeOf[r] = order[i][turn[i]] /\ Due(r)
  /\ turn' = [turn EXCEPT ![i] = @ + 1]
  /\ UNCHANGED <<rows, at, job, seen, lived, order, round, time>>

\* Another round if this one claimed anything.
NextRound(i) ==
  /\ at[i] = "claiming" /\ turn[i] > Turns(i)
  /\ IF round[i] = "busy"
       THEN /\ turn' = [turn EXCEPT ![i] = 1]
            /\ round' = [round EXCEPT ![i] = "dry"]
            /\ UNCHANGED <<at, job, seen, lived, order>>
       ELSE End(i)
  /\ UNCHANGED <<rows, time>>

\* The time budget or the batch is used up before a claim, but never before the first.
Stop(i) ==
  /\ at[i] = "claiming" /\ round[i] # "fresh"
  /\ End(i)
  /\ UNCHANGED <<rows, time>>

-----------------------------------------------------------------------------
(* processSingleJob *)

\* On to the next type of the round.
Advance(i) ==
  /\ Goto(i, "claiming")
  /\ job' = [job EXCEPT ![i] = None]
  /\ seen' = [seen EXCEPT ![i] = 0]
  /\ turn' = [turn EXCEPT ![i] = @ + 1]
  /\ UNCHANGED <<lived, order, round>>

\* The handler returned, and markJobCompleted, by id, went through.
MarkCompleted(i) ==
  /\ at[i] = "running"
  /\ status' = [status EXCEPT ![job[i]] = "completed"]
  /\ age' = [age EXCEPT ![job[i]] = 0]
  /\ Advance(i)
  /\ UNCHANGED <<attempts, wait, runs, time>>

\* The handler, or markJobCompleted after it, threw: markJobFailed or scheduleRetry, by
\* id, from the attempts the claim had returned.
RetryOrFail(i) ==
  LET r == job[i] IN
  /\ at[i] = "running"
  /\ IF seen[i] + 1 >= MaxAttempts
       THEN status' = [status EXCEPT ![r] = "failed"] /\ UNCHANGED <<attempts, wait>>
       ELSE /\ status' = [status EXCEPT ![r] = "pending"]
            /\ attempts' = [attempts EXCEPT ![r] = seen[i] + 1]
            /\ wait' = [wait EXCEPT ![r] = Backoff(seen[i] + 1)]
  /\ age' = [age EXCEPT ![r] = 0]
  /\ Advance(i)
  /\ UNCHANGED <<runs, time>>

\* Killed while it holds a row, or the write of the catch block fails and the batch throws.
Die(i) ==
  /\ "die" \in Faults
  /\ at[i] = "running"
  /\ End(i)
  /\ UNCHANGED <<rows, time>>

-----------------------------------------------------------------------------
(* Time *)

\* How far the age of a row is told apart.
Kept(r) ==
  CASE status[r] = "processing" -> Threshold
    [] status[r] \in Terminal /\ r \in Recurring -> Retention
    [] OTHER -> -1

\* A minute passes.  Cron has fired in a tick that ends, and an invocation at the ceiling
\* is killed before it would outlive it.
Minute ==
  /\ (clock + 1) % Period = 0 => fired
  /\ \A i \in Invocations : lived[i] < Ceiling \/ at[i] = "off"
  /\ lived' = [i \in Invocations |-> IF at[i] = "off" THEN 0 ELSE lived[i] + 1]
  /\ wait' = [r \in Rows |-> IF wait[r] > 0 THEN wait[r] - 1 ELSE 0]
  /\ age' = [r \in Rows |->
       IF age[r] <= Kept(r) THEN age[r] + 1 ELSE age[r]]
  /\ clock' = (clock + 1) % (Period * Cycle)
  /\ fired' = (fired /\ (clock + 1) % Period # 0)
  /\ UNCHANGED <<status, attempts, runs, at, job, seen, place>>

\* maxDuration: the platform kills it wherever it is, but not before its first claim,
\* which is three statements away from its start.
Killed(i) ==
  /\ "die" \in Faults
  /\ lived[i] = Ceiling /\ round[i] # "fresh"
  /\ End(i)
  /\ UNCHANGED <<rows, time>>

-----------------------------------------------------------------------------
Batch(i) ==
  \/ Snapshot(i) \/ Claim(i) \/ Skip(i) \/ NextRound(i) \/ Stop(i)
  \/ MarkCompleted(i) \/ RetryOrFail(i) \/ Die(i) \/ Killed(i)

Next ==
  \/ \E r \in Rows : Enqueue(r) \/ Prune(r)
  \/ \E i \in Invocations : Start(i) \/ Batch(i)
  \/ Minute

Spec == Init /\ [][Next]_vars

\* Time passes, pg_cron fires in every tick, and an invocation runs on or is killed.
\* Nothing is assumed of what a handler does, or of who enqueues.
CronFires == ~fired /\ \E i \in Invocations : Start(i)

Fairness ==
  /\ WF_vars(Minute)
  /\ WF_vars(CronFires)
  /\ \A i \in Invocations : WF_vars(Batch(i)) /\ WF_vars(Killed(i))

FairSpec == Spec /\ Fairness

-----------------------------------------------------------------------------
(* Properties *)

\* A row is in the hands of one invocation at most, and is processing as long as it is:
\* no sweep releases a row whose handler still runs, and so the writes by id of
\* markJobCompleted, markJobFailed and scheduleRetry, which look at no status, hit the
\* claim they belong to.
ExclusiveRun ==
  \A i \in Invocations : at[i] = "running" =>
    /\ status[job[i]] = "processing"
    /\ \A h \in Invocations \ {i} : at[h] = "running" => job[h] # job[i]

\* The retry loop is bounded: whatever throws, times out, dies or fails to be written, a
\* handler is started at most MaxAttempts times for one row (resetStuckJobs, H3).
RunsBounded == \A r \in Rows : runs[r] <= MaxAttempts

\* One live job per dedup key: a retry or a sweep never brings back a row whose key was
\* taken by another one meanwhile (insertJob, idx_job_queue_dedup).
OneOpenPerKey ==
  \A q, r \in Rows :
    q # r /\ DedupKey[q] = DedupKey[r] /\ DedupKey[r] # None =>
      status[q] \in Terminal \cup {None} \/ status[r] \in Terminal \cup {None}

\* A completed or failed row is never run again, by a late write or a sweep.
TerminalIsFinal ==
  [][\A r \in Rows : status[r] \in Terminal => status'[r] \in {status[r], None}]_vars

\* Every claim ends: the row is completed, failed or given back, even if its handler overruns
\* or dies with it (markJobCompleted, markJobFailed, scheduleRetry, resetStuckJobs).
ClaimedIsReleased ==
  \A r \in Rows : status[r] = "processing" ~> status[r] # "processing"

\* While the same types stay due, the tick puts each of them in front some day, and a job of
\* it is claimed: "no type can be permanently stuck at the back" (processor.ts, the header of
\* processJobBatch).  A type that is due only now and then shifts the places of the others, and
\* then the rotation promises nothing.
StableTypesTakeTurns ==
  \A t \in Types :
    <>[][\A i \in Invocations : Snapshot(i) => DueTypes = Types]_vars =>
      []<>(\E r \in Rows : TypeOf[r] = t /\ status[r] = "processing")
=============================================================================
