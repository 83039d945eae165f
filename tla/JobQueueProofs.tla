---------------------------- MODULE JobQueueProofs ----------------------------
(***************************************************************************)
(* Theorems about JobQueue for all rows, invocations, attempts and times,  *)
(* as long as the platform kills an invocation within the sweep threshold. *)
(*                                                                         *)
(* The writes of a batch look at no status and carry no token, so what has *)
(* to be shown is that the claim they belong to is still theirs.  The      *)
(* inductive invariant ties three clocks together: a row held by a running *)
(* invocation is not older than the invocation, which is not older than    *)
(* the ceiling, which the sweep's threshold is not below.                  *)
(***************************************************************************)
EXTENDS JobQueue, FiniteSetTheorems, TLAPS

USE RowAssumption, TimeAssumption

\* The types the argument needs; the order of the rounds plays no part in it.
RowTypes ==
  /\ status \in [Rows -> Statuses]
  /\ attempts \in [Rows -> 0..MaxAttempts]
  /\ age \in [Rows -> Nat]
  /\ runs \in [Rows -> Nat]
  /\ at \in [Invocations -> Places]
  /\ job \in [Invocations -> Rows \cup {None}]
  /\ seen \in [Invocations -> 0..MaxAttempts]
  /\ lived \in [Invocations -> 0..Ceiling]

\* What a running invocation may count on.
Holds(i) ==
  at[i] = "running" =>
    /\ job[i] \in Rows
    /\ status[job[i]] = "processing"
    /\ age[job[i]] <= lived[i]
    /\ seen[i] = attempts[job[i]]

Apart(h, i) == at[h] = "running" /\ at[i] = "running" /\ h # i => job[h] # job[i]

\* What the attempts of a row say of the runs it had.
Counted(r) ==
  /\ status[r] = None => runs[r] = 0 /\ attempts[r] = 0
  /\ status[r] = "pending" => runs[r] <= attempts[r] /\ attempts[r] < MaxAttempts
  /\ status[r] = "processing" => runs[r] <= attempts[r] + 1 /\ attempts[r] < MaxAttempts
  /\ status[r] \in Terminal => runs[r] <= MaxAttempts

IInv ==
  /\ RowTypes
  /\ \A i \in Invocations : Holds(i) /\ (at[i] = "off" => lived[i] = 0)
  /\ \A h, i \in Invocations : Apart(h, i)
  /\ \A r \in Rows : Counted(r)

LEMMA InitIInv == Init => IInv
  BY DEF Init, IInv, RowTypes, Holds, Apart, Counted, Statuses, Places, Terminal, None

\* The sweep leaves alone what a running invocation holds.
LEMMA SweepSpares ==
  ASSUME IInv, NEW i \in Invocations, at[i] = "running"
  PROVE  ~Stuck(job[i])
  BY DEF IInv, RowTypes, Holds, Stuck

LEMMA StepIInv == IInv /\ [Next]_vars => IInv'
  <1> SUFFICES ASSUME IInv, [Next]_vars PROVE IInv'
    OBVIOUS
  <1> USE DEF IInv, RowTypes, Holds, Apart, Counted, Statuses, Places, Terminal, None
  <1>1. ASSUME NEW r \in Rows, Enqueue(r) \/ Prune(r)  PROVE IInv'
    <2>1. CASE Enqueue(r)  BY <2>1 DEF Enqueue
    <2>2. CASE Prune(r)  BY <2>2 DEF Prune
    <2> QED BY <1>1, <2>1, <2>2
  <1>2. ASSUME NEW i \in Invocations, Start(i)  PROVE IInv'
    <2>1. \A h \in Invocations : at'[h] = "running" => at[h] = "running" /\ ~Stuck(job[h])
      BY <1>2, SweepSpares DEF Start, Goto
    <2>2. RowTypes'
      BY <1>2 DEF Start, Goto, Stuck, SweptStatus, SweptAttempts, place
    <2>3. \A r \in Rows : Counted(r)'
      BY <1>2 DEF Start, Stuck, SweptStatus, SweptAttempts
    <2>4. \A h \in Invocations : Holds(h)' /\ (at[h] = "off" => lived[h] = 0)'
      BY <1>2, <2>1 DEF Start, Goto
    <2>5. \A h, j \in Invocations : Apart(h, j)'  BY <1>2, <2>1 DEF Start
    <2> QED BY <2>2, <2>3, <2>4, <2>5
  <1>3. ASSUME NEW i \in Invocations, Claim(i)  PROVE IInv'
    <2> PICK r \in Rows :
          /\ Due(r)
          /\ status' = [status EXCEPT ![r] = "processing"]
          /\ age' = [age EXCEPT ![r] = 0]
          /\ runs' = [runs EXCEPT ![r] = @ + 1]
          /\ job' = [job EXCEPT ![i] = r]
          /\ seen' = [seen EXCEPT ![i] = attempts[r]]
      BY <1>3 DEF Claim, First
    <2> USE DEF Due
    <2>1. UNCHANGED <<attempts, lived>> /\ at' = [at EXCEPT ![i] = "running"] /\ at[i] = "claiming"
      BY <1>3 DEF Claim, Goto
    <2>2. RowTypes'  BY <2>1
    <2>3. \A q \in Rows : Counted(q)'  BY <2>1
    <2>4. \A h \in Invocations : Holds(h)' /\ (at[h] = "off" => lived[h] = 0)'  BY <2>1
    <2>5. \A h, j \in Invocations : Apart(h, j)'  BY <2>1
    <2> QED BY <2>2, <2>3, <2>4, <2>5
  <1>4. ASSUME NEW i \in Invocations, MarkCompleted(i) \/ RetryOrFail(i)  PROVE IInv'
    <2>1. at[i] = "running" /\ job[i] \in Rows /\ status[job[i]] = "processing"
      BY <1>4 DEF MarkCompleted, RetryOrFail
    <2>2. \A h \in Invocations \ {i} : at[h] = "running" => job[h] # job[i]  BY <2>1
    <2>3. CASE MarkCompleted(i)
      BY <2>1, <2>2, <2>3 DEF MarkCompleted, Advance, Goto
    <2>4. CASE RetryOrFail(i)
      BY <2>1, <2>2, <2>4 DEF RetryOrFail, Advance, Goto
    <2> QED BY <1>4, <2>3, <2>4
  <1>5. ASSUME NEW i \in Invocations,
               Snapshot(i) \/ Skip(i) \/ NextRound(i) \/ Stop(i) \/ Die(i) \/ Killed(i)
        PROVE  IInv'
    <2>1. UNCHANGED rows
      BY <1>5 DEF Snapshot, Skip, NextRound, Stop, Die, Killed
    <2>2. \/ UNCHANGED <<at, job, seen, lived>>
          \/ at' = [at EXCEPT ![i] = "claiming"] /\ UNCHANGED <<job, seen, lived>> /\ at[i] # "off"
          \/ End(i)
      BY <1>5 DEF Snapshot, Skip, NextRound, Stop, Die, Killed, Goto
    <2>3. CASE End(i)  BY <2>1, <2>3 DEF End, Goto, rows
    <2>4. CASE UNCHANGED <<at, job, seen, lived>>  BY <2>1, <2>4 DEF rows
    <2>5. CASE at' = [at EXCEPT ![i] = "claiming"] /\ UNCHANGED <<job, seen, lived>> /\ at[i] # "off"
      BY <2>1, <2>5 DEF rows
    <2> QED BY <2>2, <2>3, <2>4, <2>5
  <1>6. CASE Minute
    <2>1. UNCHANGED <<status, attempts, runs, at, job, seen>>  BY <1>6 DEF Minute
    <2>2. RowTypes'  BY <1>6, <2>1 DEF Minute
    <2>3. \A i \in Invocations : Holds(i)' /\ (at[i] = "off" => lived[i] = 0)'
      BY <1>6, <2>1 DEF Minute, Kept
    <2> QED BY <2>1, <2>2, <2>3
  <1>7. CASE UNCHANGED vars  BY <1>7 DEF vars, rows
  <1> QED BY <1>1, <1>2, <1>3, <1>4, <1>5, <1>6, <1>7 DEF Next, Batch

\* A row is in the hands of one invocation at most, for all numbers of rows and
\* invocations and all times, without a fencing token.
THEOREM RunsAlone == Spec => []ExclusiveRun
  <1>1. IInv => ExclusiveRun  BY DEF IInv, Holds, Apart, ExclusiveRun
  <1> QED BY <1>1, InitIInv, StepIInv, PTL DEF Spec

\* A handler is started at most MaxAttempts times for one row.
THEOREM RetriesEnd == Spec => []RunsBounded
  <1>1. IInv => RunsBounded
    BY DEF IInv, RowTypes, Counted, RunsBounded, Statuses, Terminal
  <1> QED BY <1>1, InitIInv, StepIInv, PTL DEF Spec

\* A row that completed or failed is never brought back, by a late write or a sweep.
THEOREM EndedStaysEnded == Spec => TerminalIsFinal
  <1>1. IInv /\ [Next]_vars => [\A r \in Rows : status[r] \in Terminal => status'[r] \in {status[r], None}]_vars
    <2> SUFFICES ASSUME IInv, Next, NEW r \in Rows, status[r] \in Terminal
                 PROVE  status'[r] \in {status[r], None}
      OBVIOUS
    <2> USE DEF IInv, RowTypes, Holds, Terminal, None
    <2>1. ASSUME NEW q \in Rows, Enqueue(q) \/ Prune(q)  PROVE status'[r] \in {status[r], None}
      BY <2>1 DEF Enqueue, Prune
    <2>2. ASSUME NEW i \in Invocations, Start(i)  PROVE status'[r] \in {status[r], None}
      BY <2>2 DEF Start, Stuck
    <2>3. ASSUME NEW i \in Invocations, Claim(i)  PROVE status'[r] \in {status[r], None}
      BY <2>3 DEF Claim, First, Due
    <2>4. ASSUME NEW i \in Invocations, MarkCompleted(i) \/ RetryOrFail(i)
          PROVE  status'[r] \in {status[r], None}
      BY <2>4 DEF MarkCompleted, RetryOrFail
    <2>5. ASSUME NEW i \in Invocations,
                 Snapshot(i) \/ Skip(i) \/ NextRound(i) \/ Stop(i) \/ Die(i) \/ Killed(i)
          PROVE  status'[r] \in {status[r], None}
      BY <2>5 DEF Snapshot, Skip, NextRound, Stop, Die, Killed, rows
    <2>6. CASE Minute  BY <2>6 DEF Minute
    <2> QED BY <2>1, <2>2, <2>3, <2>4, <2>5, <2>6 DEF Next, Batch
  <1> QED BY <1>1, InitIInv, StepIInv, PTL DEF Spec, TerminalIsFinal

\* At most one live job per dedup key: no retry and no sweep brings a row back beside the
\* one that took its key.
THEOREM KeysStayUnique == Spec => []OneOpenPerKey
  <1>1. Init => OneOpenPerKey  BY DEF Init, OneOpenPerKey
  <1>2. IInv /\ OneOpenPerKey /\ [Next]_vars => OneOpenPerKey'
    <2> SUFFICES ASSUME IInv, OneOpenPerKey, [Next]_vars PROVE OneOpenPerKey'
      OBVIOUS
    <2> DEFINE Ended(q) == status[q] \in Terminal \cup {None}
    <2>1. ASSUME NEW r \in Rows, Enqueue(r)  PROVE OneOpenPerKey'
      <3>1. \A q \in Rows : DedupKey[q] = DedupKey[r] /\ DedupKey[r] # None => Ended(q)
        BY <2>1 DEF Enqueue, Taken, Open, IInv, RowTypes, Statuses, Terminal
      <3>2. \A q \in Rows \ {r} : Ended(q) => Ended(q)'
        BY <2>1 DEF Enqueue, IInv, RowTypes
      <3> QED BY <3>1, <3>2 DEF OneOpenPerKey
    <2>2. ASSUME \A q \in Rows : Ended(q) => Ended(q)'  PROVE OneOpenPerKey'
      BY <2>2 DEF OneOpenPerKey
    <2>3. ASSUME NEW r \in Rows, Prune(r)  PROVE \A q \in Rows : Ended(q) => Ended(q)'
      BY <2>3 DEF Prune, IInv, RowTypes
    <2>4. ASSUME NEW i \in Invocations, Start(i)  PROVE \A q \in Rows : Ended(q) => Ended(q)'
      BY <2>4 DEF Start, Stuck, Terminal, None
    <2>5. ASSUME NEW i \in Invocations, Claim(i)  PROVE \A q \in Rows : Ended(q) => Ended(q)'
      BY <2>5 DEF Claim, First, Due, Terminal, None
    <2>6. ASSUME NEW i \in Invocations, MarkCompleted(i) \/ RetryOrFail(i)
          PROVE  \A q \in Rows : Ended(q) => Ended(q)'
      BY <2>6 DEF MarkCompleted, RetryOrFail, IInv, RowTypes, Holds, Terminal, None
    <2>7. ASSUME NEW i \in Invocations,
                 Snapshot(i) \/ Skip(i) \/ NextRound(i) \/ Stop(i) \/ Die(i) \/ Killed(i)
          PROVE  \A q \in Rows : Ended(q) => Ended(q)'
      BY <2>7 DEF Snapshot, Skip, NextRound, Stop, Die, Killed, rows
    <2>8. CASE Minute \/ UNCHANGED vars
      BY <2>8, <2>2 DEF Minute, vars, rows
    <2> QED BY <2>1, <2>2, <2>3, <2>4, <2>5, <2>6, <2>7, <2>8 DEF Next, Batch
  <1> QED BY <1>1, <1>2, InitIInv, StepIInv, PTL DEF Spec

-----------------------------------------------------------------------------
(* Types *)

\* The types that the argument above does not need.
PlaceTypes ==
  /\ wait \in [Rows -> Nat]
  /\ order \in [Invocations -> Orders]
  /\ turn \in [Invocations -> Nat]
  /\ round \in [Invocations -> {"fresh", "dry", "busy"}]
  /\ clock \in 0..(Period * Cycle - 1)
  /\ fired \in BOOLEAN

\* What the backoff computes; the provers have no theory of powers.
PowersAreNat == \A n \in Nat : 2^n \in Nat

LEMMA CycleIsPositive == Period * Cycle \in Nat \ {0}
  <1>1. \A p, c \in Nat \ {0} : p * c \in Nat \ {0}  OBVIOUS
  <1> QED BY <1>1, CycleAssumption

LEMMA NoOrderType == NoOrder \in Orders
  <1>1. Cardinality(Types) \in Nat  BY CycleAssumption, FS_CardinalityType
  <1>2. NoOrder \in [1..0 -> Types]  BY DEF NoOrder
  <1> QED BY <1>1, <1>2 DEF Orders

\* A rotation reads only places of the order it rotates.
LEMMA RotatedType ==
  ASSUME NEW n \in Nat, NEW o \in [1..n -> Types], NEW tick \in Int
  PROVE  Rotated(o, tick) \in [1..n -> Types]
  <1>1. DOMAIN o = 1..n /\ Cardinality(1..n) = n
    <2>1. Cardinality(1..n) = IF 1 > n THEN 0 ELSE n - 1 + 1  BY FS_Interval
    <2> QED BY <2>1
  <1>2. \A m \in 1..n : ((m - 1 + tick) % n) + 1 \in 1..n  OBVIOUS
  <1>3. Rotated(o, tick) = [m \in 1..n |-> o[((m - 1 + tick) % n) + 1]]
    BY <1>1 DEF Rotated
  <1> QED BY <1>2, <1>3

LEMMA DueTypesFew == IsFiniteSet(DueTypes) /\ Cardinality(DueTypes) \in 0..Cardinality(Types)
  <1>1. DueTypes \subseteq Types  BY RowAssumption DEF DueTypes
  <1>2. IsFiniteSet(Types)  BY CycleAssumption
  <1>3. /\ IsFiniteSet(DueTypes)
        /\ Cardinality(DueTypes) <= Cardinality(Types)
    BY <1>1, <1>2, FS_Subset
  <1> QED BY <1>2, <1>3, FS_CardinalityType

LEMMA StepPlace ==
  ASSUME PowersAreNat
  PROVE  IInv /\ PlaceTypes /\ [Next]_vars => PlaceTypes'
  <1> SUFFICES ASSUME IInv, PlaceTypes, [Next]_vars PROVE PlaceTypes'
    OBVIOUS
  <1> USE CycleIsPositive, NoOrderType DEF PlaceTypes
  <1>1. ASSUME NEW r \in Rows, Enqueue(r) \/ Prune(r)  PROVE PlaceTypes'
    BY <1>1 DEF Enqueue, Prune, place, time
  <1>2. ASSUME NEW i \in Invocations, Start(i)  PROVE PlaceTypes'
    BY <1>2 DEF Start, place
  <1>3. ASSUME NEW i \in Invocations, End(i)
        PROVE  /\ order' \in [Invocations -> Orders]
               /\ turn' \in [Invocations -> Nat]
               /\ round' \in [Invocations -> {"fresh", "dry", "busy"}]
    BY <1>3 DEF End
  <1>4. ASSUME NEW i \in Invocations, Snapshot(i)  PROVE PlaceTypes'
    <2>1. CASE DueTypes = {}  BY <1>3, <1>4, <2>1 DEF Snapshot, rows, time
    <2>2. CASE DueTypes # {}
      <3> DEFINE n == Cardinality(DueTypes)
      <3>1. PICK o \in [1..n -> Types] : order' = [order EXCEPT ![i] = Rotated(o, Tick(i))]
        BY <1>4, <2>2 DEF Snapshot
      <3>2. n \in Nat /\ n \in 0..Cardinality(Types)
        BY DueTypesFew, CycleAssumption, FS_CardinalityType
      <3>3. Tick(i) \in Int
        <4>1. lived[i] \in Int /\ clock \in Int  BY DEF IInv, RowTypes
        <4>2. (clock - lived[i]) % (Period * Cycle) \in Int  BY <4>1
        <4> HIDE DEF PlaceTypes
        <4> QED BY <4>2, TimeAssumption DEF Tick
      <3> HIDE DEF n
      <3>4. Rotated(o, Tick(i)) \in Orders
        <4>1. Rotated(o, Tick(i)) \in [1..n -> Types]  BY <3>2, <3>3, RotatedType
        <4>2. [1..n -> Types] \in {[1..k -> Types] : k \in 0..Cardinality(Types)}
          BY <3>2, Zenon
        <4> QED BY <4>1, <4>2, Zenon DEF Orders
      <3>5. /\ turn' = [turn EXCEPT ![i] = 1]
            /\ UNCHANGED <<wait, round, clock, fired>>
        BY <1>4, <2>2 DEF Snapshot, rows, time
      <3> QED BY <3>1, <3>4, <3>5
    <2> QED BY <2>1, <2>2
  <1>5. ASSUME NEW i \in Invocations, Claim(i)  PROVE PlaceTypes'
    BY <1>5 DEF Claim, time
  <1>6. ASSUME NEW i \in Invocations, Skip(i) \/ NextRound(i)  PROVE PlaceTypes'
    BY <1>3, <1>6 DEF Skip, NextRound, rows, time
  <1>7. ASSUME NEW i \in Invocations, Stop(i) \/ Die(i) \/ Killed(i)  PROVE PlaceTypes'
    BY <1>3, <1>7 DEF Stop, Die, Killed, rows, time
  <1>8. ASSUME NEW i \in Invocations, MarkCompleted(i)  PROVE PlaceTypes'
    BY <1>8 DEF MarkCompleted, Advance, time
  <1>9. ASSUME NEW i \in Invocations, RetryOrFail(i)  PROVE PlaceTypes'
    <2>1. Backoff(seen[i] + 1) \in Nat
      <3>1. seen[i] + 1 \in Nat  BY DEF IInv, RowTypes
      <3> QED BY <3>1 DEF Backoff, PowersAreNat
    <2>2. wait' \in [Rows -> Nat]  BY <1>9, <2>1 DEF RetryOrFail
    <2> QED BY <1>9, <2>2 DEF RetryOrFail, Advance, time
  <1>10. CASE Minute
    <2>1. wait' \in [Rows -> Nat]
      <3>1. wait' = [r \in Rows |-> IF wait[r] > 0 THEN wait[r] - 1 ELSE 0]  BY <1>10 DEF Minute
      <3> QED BY <3>1
    <2>2. clock' \in 0..(Period * Cycle - 1)
      <3>1. clock' = (clock + 1) % (Period * Cycle)  BY <1>10 DEF Minute
      <3>2. \A m \in Nat \ {0}, x \in Int : x % m \in 0..(m - 1)  OBVIOUS
      <3>3. clock + 1 \in Int  OBVIOUS
      <3> QED BY <3>1, <3>2, <3>3
    <2>3. fired' \in BOOLEAN  BY <1>10 DEF Minute
    <2> QED BY <1>10, <2>1, <2>2, <2>3 DEF Minute, place
  <1>11. CASE UNCHANGED vars  BY <1>11 DEF vars, rows, place, time
  <1> QED BY <1>1, <1>2, <1>4, <1>5, <1>6, <1>7, <1>8, <1>9, <1>10, <1>11 DEF Next, Batch

\* The variables always have their types: attempts stay within max_attempts although both the
\* sweep and the failing handler count them, an invocation within its ceiling, and a rotated
\* order within the job types.
THEOREM TypeCorrect ==
  ASSUME PowersAreNat
  PROVE  Spec => []TypeOK
  <1>1. Init => PlaceTypes
    <2>1. \A m \in Nat \ {0} : 0 \in 0..(m - 1)  OBVIOUS
    <2>2. 0 \in 0..(Period * Cycle - 1)  BY <2>1, CycleIsPositive
    <2> SUFFICES ASSUME Init PROVE PlaceTypes
      OBVIOUS
    <2>3. clock \in 0..(Period * Cycle - 1)  BY <2>2 DEF Init
    <2>4. order \in [Invocations -> Orders]  BY NoOrderType DEF Init
    <2>5. /\ wait \in [Rows -> Nat] /\ turn \in [Invocations -> Nat]
          /\ round \in [Invocations -> {"fresh", "dry", "busy"}] /\ fired \in BOOLEAN
      BY DEF Init
    <2> QED BY <2>3, <2>4, <2>5 DEF PlaceTypes
  <1>2. IInv /\ PlaceTypes => TypeOK  BY DEF IInv, RowTypes, PlaceTypes, TypeOK
  <1> QED BY <1>1, <1>2, InitIInv, StepIInv, StepPlace, PTL DEF Spec
=============================================================================
