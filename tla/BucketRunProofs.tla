-------------------------- MODULE BucketRunProofs --------------------------
(***************************************************************************)
(* What holds of BucketRun for every value of its constants: any set of    *)
(* operations and timestamps, any bound on jobs and faults, every kind of  *)
(* fault.                                                                  *)
(***************************************************************************)
EXTENDS BucketRun, JournalProofs, RecordProofs, SequenceTheorems

\* The counter a run starts from is zero or the counter of some record.
LEMMA SeedFailuresIsRecorded ==
  ASSUME NEW records, IsFiniteSet(DOMAIN records),
         \A j \in DOMAIN records : records[j].failures \in Nat
  PROVE  \/ SeedFailures(records) = 0
         \/ \E j \in DOMAIN records : SeedFailures(records) = records[j].failures
<1> DEFINE newest == {j \in DOMAIN records :
                        \A k \in DOMAIN records : records[k].at <= records[j].at}
           counts == {records[j].failures : j \in newest}
<1>1. CASE newest = {}
  BY <1>1 DEF SeedFailures
<1>2. CASE newest # {}
  <2>1. IsFiniteSet(newest)
    BY FS_Subset
  <2>2. IsFiniteSet(counts)
    <3> DEFINE counter == [j \in DOMAIN records |-> records[j].failures]
    <3>1. counts = {counter[j] : j \in newest}
      OBVIOUS
    <3>2. newest \in SUBSET DOMAIN counter
      OBVIOUS
    <3> HIDE DEF newest, counter, counts
    <3>3. IsFiniteSet({counter[j] : j \in newest})
      BY <2>1, <3>2, ImageFinite
    <3> QED BY <3>1, <3>3
  <2>3. counts \in SUBSET Nat /\ counts # {}
    BY <1>2
  <2>4. \E n \in counts : \A m \in counts : m <= n
    <3> HIDE DEF counts
    <3> QED BY <2>2, <2>3, GreatestExists
  <2>5. \E n \in counts : \A j \in newest : records[j].failures <= n
    BY <2>4
  <2>6. SeedFailures(records) \in counts
    BY <1>2, <2>5 DEF SeedFailures
  <2> QED BY <2>6
<1> QED BY <1>1, <1>2

\* The recovery plan of well-formed records: its counter is a natural number,
\* its rollback target the start of some job.
LEMMA PlanRecoveryType ==
  ASSUME NEW records, IsFiniteSet(DOMAIN records),
         \A j \in DOMAIN records : records[j].failures \in Nat /\ records[j].low \in Nat,
         NEW outcomes, DOMAIN outcomes \subseteq DOMAIN records
  PROVE  LET plan == PlanRecovery(records, outcomes)
         IN  /\ plan.failures \in Nat
             /\ plan.rollback \in Nat \cup {NoRollback}
<1>1. SeedFailures(records) \in Nat
  BY SeedFailuresIsRecorded
<1>2. ConsolidatedFailures(records, outcomes) \in Nat
  BY <1>1 DEF ConsolidatedFailures
<1>3. RollbackTarget(records, outcomes) \in Nat \cup {NoRollback}
  <2> DEFINE lows == {records[j].low : j \in FailedIn(outcomes)} \ {0}
  <2>1. lows \in SUBSET Nat
    BY DEF FailedIn
  <2>2. CASE lows = {}
    BY <2>2 DEF RollbackTarget
  <2>3. CASE lows # {}
    <3>1. \E w \in lows : \A x \in lows : w <= x
      <4> HIDE DEF lows
      <4> QED BY <2>1, <2>3, LeastExists
    <3> QED BY <2>1, <2>3, <3>1 DEF RollbackTarget
  <2> QED BY <2>2, <2>3
<1> QED BY <1>2, <1>3 DEF PlanRecovery

\* A run that does not disable the bucket goes on with a counter below the
\* threshold, provided every record it read holds one.
LEMMA PlanRecoveryBelowThreshold ==
  ASSUME NEW records, IsFiniteSet(DOMAIN records),
         \A j \in DOMAIN records : /\ records[j].failures \in Nat
                                   /\ records[j].failures < FailureThreshold,
         NEW outcomes,
         LET plan == PlanRecovery(records, outcomes)
         IN  ~ (FailedIn(outcomes) # {} /\ plan.disable)
  PROVE  PlanRecovery(records, outcomes).failures < FailureThreshold
<1>1. SeedFailures(records) \in Nat /\ SeedFailures(records) < FailureThreshold
  BY SeedFailuresIsRecorded, RecoveryAssumption
<1>2. ConsolidatedFailures(records, outcomes) \in Nat
  BY <1>1 DEF ConsolidatedFailures
<1>3. CASE FailedIn(outcomes) # {}
  <2>1. ~ (ConsolidatedFailures(records, outcomes) >= FailureThreshold)
    BY <1>3 DEF PlanRecovery
  <2>2. ConsolidatedFailures(records, outcomes) < FailureThreshold
    BY <1>2, <2>1, RecoveryAssumption
  <2> QED BY <2>2 DEF PlanRecovery
<1>4. CASE FailedIn(outcomes) = {}
  <2>1. ConsolidatedFailures(records, outcomes) < FailureThreshold
    BY <1>1, <1>4, RecoveryAssumption DEF ConsolidatedFailures
  <2> QED BY <2>1 DEF PlanRecovery
<1> QED BY <1>3, <1>4

-----------------------------------------------------------------------------
\* The record maps as a set, and TypeOK over it.
RecordMaps == UNION {[ids -> SubmissionRecord] : ids \in SUBSET JobIds}
StateObject == StateObjects(RecordMaps)
RunMemory == RunMemories(RecordMaps)

Typed ==
    /\ journal \subseteq Op
    /\ jobs \in Seq(Job) /\ Len(jobs) <= MaxJobs
    /\ state \in StateObject
    /\ fresh \in BOOLEAN
    /\ run \in RunMemory
    /\ pc \in Steps
    /\ checking \in JobIds \cup {NoJob}
    /\ faults \in Nat

\* What a run holds in memory fits together: it describes and scores jobs of
\* the records it read, and it records only a job it has created.
MemoryCoherent ==
    /\ run.todo \subseteq DOMAIN run.records
    /\ run.scoring \subseteq DOMAIN run.records
    /\ pc \in {"merge", "unalert", "diagnose"} => run.job \in DOMAIN run.records
    /\ pc = "persist" => run.submitted # NoJob

TypeInv == Typed /\ MemoryCoherent

USE DEF JobIds, NoJob, StateObjects, RunMemories

-----------------------------------------------------------------------------
\* A record map is a function from job ids to records.
LEMMA RecordMapsAre ==
  ASSUME NEW f
  PROVE  f \in RecordMaps
           <=> DOMAIN f \subseteq JobIds /\ f \in [DOMAIN f -> SubmissionRecord]
BY DEF RecordMaps

\* A bucket stores finitely many submission records.
LEMMA RecordMapFinite ==
  ASSUME NEW f \in RecordMaps
  PROVE  IsFiniteSet(DOMAIN f)
<1>1. IsFiniteSet(1..MaxJobs)
  BY BucketRunAssumption, FS_Interval
<1> QED BY <1>1, RecordMapsAre, FS_Subset

\* The oldest of a non-empty set of jobs is one of them.
LEMMA FirstIsMember ==
  ASSUME NEW ids \in SUBSET JobIds, ids # {}
  PROVE  First(ids) \in ids
<1>1. \E j \in ids : \A k \in ids : j <= k
  BY LeastExists
<1> QED BY <1>1 DEF First

\* After an attempted PUT the object is what it was or what was put.
LEMMA AttemptWrites ==
  ASSUME Typed
  PROVE  \A next \in StateObject : Attempt(next) =>
           /\ state' \in StateObject /\ state' \in {state, next}
           /\ fresh' \in BOOLEAN
           /\ faults' \in Nat
<1>1. ASSUME NEW next \in StateObject, Attempt(next)
      PROVE  state' \in {state, next} /\ fresh' \in BOOLEAN /\ faults' \in Nat
  <2> USE <1>1 DEF Typed, Attempt, Put, PutRaises, Rejected, Unsent, Unheard, Fault, NoFault
  <2>1. state' \in {state, next}
    OBVIOUS
  <2>2. fresh' \in BOOLEAN
    BY Zenon
  <2>3. faults' \in Nat
    OBVIOUS
  <2> QED BY <2>1, <2>2, <2>3
<1> QED BY <1>1 DEF Typed

\* A run that has not bounded a read holds an empty query.
LEMMA NoQueryTyped == NoQuery \in Queries
BY DEF NoQuery, Queries, Epoch, NoBound

\* The empty state object and an idle run satisfy the type invariant.
LEMMA TypeInit == Init => TypeInv
<1>1. EmptyCheckpoint \in Checkpoints
  BY DEF EmptyCheckpoint, Checkpoints, Epoch, NoLease
<1>2. NoRecords \in RecordMaps /\ DOMAIN NoRecords = {}
  BY RecordMapsAre DEF NoRecords
<1>3. EmptyState \in StateObject
  BY <1>1, <1>2 DEF EmptyState, StateObject
<1>4. NoRun \in RunMemory /\ NoRun.todo = {} /\ NoRun.scoring = {}
  BY <1>1, <1>2, NoQueryTyped DEF NoRun, RunMemory, Epoch
<1>5. <<>> \in Seq(Job) /\ Len(<<>>) <= MaxJobs
  BY BucketRunAssumption
<1> QED BY <1>3, <1>4, <1>5 DEF Init, TypeInv, Typed, MemoryCoherent, Steps

\* The memory of a run that has not read anything, and the records of an empty
\* state object, are well formed and hold nothing.
LEMMA NoRunTyped ==
  /\ NoRun \in RunMemory
  /\ NoRun.todo = {} /\ NoRun.scoring = {} /\ NoRun.records = NoRecords
  /\ NoRecords \in RecordMaps /\ DOMAIN NoRecords = {}
<1>1. EmptyCheckpoint \in Checkpoints
  BY DEF EmptyCheckpoint, Checkpoints, Epoch, NoLease
<1>2. NoRecords \in RecordMaps /\ DOMAIN NoRecords = {}
  BY RecordMapsAre DEF NoRecords
<1> QED BY <1>1, <1>2, NoQueryTyped DEF NoRun, RunMemory, Epoch

-----------------------------------------------------------------------------
\* One lemma for each group of steps: they keep the types and the coherence.
LEMMA BeginType ==
  ASSUME TypeInv, StartRun \/ StartRunBlind PROVE TypeInv'
<1> USE NoRunTyped DEF TypeInv, Typed
<1>1. PICK records \in RecordMaps :
        Begin(records) /\ (NoFault \/ Fault("records"))
  BY DEF StartRun, StartRunBlind, StateObject
<1>2. DOMAIN records \subseteq JobIds
  BY RecordMapsAre
<1>3. run' = [NoRun EXCEPT !.cp = state.cp, !.records = records,
                           !.todo = DOMAIN records]
  BY <1>1 DEF Begin
<1>4. run' \in RunMemory /\ run'.todo = DOMAIN run'.records /\ run'.scoring = {}
  BY <1>2, <1>3 DEF RunMemory, StateObject
<1>5. faults' \in Nat
  BY <1>1 DEF Fault, NoFault
<1> QED BY <1>1, <1>4, <1>5 DEF Begin, GoTo, Steps, MemoryCoherent

\* Describing the outstanding jobs sorts the ones the run read into running,
\* aged out and terminal, and invents none (_describe_prior_jobs).
LEMMA DescribeType ==
  ASSUME TypeInv,
         \/ DescribeOutstanding \/ DescribeAgedOut
         \/ \E readable \in BOOLEAN : DescribeTerminal(readable)
  PROVE  TypeInv'
<1> USE DEF TypeInv, Typed
<1>1. run.todo # {} /\ UNCHANGED <<journal, jobs, state, fresh, checking>>
  BY DEF DescribeOutstanding, DescribeAgedOut, DescribeTerminal
<1>2. First(run.todo) \in run.todo /\ First(run.todo) \in JobIds
  BY <1>1, FirstIsMember DEF RunMemory
<1>3. faults' \in Nat
  <2>1. NoFault \/ \E kind \in FaultKinds : Fault(kind)
    BY BucketRunAssumption
       DEF DescribeOutstanding, DescribeAgedOut, DescribeTerminal, FaultKinds
  <2> QED BY <2>1 DEF NoFault, Fault
<1>4. CASE DescribeOutstanding \/ DescribeAgedOut
  <2> DEFINE j == First(run.todo)
  <2>1. pc' = pc /\ pc = "describe"
    BY <1>4 DEF DescribeOutstanding, DescribeAgedOut
  <2>3. \/ run' = [run EXCEPT !.todo = @ \ {j}, !.outstanding = @ \cup {j}]
        \/ run' = [run EXCEPT !.todo = @ \ {j}]
    <3>1. CASE DescribeOutstanding
      BY <3>1 DEF DescribeOutstanding
    <3>2. CASE DescribeAgedOut
      BY <3>2 DEF DescribeAgedOut
    <3> QED BY <1>4, <3>1, <3>2
  <2>4. run' \in RunMemory
    <3>1. j \in JobIds /\ run \in RunMemory
      BY <1>2
    <3> HIDE DEF j, TypeInv, Typed
    <3>2. [run EXCEPT !.todo = @ \ {j}] \in RunMemory
      BY <3>1 DEF RunMemory
    <3>3. [run EXCEPT !.todo = @ \ {j}, !.outstanding = @ \cup {j}] \in RunMemory
      BY <3>1 DEF RunMemory
    <3> QED BY <2>3, <3>2, <3>3
  <2>2. /\ run'.todo \subseteq run.todo /\ run'.scoring = run.scoring
        /\ run'.records = run.records
    BY <2>3 DEF RunMemory
  <2> QED BY <1>1, <1>3, <2>1, <2>2, <2>4 DEF MemoryCoherent
<1>5. ASSUME NEW readable \in BOOLEAN, DescribeTerminal(readable)
      PROVE  TypeInv'
  <2> DEFINE j == First(run.todo)
             scoring == IF run.records[j].scored THEN run.scoring
                                                 ELSE run.scoring \cup {j}
  <2>4. /\ run' = [run EXCEPT !.todo = @ \ {j}, !.job = j, !.readable = readable,
                              !.terminal = @ \cup {j}, !.scoring = scoring]
        /\ pc' = "merge"
    BY <1>5 DEF DescribeTerminal, GoTo
  <2>5. run \in RunMemory /\ j \in JobIds
    BY <1>2
  <2>6. scoring \in SUBSET JobIds
    BY <2>5 DEF RunMemory
  <2>1. run' \in RunMemory /\ pc' = "merge"
    <3> HIDE DEF j, scoring, TypeInv, Typed
    <3> QED BY <1>5, <2>4, <2>5, <2>6 DEF RunMemory
  <2>2. /\ run'.todo \subseteq run.todo /\ run'.records = run.records
        /\ run'.scoring \subseteq run.scoring \cup {First(run.todo)}
    BY <1>2, <1>5 DEF DescribeTerminal, RunMemory
  <2>3. run'.job = First(run.todo)
    BY <1>5 DEF DescribeTerminal, RunMemory
  <2> QED BY <1>1, <1>2, <1>3, <2>1, <2>2, <2>3 DEF MemoryCoherent, Steps
<1> QED BY <1>4, <1>5

\* The steps that put the object and leave memory alone but for the job at hand.
LEMMA MarksTyped ==
  ASSUME Typed, NEW j \in JobIds
  PROVE  MarkedDiagnosed(j) \in StateObject /\ MarkedScored(j) \in StateObject
<1> USE DEF Typed, StateObject
<1>1. CASE j \notin DOMAIN state.records
  BY <1>1 DEF MarkedDiagnosed, MarkedScored
<1>2. CASE j \in DOMAIN state.records
  <2>1. /\ DOMAIN state.records \subseteq JobIds
        /\ state.records \in [DOMAIN state.records -> SubmissionRecord]
    BY RecordMapsAre
  <2>2. ASSUME NEW f, DOMAIN f = DOMAIN state.records,
               f \in [DOMAIN state.records -> SubmissionRecord]
        PROVE  f \in RecordMaps
    BY <2>1, <2>2, RecordMapsAre
  <2>5. state.records[j] \in SubmissionRecord
    BY <1>2, <2>1
  <2>6. /\ [state.records[j] EXCEPT !.diagnosed = TRUE] \in SubmissionRecord
        /\ [state.records[j] EXCEPT !.scored = TRUE] \in SubmissionRecord
    BY <2>5 DEF SubmissionRecord
  <2>7. ASSUME NEW r \in SubmissionRecord
        PROVE  [state.records EXCEPT ![j] = r] \in RecordMaps
    <3> DEFINE f == [state.records EXCEPT ![j] = r]
    <3>1. DOMAIN f = DOMAIN state.records
          /\ f \in [DOMAIN state.records -> SubmissionRecord]
      BY <1>2, <2>1, <2>7
    <3> HIDE DEF f
    <3>2. f \in RecordMaps
      BY <2>2, <3>1
    <3> QED BY <3>2 DEF f
  <2>3. [state.records EXCEPT ![j].diagnosed = TRUE] \in RecordMaps
    BY <2>6, <2>7
  <2>4. [state.records EXCEPT ![j].scored = TRUE] \in RecordMaps
    BY <2>6, <2>7
  <2> QED BY <1>2, <2>3, <2>4 DEF MarkedDiagnosed, MarkedScored
<1> QED BY <1>1, <1>2

\* The steps on a terminal job's report work on the job at hand, which is one
\* the run read (_describe_prior_jobs).
LEMMA ReportStepsType ==
  ASSUME TypeInv, MergeReport \/ ClearAlert \/ DiagnoseReport
  PROVE  TypeInv'
<1> USE DEF TypeInv, Typed
<1> DEFINE j == run.job
<1>0. j \in DOMAIN run.records /\ j \in JobIds
  BY RecordMapsAre
     DEF MemoryCoherent, MergeReport, ClearAlert, DiagnoseReport, RunMemory
<1>1. /\ run' \in RunMemory
      /\ run'.todo = run.todo /\ run'.scoring = run.scoring
      /\ run'.records = run.records
      /\ pc' \in {"merge", "unalert", "diagnose"} => run'.job = run.job
  BY DEF MergeReport, ClearAlert, DiagnoseReport, RunMemory, GoTo
<1>2. pc' \in Steps \ {"persist"} /\ UNCHANGED <<journal, jobs, checking>>
  BY DEF MergeReport, ClearAlert, DiagnoseReport, GoTo, Steps
<1>3. CASE UNCHANGED <<state, fresh>> /\ NoFault
  BY <1>0, <1>1, <1>2, <1>3 DEF NoFault, MemoryCoherent
<1>4. CASE \E next \in StateObject : Attempt(next)
  <2>1. state' \in StateObject /\ fresh' \in BOOLEAN /\ faults' \in Nat
    BY <1>4, AttemptWrites
  <2> QED BY <1>0, <1>1, <1>2, <2>1 DEF MemoryCoherent
<1>5. MergeReport => \/ UNCHANGED <<state, fresh>> /\ NoFault
                     \/ \E next \in StateObject : Attempt(next)
  <2>1. [state EXCEPT !.processed = @ \cup {run.job}] \in StateObject
    BY <1>0 DEF StateObject
  <2> QED BY <2>1 DEF MergeReport, Attempt
<1>6. ClearAlert => \/ UNCHANGED <<state, fresh>> /\ NoFault
                    \/ \E next \in StateObject : Attempt(next)
  <2>1. [state EXCEPT !.alerted = @ \ {run.job}] \in StateObject
    BY DEF StateObject
  <2> QED BY <2>1 DEF ClearAlert
<1>7. DiagnoseReport => \/ UNCHANGED <<state, fresh>> /\ NoFault
                        \/ \E next \in StateObject : Attempt(next)
  BY <1>0, MarksTyped DEF DiagnoseReport
<1> QED BY <1>3, <1>4, <1>5, <1>6, <1>7

-----------------------------------------------------------------------------
\* A run that ends leaves nothing in memory.
LEMMA EndRunTyped ==
  ASSUME EndRun
  PROVE  run' \in RunMemory /\ pc' \in Steps /\ MemoryCoherent'
BY NoRunTyped DEF EndRun, GoTo, Steps, MemoryCoherent

\* The plan is made from records the run read and outcomes of some of them.
LEMMA PlanTyped ==
  ASSUME TypeInv
  PROVE  Plan.failures \in Nat /\ Plan.rollback \in Nat \cup {NoRollback}
<1>1. run.records \in RecordMaps /\ run.scoring \subseteq DOMAIN run.records
  BY DEF TypeInv, Typed, MemoryCoherent, RunMemory
<1>2. IsFiniteSet(DOMAIN run.records)
  BY <1>1, RecordMapFinite
<1>3. \A j \in DOMAIN run.records :
        run.records[j].failures \in Nat /\ run.records[j].low \in Nat
  BY <1>1, RecordMapsAre DEF SubmissionRecord
<1>4. DOMAIN Outcomes \subseteq DOMAIN run.records
  BY <1>1 DEF Outcomes
<1> QED BY <1>2, <1>3, <1>4, PlanRecoveryType DEF Plan

\* A disabled bucket has a well-formed state object (disable_bucket).
LEMMA DisabledTyped ==
  ASSUME Typed PROVE Disabled \in StateObject
BY NoRunTyped DEF Typed, Disabled, StateObject

\* Applying the recovery plan keeps the types: the rolled-back checkpoint is a
\* checkpoint, the seeded counter a number (_apply_recovery_plan).
LEMMA RecoveryType ==
  ASSUME TypeInv, TripBreaker \/ Recover \/ DisableBucket \/ DisableLeased
  PROVE  TypeInv'
<1>1. CASE TripBreaker
  BY <1>1 DEF TripBreaker, GoTo, NoFault, Steps, TypeInv, Typed, MemoryCoherent
<1>2. CASE Recover
  <2>1. UNCHANGED <<journal, jobs, state, fresh, checking, faults>>
    BY <1>2 DEF Recover, NoFault
  <2>2. CASE EndRun
    BY <2>1, <2>2, EndRunTyped DEF TypeInv, Typed
  <2>3. CASE ~ EndRun
    <3> DEFINE cp == RolledBack
               next == [run EXCEPT !.failures = Plan.failures, !.cp = cp]
    <3>1. pc' = "count" /\ run' = next
      BY <1>2, <2>3 DEF Recover, GoTo
    <3>2. run \in RunMemory
      BY DEF TypeInv, Typed
    <3>3. cp \in Checkpoints
      BY <3>2, PlanTyped DEF RunMemory, RolledBack, RollBackTo, Checkpoints
    <3> HIDE DEF cp
    <3>4. next \in RunMemory /\ next.todo = run.todo
          /\ next.scoring = run.scoring /\ next.records = run.records
      BY <3>2, <3>3, PlanTyped DEF RunMemory
    <3> HIDE DEF next
    <3> QED BY <2>1, <3>1, <3>4 DEF TypeInv, Typed, MemoryCoherent, Steps
  <2> QED BY <2>2, <2>3
<1>3. CASE DisableBucket \/ DisableLeased
  <2>1. state' \in StateObject /\ fresh' \in BOOLEAN /\ faults' \in Nat
    BY <1>3, DisabledTyped, AttemptWrites
       DEF DisableBucket, DisableLeased, TypeInv
  <2> QED BY <1>3, <2>1
          DEF DisableBucket, DisableLeased, GoTo, Steps, TypeInv, Typed, MemoryCoherent
<1> QED BY <1>1, <1>2, <1>3

-----------------------------------------------------------------------------
\* The count of the tail is a number, or the assumed one (_count_lookback_tail).
LEMMA CountTailIs ==
  ASSUME Typed, CountTail
  PROVE  \E n \in Nat, assumed \in BOOLEAN :
           /\ run' = [run EXCEPT !.query = [run.query EXCEPT !.seen = journal, !.tail = n,
                                                            !.assumed = assumed]]
           /\ IF assumed THEN n = FullTail
                         ELSE n = Cardinality(TailRows(journal, run.cp.watermark))
           /\ faults' \in Nat
<1> DEFINE counted == Cardinality(TailRows(journal, run.cp.watermark))
<1>1. counted \in Nat /\ FullTail \in Nat
  BY CheckpointAssumption, RowCapAssumption, FS_Subset, FS_CardinalityType
     DEF Typed, TailRows, RowsIn, FullTail
<1>2. \/ /\ run' = [run EXCEPT !.query = [run.query EXCEPT !.seen = journal,
                                                          !.tail = counted,
                                                          !.assumed = FALSE]]
         /\ NoFault
      \/ /\ run' = [run EXCEPT !.query = [run.query EXCEPT !.seen = journal,
                                                          !.tail = FullTail,
                                                          !.assumed = TRUE]]
         /\ Fault("count")
  BY DEF CountTail
<1>3. faults' \in Nat
  BY <1>2 DEF NoFault, Fault, Typed
<1> QED BY <1>1, <1>2, <1>3

\* Bounding the read fills the query and changes nothing else, one step after
\* the other (_read_journal_window).
LEMMA BoundReadIs ==
  ASSUME Typed, BoundRead
  PROVE  /\ UNCHANGED <<journal, jobs, state, fresh, checking>> /\ faults' \in Nat
         /\ \E q \in Queries : run' = [run EXCEPT !.query = q]
         /\ pc \in {"count", "boundary", "floor"}
         /\ pc' \in {"boundary", "floor", "read"}
<1> DEFINE w == run.cp.watermark
<1>1. /\ journal \in SUBSET Op /\ w \in Nat /\ run \in RunMemory /\ run.query \in Queries
      /\ run.query.tail \in Nat
  BY DEF Typed, RunMemory, Checkpoints, Queries
<1>2. CASE CountTail
  <2>1. PICK n \in Nat, assumed \in BOOLEAN :
          /\ run' = [run EXCEPT !.query = [run.query EXCEPT !.seen = journal, !.tail = n,
                                                           !.assumed = assumed]]
          /\ faults' \in Nat
    BY <1>2, CountTailIs
  <2>2. [run.query EXCEPT !.seen = journal, !.tail = n, !.assumed = assumed] \in Queries
    BY <1>1 DEF Queries
  <2> QED BY <1>2, <2>1, <2>2 DEF CountTail, GoTo
<1>3. CASE FindBoundary
  <2> DEFINE until == RowCountBoundary(journal, w, NewRowBudget(run.query.tail))
  <2>1. until \in Nat \cup {NoBound} /\ WindowStart(w) \in Nat
    BY <1>1, BudgetFitsCap, BoundaryType, WindowStartMonotone
  <2>2. run' = [run EXCEPT !.query = [@ EXCEPT !.since = WindowStart(w), !.until = until]]
    BY <1>3 DEF FindBoundary
  <2> HIDE DEF until
  <2>3. [run.query EXCEPT !.since = WindowStart(w), !.until = until] \in Queries
    BY <1>1, <2>1 DEF Queries
  <2> QED BY <1>3, <2>2, <2>3 DEF FindBoundary, NoFault, GoTo, Typed
<1>4. CASE FindFloor
  <2> DEFINE since == TailFloor(journal, w, TailAllowance(run.query.tail))
  <2>1. since \in Nat
    BY <1>1, BudgetFitsCap, FloorBudget
  <2>2. run' = [run EXCEPT !.query = [@ EXCEPT !.since = since]]
    BY <1>4 DEF FindFloor
  <2> HIDE DEF since
  <2>3. [run.query EXCEPT !.since = since] \in Queries
    BY <1>1, <2>1 DEF Queries
  <2> QED BY <1>4, <2>2, <2>3 DEF FindFloor, NoFault, GoTo, Typed
<1> QED BY <1>2, <1>3, <1>4 DEF BoundRead

\* A run that takes up rows has the eligible ones that match in its batch.
LEMMA TakeUpTakes ==
  ASSUME run \in RunMemory, NEW rows, TakeUp(rows), ~ EndRun
  PROVE  /\ run'.batch = {o \in rows : IsEligible(o, run.cp)} \cap Matching
         /\ run'.scoring = run.scoring
<1> DEFINE eligible == {o \in rows : IsEligible(o, run.cp)}
           next     == [run EXCEPT !.candidate = HighWater(eligible),
                                   !.batch = eligible \cap Matching, !.query = NoQuery]
<1>1. run' = next
  BY DEF TakeUp
<1>2. next.batch = eligible \cap Matching /\ next.scoring = run.scoring
  BY DEF RunMemory
<1> QED BY <1>1, <1>2

\* The journal read gives the run a batch of operations and a candidate
\* watermark that is the time of one of them (_read_journal_window).
LEMMA ReadType ==
  ASSUME TypeInv, BoundRead \/ ReadJournal \/ ReadFails PROVE TypeInv'
<1>1. CASE BoundRead
  <2>1. PICK q \in Queries : run' = [run EXCEPT !.query = q]
    BY <1>1, BoundReadIs DEF TypeInv
  <2>2. run' \in RunMemory /\ run'.todo = run.todo
        /\ run'.scoring = run.scoring /\ run'.records = run.records
    BY <2>1 DEF RunMemory, TypeInv, Typed
  <2>3. /\ UNCHANGED <<journal, jobs, state, fresh, checking>> /\ faults' \in Nat
        /\ pc' \in {"boundary", "floor", "read"}
    BY <1>1, BoundReadIs DEF TypeInv
  <2> QED BY <2>2, <2>3 DEF TypeInv, Typed, MemoryCoherent, Steps
<1>2. ASSUME ReadJournal \/ ReadFails PROVE TypeInv'
  <2>1. UNCHANGED <<journal, jobs, state, fresh, checking>> /\ faults' \in Nat
    BY <1>2 DEF ReadJournal, ReadFails, NoFault, Fault, TypeInv, Typed
  <2>2. CASE EndRun
    BY <2>1, <2>2, EndRunTyped DEF TypeInv, Typed
  <2>3. CASE ~ EndRun
    <3>1. PICK rows \in SUBSET journal : TakeUp(rows)
      BY <1>2, <2>3 DEF ReadJournal, ReadFails, RowsRead, RowsUpTo
    <3> DEFINE eligible == {o \in rows : IsEligible(o, run.cp)}
               next == [run EXCEPT !.candidate = HighWater(eligible),
                                   !.batch = eligible \cap Matching,
                                   !.query = NoQuery]
    <3>2. eligible # {} /\ run' = next /\ pc' = "acquire"
      BY <2>3, <3>1 DEF TakeUp, GoTo
    <3>3. eligible \in SUBSET Op
      BY DEF TypeInv, Typed
    <3> HIDE DEF eligible
    <3>4. HighWater(eligible) \in Nat
      BY <3>2, <3>3, HighWaterIsATime
    <3>5. run \in RunMemory
      BY DEF TypeInv, Typed
    <3>6. next \in RunMemory /\ next.todo = run.todo
          /\ next.scoring = run.scoring /\ next.records = run.records
      BY <3>3, <3>4, <3>5, NoQueryTyped DEF RunMemory
    <3> HIDE DEF next
    <3> QED BY <2>1, <3>2, <3>6 DEF TypeInv, Typed, MemoryCoherent, Steps
  <2> QED BY <2>2, <2>3
<1> QED BY <1>1, <1>2

\* The lease is stored over a checkpoint that is otherwise the same
\* (acquire_lease).
LEMMA AcquireType ==
  ASSUME TypeInv, AcquireLease PROVE TypeInv'
<1> DEFINE leased == [state EXCEPT !.cp.lease = run.candidate]
<1>1. leased \in StateObject
  BY DEF TypeInv, Typed, StateObject, RunMemory, Checkpoints
<1>2. UNCHANGED <<journal, jobs, checking>> /\ Attempt(leased)
  BY DEF AcquireLease, Attempt
<1>3. (GoTo("build") /\ UNCHANGED run) \/ EndRun
  BY DEF AcquireLease
<1> HIDE DEF leased
<1>4. state' \in StateObject /\ fresh' \in BOOLEAN /\ faults' \in Nat
  BY <1>1, <1>2, AttemptWrites DEF TypeInv
<1>5. run' \in RunMemory /\ pc' \in Steps /\ MemoryCoherent'
  BY <1>3, EndRunTyped DEF GoTo, Steps, TypeInv, Typed, MemoryCoherent
<1> QED BY <1>2, <1>4, <1>5 DEF TypeInv, Typed

\* A created job has the next id and the run's batch (submit_batch_job).
LEMMA CreateJobTyped ==
  ASSUME TypeInv, CreateJob
  PROVE  /\ jobs' \in Seq(Job) /\ Len(jobs') <= MaxJobs
         /\ Len(jobs) + 1 \in JobIds
<1> DEFINE job == [status |-> "Active", ops |-> run.batch, low |-> run.cp.watermark]
<1>1. job \in Job
  BY DEF TypeInv, Typed, RunMemory, Checkpoints, Job, JobStatus
<1>2. jobs \in Seq(Job) /\ Len(jobs) \in Nat /\ Len(jobs) < MaxJobs
  BY LenProperties DEF TypeInv, Typed, CreateJob
<1>3. jobs' = Append(jobs, job)
  BY DEF CreateJob
<1> HIDE DEF job
<1>4. jobs' \in Seq(Job) /\ Len(jobs') = Len(jobs) + 1
  BY <1>1, <1>2, <1>3, AppendProperties
<1> QED BY <1>2, <1>4, BucketRunAssumption

\* Building the manifest and submitting change the jobs and the run's memory
\* only (_build_manifest, _submit_job).
LEMMA SubmitType ==
  ASSUME TypeInv, BuildManifest \/ SubmitJob \/ SubmitFails PROVE TypeInv'
<1>1. CASE BuildManifest
  BY <1>1 DEF BuildManifest, NoFault, Fault, GoTo, Steps, TypeInv, Typed, MemoryCoherent
<1>2. CASE SubmitJob
  <2> DEFINE next == [run EXCEPT !.submitted = Len(jobs) + 1]
  <2>1. CreateJob /\ run' = next /\ pc' = "clear"
        /\ UNCHANGED <<journal, state, fresh, checking, faults>>
    BY <1>2 DEF SubmitJob, GoTo, NoFault
  <2>2. run \in RunMemory
    BY DEF TypeInv, Typed
  <2>3. next \in RunMemory /\ next.todo = run.todo
        /\ next.scoring = run.scoring /\ next.records = run.records
    BY <2>1, <2>2, CreateJobTyped DEF RunMemory
  <2> HIDE DEF next
  <2> QED BY <2>1, <2>3, CreateJobTyped DEF TypeInv, Typed, MemoryCoherent, Steps
<1>3. CASE SubmitFails
  <2>1. jobs' \in Seq(Job) /\ Len(jobs') <= MaxJobs
    BY <1>3, CreateJobTyped DEF SubmitFails, TypeInv, Typed
  <2> QED BY <1>3, <2>1
          DEF SubmitFails, Fault, GoTo, Steps, TypeInv, Typed, MemoryCoherent
<1> QED BY <1>1, <1>2, <1>3

\* Clearing and escalating the failure streak touch nothing but the streak
\* (clear_submission_failure_streak, _escalate_submission_failure).
LEMMA StreakType ==
  ASSUME TypeInv, ClearStreak \/ Escalate PROVE TypeInv'
<1>1. /\ [state EXCEPT !.streak = 0] \in StateObject
      /\ [state EXCEPT !.streak = @ + 1] \in StateObject
  BY DEF TypeInv, Typed, StateObject
<1>2. \E next \in StateObject : Attempt(next)
  BY <1>1 DEF ClearStreak, Escalate, Attempt
<1>3. state' \in StateObject /\ fresh' \in BOOLEAN /\ faults' \in Nat
  BY <1>2, AttemptWrites DEF TypeInv
<1>4. pc' \in {"release", "disableLeased"} /\ UNCHANGED <<journal, jobs, run, checking>>
  BY DEF ClearStreak, Escalate, GoTo
<1> QED BY <1>3, <1>4 DEF Steps, TypeInv, Typed, MemoryCoherent

\* The release recomputes the checkpoint from the stored one and keeps it a
\* checkpoint (release_lease).
LEMMA ReleaseType ==
  ASSUME TypeInv, ReleaseLease PROVE TypeInv'
<1>1. Released \in StateObject
  <2> DEFINE refs == IF run.submitted = NoJob THEN {} ELSE run.batch
  <2>1. /\ state \in StateObject /\ state.cp \in Checkpoints
        /\ refs \in SUBSET Op /\ run.candidate \in Nat
    BY DEF TypeInv, Typed, StateObject, RunMemory
  <2>2. AdvanceCheckpoint(state.cp, refs, run.candidate) \in Checkpoints
    BY <2>1, AdvanceCheckpointMonotone
  <2> QED BY <2>1, <2>2 DEF Released, StateObject
<1>2. Attempt(Released) /\ UNCHANGED <<journal, jobs, checking>>
  BY DEF ReleaseLease, Attempt
<1>3. state' \in StateObject /\ fresh' \in BOOLEAN /\ faults' \in Nat
  BY <1>1, <1>2, AttemptWrites DEF TypeInv
<1>4. \/ EndRun
      \/ run.submitted # NoJob /\ pc' \in {"persist", "mark"} /\ UNCHANGED run
  BY DEF ReleaseLease, GoTo
<1>5. run' \in RunMemory /\ pc' \in Steps /\ MemoryCoherent'
  BY <1>4, EndRunTyped DEF Steps, TypeInv, Typed, MemoryCoherent
<1> QED BY <1>2, <1>3, <1>5 DEF TypeInv, Typed

\* A persisted submission leaves a map of records, its own job's among them.
LEMMA RecordedTyped ==
  ASSUME TypeInv, run.submitted # NoJob
  PROVE  Recorded \in StateObject
<1> DEFINE record  == [failures |-> run.failures, at |-> run.submitted,
                       low |-> run.cp.watermark,
                       diagnosed |-> FALSE, scored |-> FALSE]
           next    == RecordSubmission(state.records, run.submitted, record,
                                       run.terminal, state.processed)
<1>1. state \in StateObject /\ run \in RunMemory /\ run.submitted \in JobIds
  BY DEF TypeInv, Typed, RunMemory
<1>2. record \in SubmissionRecord
  BY <1>1 DEF SubmissionRecord, RunMemory, Checkpoints
<1>3. /\ DOMAIN state.records \subseteq JobIds
      /\ state.records \in [DOMAIN state.records -> SubmissionRecord]
  BY <1>1, RecordMapsAre DEF StateObject
<1> HIDE DEF record
<1>4. /\ next = [j \in DOMAIN next |-> next[j]]
      /\ DOMAIN next \subseteq DOMAIN state.records \cup {run.submitted}
      /\ \A j \in DOMAIN next :
             next[j] = IF j = run.submitted THEN record ELSE state.records[j]
  BY RecordSubmissionKeeps
<1>5. Recorded = [state EXCEPT !.records = next,
                               !.alerted = @ \ (DOMAIN state.records \ DOMAIN next)]
  BY DEF Recorded, record
<1> HIDE DEF next
<1>6. \A j \in DOMAIN next : next[j] \in SubmissionRecord
  BY <1>2, <1>3, <1>4
<1>7. next \in RecordMaps
  <2>1. next \in [DOMAIN next -> SubmissionRecord]
    BY <1>4, <1>6
  <2> QED BY <1>1, <1>3, <1>4, <2>1, RecordMapsAre
<1> QED BY <1>1, <1>5, <1>7 DEF StateObject

\* Persisting the record and committing the scores end the run.
LEMMA PersistType ==
  ASSUME TypeInv, PersistSubmission \/ CommitScored PROVE TypeInv'
<1>1. CASE PersistSubmission
  <2>1. Recorded \in StateObject
    BY <1>1, RecordedTyped DEF PersistSubmission, TypeInv, MemoryCoherent
  <2>2. state' \in StateObject /\ fresh' \in BOOLEAN /\ faults' \in Nat
    BY <1>1, <2>1, AttemptWrites DEF PersistSubmission, TypeInv
  <2> QED BY <1>1, <2>2
          DEF PersistSubmission, GoTo, Steps, TypeInv, Typed, MemoryCoherent
<1>2. CASE CommitScored
  <2>1. CASE run.scoring = {}
    <3>1. EndRun /\ UNCHANGED <<journal, jobs, state, fresh, checking, faults>>
      BY <1>2, <2>1 DEF CommitScored, NoFault
    <3> QED BY <3>1, EndRunTyped DEF TypeInv, Typed
  <2>2. CASE run.scoring # {}
    <3> DEFINE j == First(run.scoring)
               next == [run EXCEPT !.scoring = @ \ {j}]
    <3>1. /\ Attempt(MarkedScored(j)) /\ run' = next
          /\ UNCHANGED <<journal, jobs, pc, checking>> /\ pc = "mark"
      BY <1>2, <2>2 DEF CommitScored
    <3>2. run \in RunMemory
      BY DEF TypeInv, Typed
    <3>3. j \in JobIds
      BY <2>2, <3>2, FirstIsMember DEF RunMemory
    <3> HIDE DEF j
    <3>4. next \in RunMemory /\ next.todo = run.todo
          /\ next.scoring \subseteq run.scoring /\ next.records = run.records
      BY <3>2 DEF RunMemory
    <3> HIDE DEF next
    <3>5. state' \in StateObject /\ fresh' \in BOOLEAN /\ faults' \in Nat
      BY <3>1, <3>3, MarksTyped, AttemptWrites DEF TypeInv
    <3> QED BY <3>1, <3>4, <3>5 DEF TypeInv, Typed, MemoryCoherent
  <2> QED BY <2>1, <2>2
<1> QED BY <1>1, <1>2

-----------------------------------------------------------------------------
\* A crash forgets the run and nothing else.
LEMMA CrashType ==
  ASSUME TypeInv, Crash PROVE TypeInv'
<1>1. EndRun /\ UNCHANGED <<journal, jobs, state, fresh, checking>> /\ faults' \in Nat
  BY DEF Crash, Fault, TypeInv, Typed
<1> QED BY <1>1, EndRunTyped DEF TypeInv, Typed

\* What happens around the run leaves its memory alone.
LEMMA EnvironmentType ==
  ASSUME TypeInv,
         \/ \E o \in Op : TagObject(o)
         \/ JobStep \/ CheckerStep \/ Reenable
  PROVE  TypeInv'
<1>1. CASE \E o \in Op : TagObject(o)
  BY <1>1 DEF TagObject, TypeInv, Typed, MemoryCoherent
<1>2. CASE JobStep
  <2>1. PICK j \in Created, status \in {"Complete", "Failed"} : JobEnds(j, status)
    BY <1>2 DEF JobStep
  <2>2. /\ jobs \in Seq(Job) /\ jobs[j] \in Job /\ status \in JobStatus
        /\ DOMAIN jobs = 1..Len(jobs) /\ Len(jobs) \in Nat
    BY LenProperties, ElementOfSeq DEF Created, JobStatus, TypeInv, Typed
  <2>3. jobs' = [jobs EXCEPT ![j] = [jobs[j] EXCEPT !.status = status]]
    BY <2>1 DEF JobEnds
  <2>4. [jobs[j] EXCEPT !.status = status] \in Job
    BY <2>2 DEF Job
  <2>5. jobs' \in Seq(Job) /\ Len(jobs') = Len(jobs)
    BY <2>2, <2>3, <2>4, ExceptSeq DEF Created
  <2>6. faults' \in Nat /\ UNCHANGED <<journal, state, fresh, run, pc, checking>>
    BY <2>1 DEF JobEnds, Fault, NoFault, TypeInv, Typed
  <2> QED BY <2>5, <2>6 DEF TypeInv, Typed, MemoryCoherent
<1>3. CASE CheckerStep
  <2>1. CASE CheckerAlerts
    <3>1. state' \in StateObject
      BY <2>1 DEF CheckerAlerts, StateObject, TypeInv, Typed
    <3>2. fresh' \in BOOLEAN
      BY <2>1, Zenon DEF CheckerAlerts, TypeInv, Typed
    <3> QED BY <2>1, <3>1, <3>2 DEF CheckerAlerts, TypeInv, Typed, MemoryCoherent
  <2>2. CASE \E j \in Created : CheckerReads(j)
    <3>1. PICK j \in Created : CheckerReads(j)
      BY <2>2
    <3>2. j \in JobIds
      BY <3>1, RecordMapsAre DEF CheckerReads, StateObject, TypeInv, Typed
    <3> QED BY <3>1, <3>2 DEF CheckerReads, Fault, TypeInv, Typed, MemoryCoherent
  <2> QED BY <1>3, <2>1, <2>2 DEF CheckerStep
<1>4. CASE Reenable
  <2>1. state' \in StateObject
    BY <1>4 DEF Reenable, StateObject, TypeInv, Typed
  <2>2. fresh' \in BOOLEAN
    BY <1>4, Zenon DEF Reenable
  <2> QED BY <1>4, <2>1, <2>2 DEF Reenable, TypeInv, Typed, MemoryCoherent
<1> QED BY <1>1, <1>2, <1>3, <1>4

\* Every step keeps the types and the coherence of the run's memory.
LEMMA TypeStep == TypeInv /\ [Next]_vars => TypeInv'
<1> SUFFICES ASSUME TypeInv, [Next]_vars PROVE TypeInv'
  OBVIOUS
<1>1. CASE RunStep
  BY <1>1, BeginType, DescribeType, ReportStepsType, RecoveryType, ReadType,
     AcquireType, SubmitType, StreakType, ReleaseType, PersistType, CrashType
     DEF RunStep
<1>2. CASE (\E o \in Op : TagObject(o)) \/ JobStep \/ CheckerStep \/ Reenable
  BY <1>2, EnvironmentType
<1>3. CASE UNCHANGED vars
  BY <1>3 DEF vars, TypeInv, Typed, MemoryCoherent
<1> QED BY <1>1, <1>2, <1>3 DEF Next

\* Whatever is tagged, fails, crashes or interleaves, the stored state object
\* stays one the code can read back, and so does what a run holds of it.
THEOREM TypeCorrect == Spec => []TypeOK
<1>1. Init => TypeInv
  BY TypeInit
<1>2. TypeInv /\ [Next]_vars => TypeInv'
  BY TypeStep
<1>3. TypeInv => TypeOK
  <2>1. ASSUME TypeInv PROVE TypeOK
    <3>1. IsRecordMap(state.records) /\ IsRecordMap(run.records)
      BY <2>1, RecordMapsAre DEF TypeInv, Typed, StateObject, RunMemory, IsRecordMap
    <3> QED BY <2>1, <3>1 DEF TypeInv, Typed, TypeOK, StateObject, RunMemory
  <2> QED BY <2>1
<1> QED BY <1>1, <1>2, <1>3, PTL DEF Spec

-----------------------------------------------------------------------------
\* What each query of a read has found, against the journal it was asked over: a
\* later query sees all that the count saw, and maybe more.
CountFound ==
    LET q == run.query
    IN  /\ q.seen \subseteq journal
        /\ q.assumed => q.tail = FullTail
        /\ \/ CutsTail(q)
           \/ Cardinality(TailRows(q.seen, run.cp.watermark)) <= TailAllowance(q.tail)

BoundaryFound ==
    LET q == run.query
    IN  \E rows \in SUBSET Op :
           /\ q.seen \subseteq rows
           /\ q.until = RowCountBoundary(rows, run.cp.watermark, NewRowBudget(q.tail))

FloorFound ==
    LET q == run.query
        w == run.cp.watermark
    IN  IF CutsTail(q)
          THEN \E rows \in SUBSET Op :
                  /\ q.seen \subseteq rows
                  /\ q.since = TailFloor(rows, w, TailAllowance(q.tail))
          ELSE q.since = WindowStart(w)

QueryInv ==
    /\ pc \in {"boundary", "floor", "read"} => CountFound
    /\ pc \in {"floor", "read"} => BoundaryFound
    /\ pc = "floor" => CutsTail(run.query)
    /\ pc = "read" => FloorFound

\* No other step of a run leads to one of the queries after the count.
LEMMA BoundingPlaces ==
  ASSUME RunStep, pc' \in {"boundary", "floor", "read"} PROVE BoundRead
<1>1. ~ (StartRun \/ StartRunBlind)
  BY DEF StartRun, StartRunBlind, Begin, GoTo
<1>2. ~ (\/ DescribeOutstanding \/ DescribeAgedOut
         \/ \E readable \in BOOLEAN : DescribeTerminal(readable))
  BY DEF DescribeOutstanding, DescribeAgedOut, DescribeTerminal, GoTo
<1>3. ~ (MergeReport \/ ClearAlert \/ DiagnoseReport)
  BY DEF MergeReport, ClearAlert, DiagnoseReport, GoTo
<1>4. ~ (TripBreaker \/ Recover \/ DisableBucket)
  BY DEF TripBreaker, Recover, DisableBucket, EndRun, GoTo
<1>5. ~ (ReadJournal \/ ReadFails)
  BY DEF ReadJournal, ReadFails, TakeUp, EndRun, GoTo
<1>6. ~ (AcquireLease \/ BuildManifest \/ SubmitJob \/ SubmitFails \/ ClearStreak)
  BY DEF AcquireLease, BuildManifest, SubmitJob, SubmitFails, ClearStreak, EndRun, GoTo
<1>7. ~ (Escalate \/ DisableLeased \/ ReleaseLease \/ PersistSubmission)
  BY DEF Escalate, DisableLeased, ReleaseLease, PersistSubmission, EndRun, GoTo
<1>8. ~ (CommitScored \/ Crash)
  BY DEF CommitScored, Crash, EndRun, GoTo
<1> QED BY <1>1, <1>2, <1>3, <1>4, <1>5, <1>6, <1>7, <1>8 DEF RunStep

\* The bounding queries find what the invariant says, each over the journal of
\* its own moment (_count_lookback_tail, _read_journal_window, _raise_tail_floor).
LEMMA BoundReadFinds ==
  ASSUME TypeInv, QueryInv, BoundRead PROVE QueryInv'
<1> DEFINE w == run.cp.watermark
           q == run.query
<1>0. /\ journal \in SUBSET Op /\ run \in RunMemory /\ q \in Queries /\ q.tail \in Nat
      /\ journal' = journal
  BY BoundReadIs DEF TypeInv, Typed, RunMemory, Queries
<1>1. CASE CountTail
  <2>1. PICK n \in Nat, assumed \in BOOLEAN :
          /\ run' = [run EXCEPT !.query = [run.query EXCEPT !.seen = journal, !.tail = n,
                                                           !.assumed = assumed]]
          /\ IF assumed THEN n = FullTail ELSE n = Cardinality(TailRows(journal, w))
    BY <1>1, CountTailIs DEF TypeInv
  <2>2. /\ run'.cp = run.cp /\ run'.query.seen = journal /\ run'.query.tail = n
        /\ run'.query.assumed = assumed /\ TailAllowance(n) \in Nat
    BY <1>0, <2>1, BudgetFitsCap DEF RunMemory, Queries
  <2>3. CountFound'
    BY <1>0, <2>1, <2>2 DEF CountFound, CutsTail
  <2> QED BY <1>1, <2>3 DEF CountTail, GoTo, QueryInv
<1>2. CASE FindBoundary
  <2>1. CountFound
    BY <1>2 DEF FindBoundary, QueryInv
  <2>2. /\ run'.cp = run.cp /\ run'.query.seen = q.seen /\ run'.query.tail = q.tail
        /\ run'.query.assumed = q.assumed /\ run'.query.since = WindowStart(w)
        /\ run'.query.until = RowCountBoundary(journal, w, NewRowBudget(q.tail))
    BY <1>0, <1>2 DEF FindBoundary, RunMemory, Queries
  <2>3. CutsTail(run'.query) = CutsTail(q)
    BY <2>2 DEF CutsTail
  <2>4. CountFound'
    BY <1>0, <2>1, <2>2, <2>3 DEF CountFound
  <2>5. BoundaryFound'
    BY <1>0, <2>1, <2>2 DEF CountFound, BoundaryFound
  <2>6. CASE CutsTail(q)
    BY <1>2, <2>3, <2>4, <2>5, <2>6 DEF FindBoundary, GoTo, QueryInv
  <2>7. CASE ~ CutsTail(q)
    <3>1. FloorFound'
      BY <2>2, <2>3, <2>7 DEF FloorFound
    <3> QED BY <1>2, <2>4, <2>5, <2>7, <3>1 DEF FindBoundary, GoTo, QueryInv
  <2> QED BY <2>6, <2>7
<1>3. CASE FindFloor
  <2>1. CountFound /\ BoundaryFound /\ CutsTail(q)
    BY <1>3 DEF FindFloor, QueryInv
  <2>2. /\ run'.cp = run.cp /\ run'.query.seen = q.seen /\ run'.query.tail = q.tail
        /\ run'.query.assumed = q.assumed /\ run'.query.until = q.until
        /\ run'.query.since = TailFloor(journal, w, TailAllowance(q.tail))
    BY <1>0, <1>3 DEF FindFloor, RunMemory, Queries
  <2>3. CutsTail(run'.query)
    BY <2>1, <2>2 DEF CutsTail
  <2>4. CountFound'
    BY <1>0, <2>1, <2>2, <2>3 DEF CountFound
  <2>5. BoundaryFound'
    BY <2>1, <2>2 DEF BoundaryFound
  <2>6. FloorFound'
    BY <1>0, <2>1, <2>2, <2>3 DEF FloorFound, CountFound
  <2> QED BY <1>3, <2>4, <2>5, <2>6 DEF FindFloor, GoTo, QueryInv
<1> QED BY <1>1, <1>2, <1>3 DEF BoundRead

LEMMA QueryInit == Init => QueryInv
BY DEF Init, QueryInv

\* Rows that appear between the queries leave true what the earlier ones found.
LEMMA QueryStep == TypeInv /\ QueryInv /\ [Next]_vars => QueryInv'
<1> SUFFICES ASSUME TypeInv, QueryInv, [Next]_vars PROVE QueryInv'
  OBVIOUS
<1>1. CASE RunStep
  BY <1>1, BoundReadFinds, BoundingPlaces DEF QueryInv
<1>2. CASE (\E o \in Op : TagObject(o)) \/ JobStep \/ CheckerStep \/ Reenable \/ UNCHANGED vars
  <2>1. journal \subseteq journal' /\ UNCHANGED <<run, pc>>
    BY <1>2 DEF TagObject, JobStep, JobEnds, CheckerStep, CheckerAlerts, CheckerReads,
                Reenable, vars
  <2>2. CountFound => CountFound'
    BY <2>1 DEF CountFound
  <2>3. (BoundaryFound => BoundaryFound') /\ (FloorFound => FloorFound')
    BY <2>1 DEF BoundaryFound, FloorFound
  <2> QED BY <2>1, <2>2, <2>3 DEF QueryInv
<1> QED BY <1>1, <1>2 DEF Next

\* A read goes below its watermark, to the window start at most.
LEMMA ReadStartsBelow ==
  ASSUME TypeInv, QueryInv, pc = "read"
  PROVE  /\ run.query.since \in Nat
         /\ run.query.since <= run.cp.watermark
         /\ run.query.since >= WindowStart(run.cp.watermark)
<1>1. run.cp.watermark \in Nat /\ run.query.tail \in Nat /\ run.query.since \in Nat
  BY DEF TypeInv, Typed, RunMemory, Checkpoints, Queries
<1>2. TailAllowance(run.query.tail) \in Nat
  BY <1>1, BudgetFitsCap
<1>3. CASE CutsTail(run.query)
  BY <1>1, <1>2, <1>3, FloorBudget DEF QueryInv, FloorFound
<1>4. CASE ~ CutsTail(run.query)
  BY <1>1, <1>4, WindowStartMonotone DEF QueryInv, FloorFound
<1> QED BY <1>3, <1>4

\* Where no tail exceeds its allowance, a read starts at the window start.
LEMMA ReadStartsAtWindow ==
  ASSUME TypeInv, QueryInv, TailFits, pc = "read"
  PROVE  run.query.since = WindowStart(run.cp.watermark)
<1> DEFINE w == run.cp.watermark
           q == run.query
<1>1. w \in Nat /\ q.tail \in Nat
  BY DEF TypeInv, Typed, RunMemory, Checkpoints, Queries
<1>2. CASE ~ CutsTail(q)
  BY <1>2 DEF QueryInv, FloorFound
<1>3. CASE CutsTail(q)
  <2>1. TailAllowance(q.tail) = FullTail
    BY <1>1, <1>3, AllowanceIsFull DEF CutsTail, QueryInv, CountFound
  <2> QED BY <1>1, <1>3, <2>1, TailWithinAllowance DEF QueryInv, FloorFound
<1> QED BY <1>2, <1>3

\* Where the new rows fit their budget, a read has no upper bound.
LEMMA ReadUnbounded ==
  ASSUME TypeInv, QueryInv, NewRowsFit, pc = "read", run.cp.watermark # Epoch
  PROVE  run.query.until = NoBound
<1>1. run.cp.watermark \in Nat \ {Epoch} /\ run.query.tail \in Nat
  BY DEF TypeInv, Typed, RunMemory, Checkpoints, Queries
<1> QED BY <1>1, BudgetSetsNoBound DEF QueryInv, BoundaryFound

\* ReadFitsCap: wherever the watermark is, and whatever appears in the journal
\* between the count of the tail, the lookup of the two bounds and the read, the
\* bounds keep the read below the row cap, but for the rows that have appeared
\* since the count and for those tied at the upper bound (_count_lookback_tail,
\* _read_journal_window, _raise_tail_floor).
THEOREM ReadsFit == Spec => []ReadFitsCap
<1>1. Init => TypeInv /\ QueryInv
  BY TypeInit, QueryInit
<1>2. TypeInv /\ QueryInv /\ [Next]_vars => TypeInv' /\ QueryInv'
  BY TypeStep, QueryStep
<1>3. TypeInv /\ QueryInv => ReadFitsCap
  <2>1. SUFFICES ASSUME TypeInv, QueryInv, pc = "read"
                 PROVE  FitsCap(RowsRead(run.query.seen), run.query.until)
    BY DEF ReadFitsCap
  <2> DEFINE w == run.cp.watermark
             q == run.query
             a == TailAllowance(q.tail)
             n == NewRowBudget(q.tail)
  <2>2. /\ w \in Nat /\ q.tail \in Nat /\ q.since \in Nat /\ q.since >= WindowStart(w)
        /\ q.seen \in SUBSET Op /\ WindowStart(w) \in Nat
    BY <2>1, ReadStartsBelow, WindowStartMonotone
       DEF TypeInv, Typed, RunMemory, Checkpoints, Queries
  <2>3. a \in Nat /\ n \in Nat \ {0} /\ a + n = RowCap
    BY <2>2, BudgetFitsCap
  <2>4. PICK rows \in SUBSET Op : q.seen \subseteq rows /\ q.until = RowCountBoundary(rows, w, n)
    BY <2>1 DEF QueryInv, BoundaryFound
  <2> HIDE DEF a, n
  <2>5. Cardinality({o \in TailRows(q.seen, w) : Time[o] > q.since}) <= a
    <3>1. CASE CutsTail(q)
      <4>1. PICK rows2 \in SUBSET Op : q.seen \subseteq rows2 /\ q.since = TailFloor(rows2, w, a)
        BY <2>1, <3>1 DEF QueryInv, FloorFound, a
      <4> QED BY <2>2, <2>3, <4>1, FloorFitsSeen
    <3>2. CASE ~ CutsTail(q)
      <4>1. Cardinality(TailRows(q.seen, w)) <= a
        BY <2>1, <3>2 DEF QueryInv, CountFound, a
      <4>2. IsFiniteSet(TailRows(q.seen, w))
        BY <2>2, CheckpointAssumption, FS_Subset DEF TailRows, RowsIn
      <4>3. /\ Cardinality({o \in TailRows(q.seen, w) : Time[o] > q.since})
                 <= Cardinality(TailRows(q.seen, w))
            /\ Cardinality({o \in TailRows(q.seen, w) : Time[o] > q.since}) \in Nat
            /\ Cardinality(TailRows(q.seen, w)) \in Nat
        BY <4>2, FS_Subset, FS_CardinalityType
      <4> QED BY <2>3, <4>1, <4>3
    <3> QED BY <3>1, <3>2
  <2> QED BY <2>2, <2>3, <2>4, <2>5, BoundedReadFitsCap DEF RowsRead
<1> QED BY <1>1, <1>2, <1>3, PTL DEF Spec

-----------------------------------------------------------------------------
\* The ways a step may change the checkpoint and the records of the state
\* object, whoever takes it.
LEMMA StateSteps ==
  ASSUME TypeInv, [Next]_vars
  PROVE  \/ state'.cp = state.cp /\ state'.records = state.records
         \/ \E j \in JobIds : state' \in {MarkedDiagnosed(j), MarkedScored(j)}
         \/ state' = Disabled
         \/ state' = [state EXCEPT !.cp.lease = run.candidate]
         \/ state' = Released
         \/ state' = Recorded /\ run.submitted # NoJob
<1> DEFINE Same == state'.cp = state.cp /\ state'.records = state.records
<1> USE DEF Attempt, Put, PutRaises, Rejected, Unsent, Unheard
<1>0. state \in StateObject /\ run \in RunMemory
  BY DEF TypeInv, Typed
<1>1. CASE MergeReport
  <2>1. state' \in {state, [state EXCEPT !.processed = @ \cup {run.job}]}
    BY <1>1 DEF MergeReport
  <2> QED BY <1>0, <2>1 DEF StateObject
<1>2. CASE ClearAlert
  <2>1. state' \in {state, [state EXCEPT !.alerted = @ \ {run.job}]}
    BY <1>2 DEF ClearAlert
  <2> QED BY <1>0, <2>1 DEF StateObject
<1>3. CASE ClearStreak
  <2>1. state' \in {state, [state EXCEPT !.streak = 0]}
    BY <1>3 DEF ClearStreak
  <2> QED BY <1>0, <2>1 DEF StateObject
<1>4. CASE Escalate
  <2>1. state' \in {state, [state EXCEPT !.streak = @ + 1]}
    BY <1>4 DEF Escalate
  <2> QED BY <1>0, <2>1 DEF StateObject
<1>5. CASE DiagnoseReport
  <2>1. state' \in {state, MarkedDiagnosed(run.job)}
    BY <1>5 DEF DiagnoseReport
  <2>2. run.job \in JobIds
    BY <1>0, <1>5, RecordMapsAre DEF DiagnoseReport, TypeInv, MemoryCoherent, RunMemory
  <2> QED BY <2>1, <2>2
<1>6. CASE CommitScored
  <2>1. CASE run.scoring = {}
    BY <1>6, <2>1 DEF CommitScored
  <2>2. CASE run.scoring # {}
    <3>1. state' \in {state, MarkedScored(First(run.scoring))}
      BY <1>6, <2>2 DEF CommitScored
    <3>2. First(run.scoring) \in JobIds
      BY <1>0, <2>2, FirstIsMember DEF RunMemory
    <3> QED BY <3>1, <3>2
  <2> QED BY <2>1, <2>2
<1>7. CASE DisableBucket \/ DisableLeased
  BY <1>7 DEF DisableBucket, DisableLeased
<1>8. CASE AcquireLease
  BY <1>8 DEF AcquireLease
<1>9. CASE ReleaseLease
  BY <1>9 DEF ReleaseLease
<1>10. CASE PersistSubmission
  BY <1>10 DEF PersistSubmission, TypeInv, MemoryCoherent
<1>11. CASE CheckerStep \/ Reenable
  <2>1. \/ state' = state
        \/ state' = [state EXCEPT !.alerted = @ \cup {checking}]
        \/ state' = [state EXCEPT !.disabled = FALSE]
    BY <1>11 DEF CheckerStep, CheckerAlerts, CheckerReads, Reenable
  <2> QED BY <1>0, <2>1 DEF StateObject
<1>12. CASE StartRun \/ StartRunBlind \/ TripBreaker \/ Recover \/ ReadJournal
            \/ BoundRead \/ ReadFails \/ BuildManifest \/ SubmitJob
            \/ SubmitFails \/ Crash \/ DescribeOutstanding \/ DescribeAgedOut
            \/ \E readable \in BOOLEAN : DescribeTerminal(readable)
  <2>1. state' = state
    BY <1>12
       DEF StartRun, StartRunBlind, Begin, TripBreaker, Recover, ReadJournal,
           BoundRead, CountTail, FindBoundary, FindFloor, TakeUp, ReadFails, BuildManifest,
           SubmitJob,
           SubmitFails, Crash, DescribeOutstanding, DescribeAgedOut, DescribeTerminal
  <2> QED BY <2>1
<1>13. CASE (\E o \in Op : TagObject(o)) \/ JobStep \/ UNCHANGED vars
  BY <1>13 DEF TagObject, JobStep, JobEnds, vars
<1> QED
  BY <1>1, <1>2, <1>3, <1>4, <1>5, <1>6, <1>7, <1>8, <1>9, <1>10, <1>11,
     <1>12, <1>13 DEF Next, RunStep

\* Of all those, only a release moves the watermark, and it moves it up.
LEMMA WatermarkStep ==
  TypeInv /\ [Next]_vars => state'.cp.watermark >= state.cp.watermark
<1> SUFFICES ASSUME TypeInv, [Next]_vars
             PROVE  state'.cp.watermark >= state.cp.watermark
  OBVIOUS
<1>0. /\ state \in StateObject /\ state.cp \in Checkpoints
      /\ state.cp.watermark \in Nat /\ run \in RunMemory
  BY DEF TypeInv, Typed, StateObject, Checkpoints
<1>1. CASE state'.cp = state.cp
  BY <1>0, <1>1
<1>2. CASE \E j \in JobIds : state' \in {MarkedDiagnosed(j), MarkedScored(j)}
  BY <1>0, <1>2 DEF MarkedDiagnosed, MarkedScored, StateObject
<1>3. CASE state' = Disabled
  BY <1>0, <1>3 DEF Disabled, StateObject
<1>4. CASE state' = [state EXCEPT !.cp.lease = run.candidate]
  BY <1>0, <1>4 DEF StateObject, Checkpoints
<1>5. CASE state' = Released
  <2> DEFINE refs == IF run.submitted = NoJob THEN {} ELSE run.batch
  <2>1. refs \in SUBSET Op /\ run.candidate \in Nat
    BY <1>0 DEF RunMemory
  <2>2. AdvanceCheckpoint(state.cp, refs, run.candidate).watermark
          >= state.cp.watermark
    BY <1>0, <2>1, AdvanceCheckpointMonotone
  <2>3. state'.cp = AdvanceCheckpoint(state.cp, refs, run.candidate)
    BY <1>0, <1>5 DEF Released, StateObject
  <2> QED BY <2>2, <2>3
<1>6. CASE state' = Recorded
  BY <1>0, <1>6 DEF Recorded, StateObject
<1> QED BY <1>1, <1>2, <1>3, <1>4, <1>5, <1>6, StateSteps

\* The stored watermark never moves back, for any journal, any faults and any
\* interleaving of the run with the checker and the operator.
THEOREM WatermarkMonotone == Spec => WatermarkNeverRegresses
<1>1. Init => TypeInv
  BY TypeInit
<1>2. TypeInv /\ [Next]_vars => TypeInv'
  BY TypeStep
<1>3. TypeInv /\ [Next]_vars => [state'.cp.watermark >= state.cp.watermark]_vars
  BY WatermarkStep
<1> QED BY <1>1, <1>2, <1>3, PTL DEF Spec, WatermarkNeverRegresses

-----------------------------------------------------------------------------
\* The failure counter is below the threshold wherever it is kept: in the state
\* object, in the records a run has read, and in the run that will write one.
Below(records) ==
    \A j \in DOMAIN records : records[j].failures < FailureThreshold

CounterInv ==
    /\ Below(state.records)
    /\ Below(run.records)
    /\ run.failures < FailureThreshold

\* No step but a persisted submission brings a counter into the state object,
\* and that one comes from the run.
LEMMA StoredCounterStep ==
  ASSUME TypeInv, CounterInv, [Next]_vars
  PROVE  Below(state'.records)
<1>0. /\ state \in StateObject /\ run \in RunMemory
      /\ Below(state.records) /\ run.failures < FailureThreshold
      /\ state.records \in [DOMAIN state.records -> SubmissionRecord]
  BY RecordMapsAre DEF TypeInv, Typed, CounterInv, StateObject
<1>1. CASE state'.records = state.records
  BY <1>0, <1>1
<1>2. CASE \E j \in JobIds : state' \in {MarkedDiagnosed(j), MarkedScored(j)}
  <2>1. PICK j \in JobIds : state' \in {MarkedDiagnosed(j), MarkedScored(j)}
    BY <1>2
  <2>2. CASE j \notin DOMAIN state.records
    BY <1>0, <2>1, <2>2 DEF MarkedDiagnosed, MarkedScored
  <2>3. CASE j \in DOMAIN state.records
    <3>1. state'.records \in {[state.records EXCEPT ![j].diagnosed = TRUE],
                              [state.records EXCEPT ![j].scored = TRUE]}
      BY <1>0, <2>1, <2>3 DEF MarkedDiagnosed, MarkedScored, StateObject
    <3> QED BY <1>0, <2>3, <3>1 DEF Below, SubmissionRecord
  <2> QED BY <2>2, <2>3
<1>3. CASE state' = Disabled
  BY <1>0, <1>3, NoRunTyped DEF Disabled, StateObject, Below
<1>4. CASE state' = [state EXCEPT !.cp.lease = run.candidate] \/ state' = Released
  BY <1>0, <1>4 DEF Released, StateObject
<1>5. CASE state' = Recorded
  <2> DEFINE record  == [failures |-> run.failures, at |-> run.submitted,
                         low |-> run.cp.watermark,
                         diagnosed |-> FALSE, scored |-> FALSE]
             next    == RecordSubmission(state.records, run.submitted, record,
                                         run.terminal, state.processed)
  <2>1. record.failures < FailureThreshold
    BY <1>0
  <2>2. state'.records = next
    BY <1>0, <1>5 DEF Recorded, StateObject
  <2> HIDE DEF record
  <2>3. /\ DOMAIN next \subseteq DOMAIN state.records \cup {run.submitted}
        /\ \A j \in DOMAIN next :
               next[j] = IF j = run.submitted THEN record ELSE state.records[j]
    BY RecordSubmissionKeeps
  <2> HIDE DEF next
  <2> QED BY <1>0, <2>1, <2>2, <2>3 DEF Below
<1> QED BY <1>1, <1>2, <1>3, <1>4, <1>5, StateSteps

\* A run reads records that are below the threshold, and a recovery that would
\* take its counter to the threshold does not go on.
LEMMA RunCounterStep ==
  ASSUME TypeInv, CounterInv, [Next]_vars
  PROVE  Below(run'.records) /\ run'.failures < FailureThreshold
<1> USE RecoveryAssumption
<1>0. /\ state \in StateObject /\ run \in RunMemory
      /\ Below(state.records) /\ Below(run.records) /\ run.failures < FailureThreshold
  BY DEF TypeInv, Typed, CounterInv
<1>1. NoRun.failures < FailureThreshold /\ Below(NoRun.records)
  BY NoRunTyped DEF NoRun, Below
<1>2. CASE StartRun \/ StartRunBlind
  <2>1. PICK records : Begin(records) /\ records \in {state.records, NoRecords}
    BY <1>2 DEF StartRun, StartRunBlind
  <2>2. run'.records = records /\ run'.failures = 0
    BY <2>1 DEF Begin, NoRun
  <2> QED BY <1>0, <1>1, <2>1, <2>2, NoRunTyped
<1>3. CASE Recover
  <2>1. CASE EndRun
    BY <1>1, <2>1 DEF EndRun
  <2>2. CASE ~ EndRun
    <3>1. /\ run'.failures = Plan.failures /\ run'.records = run.records
          /\ ~ (FailedIn(Outcomes) # {} /\ Plan.disable)
      BY <1>0, <1>3, <2>2 DEF Recover, RunMemory, AnyFailed
    <3>2. /\ IsFiniteSet(DOMAIN run.records)
          /\ \A j \in DOMAIN run.records : /\ run.records[j].failures \in Nat
                                           /\ run.records[j].failures < FailureThreshold
      BY <1>0, RecordMapFinite, RecordMapsAre DEF RunMemory, SubmissionRecord, Below
    <3>3. Plan.failures < FailureThreshold
      BY <3>1, <3>2, PlanRecoveryBelowThreshold DEF Plan
    <3> QED BY <1>0, <3>1, <3>3
  <2> QED BY <2>1, <2>2
<1>4. CASE \/ run' = NoRun
           \/ run'.records = run.records /\ run'.failures = run.failures
  BY <1>0, <1>1, <1>4
<1>5. RunStep => \/ StartRun \/ StartRunBlind \/ Recover
                 \/ run' = NoRun
                 \/ run'.records = run.records /\ run'.failures = run.failures
  <2>1. CASE MergeReport \/ ClearAlert \/ DiagnoseReport \/ DescribeOutstanding
             \/ DescribeAgedOut \/ \E readable \in BOOLEAN : DescribeTerminal(readable)
    BY <1>0, <2>1 DEF MergeReport, ClearAlert, DiagnoseReport, DescribeOutstanding,
         DescribeAgedOut, DescribeTerminal, RunMemory
  <2>2. CASE TripBreaker \/ DisableBucket \/ DisableLeased \/ Escalate \/ ClearStreak
             \/ BuildManifest \/ SubmitFails \/ PersistSubmission
    BY <2>2 DEF TripBreaker, DisableBucket, DisableLeased, Escalate, ClearStreak,
         BuildManifest, SubmitFails, PersistSubmission
  <2>3. CASE ReadJournal \/ BoundRead \/ ReadFails \/ AcquireLease \/ SubmitJob
             \/ ReleaseLease \/ CommitScored \/ Crash
    BY <1>0, <2>3 DEF ReadJournal, BoundRead, CountTail, FindBoundary, FindFloor, TakeUp,
                      ReadFails,
         AcquireLease, SubmitJob, ReleaseLease, CommitScored, Crash, EndRun, RunMemory
  <2> QED BY <2>1, <2>2, <2>3 DEF RunStep
<1>6. CASE ~ RunStep
  <2>1. run' = run
    BY <1>6 DEF Next, TagObject, JobStep, JobEnds, CheckerStep, CheckerAlerts,
         CheckerReads, Reenable, vars
  <2> QED BY <1>0, <2>1
<1> QED BY <1>2, <1>3, <1>4, <1>5, <1>6

\* The circuit breaker cannot be overrun: no stored record ever carries a
\* counter at the threshold, whatever fails, crashes or is written in between.
THEOREM CounterBounded == Spec => []CounterBelowThreshold
<1>1. Init => TypeInv /\ CounterInv
  <2>1. Init => CounterInv
    BY NoRunTyped, RecoveryAssumption
       DEF Init, CounterInv, Below, EmptyState, NoRun
  <2> QED BY <2>1, TypeInit
<1>2. TypeInv /\ CounterInv /\ [Next]_vars => (TypeInv /\ CounterInv)'
  BY TypeStep, StoredCounterStep, RunCounterStep DEF CounterInv
<1>3. TypeInv /\ CounterInv => CounterBelowThreshold
  BY DEF CounterInv, Below, CounterBelowThreshold
<1> QED BY <1>1, <1>2, <1>3, PTL DEF Spec

-----------------------------------------------------------------------------
\* The records, the submitted job and the terminal jobs a run knows are jobs
\* that exist, and the ones it takes for terminal have finished.
JobsInv ==
    /\ DOMAIN state.records \subseteq Created
    /\ DOMAIN run.records \subseteq Created
    /\ run.submitted # NoJob => run.submitted \in Created
    /\ \A j \in run.terminal : j \in Created /\ Finished(j)

\* No step forgets a job, and a finished job stays finished.
LEMMA JobsStep ==
  ASSUME TypeInv, [Next]_vars
  PROVE  /\ Created \subseteq Created'
         /\ \A j \in Created : Finished(j) => Finished(j)'
<1>0. jobs \in Seq(Job) /\ Created = 1..Len(jobs) /\ Len(jobs) \in Nat
  BY LenProperties DEF TypeInv, Typed, Created
<1>1. CASE jobs' = jobs
  BY <1>1 DEF Created, Finished
<1>2. CASE CreateJob
  <2> DEFINE job == [status |-> "Active", ops |-> run.batch, low |-> run.cp.watermark]
  <2>1. jobs' = Append(jobs, job) /\ job \in Job
    BY <1>2 DEF CreateJob, Job, JobStatus, TypeInv, Typed, RunMemory, Checkpoints
  <2> HIDE DEF job
  <2>2. /\ Len(jobs') = Len(jobs) + 1 /\ jobs' \in Seq(Job)
        /\ \A j \in 1..Len(jobs) : jobs'[j] = jobs[j]
    BY <1>0, <2>1, AppendProperties
  <2>3. Created' = 1..(Len(jobs) + 1)
    BY <2>2, LenProperties DEF Created
  <2> QED BY <1>0, <2>2, <2>3 DEF Finished
<1>3. CASE JobStep
  <2>1. PICK i \in Created, status \in {"Complete", "Failed"} :
          jobs' = [jobs EXCEPT ![i].status = status]
    BY <1>3 DEF JobStep, JobEnds
  <2>2. jobs[i] \in Job
    BY <1>0, ElementOfSeq
  <2>3. /\ DOMAIN jobs' = DOMAIN jobs
        /\ jobs'[i].status = status
        /\ \A j \in Created \ {i} : jobs'[j] = jobs[j]
    BY <2>1, <2>2 DEF Created, Job
  <2> QED BY <2>3 DEF Created, Finished
<1>4. \/ jobs' = jobs \/ CreateJob \/ JobStep
  <2>1. CASE RunStep
    <3>1. CASE StartRun \/ StartRunBlind \/ DescribeOutstanding \/ DescribeAgedOut
               \/ (\E readable \in BOOLEAN : DescribeTerminal(readable))
               \/ MergeReport \/ ClearAlert \/ DiagnoseReport \/ TripBreaker \/ Recover
      BY <3>1 DEF StartRun, StartRunBlind, Begin, DescribeOutstanding, DescribeAgedOut,
           DescribeTerminal, MergeReport, ClearAlert, DiagnoseReport, TripBreaker, Recover
    <3>2. CASE DisableBucket \/ ReadJournal \/ BoundRead \/ ReadFails \/ AcquireLease
               \/ BuildManifest \/ ClearStreak \/ Escalate \/ DisableLeased
               \/ ReleaseLease \/ PersistSubmission \/ CommitScored \/ Crash
      BY <3>2 DEF DisableBucket, ReadJournal, BoundRead, CountTail, FindBoundary, FindFloor,
                  TakeUp, ReadFails,
           AcquireLease, BuildManifest, ClearStreak, Escalate, DisableLeased,
           ReleaseLease, PersistSubmission, CommitScored, Crash
    <3>3. CASE SubmitJob \/ SubmitFails
      BY <3>3 DEF SubmitJob, SubmitFails
    <3> QED BY <2>1, <3>1, <3>2, <3>3 DEF RunStep
  <2>2. CASE ~ RunStep /\ ~ JobStep
    BY <2>2 DEF Next, TagObject, CheckerStep, CheckerAlerts, CheckerReads, Reenable, vars
  <2> QED BY <2>1, <2>2
<1> QED BY <1>1, <1>2, <1>3, <1>4

\* A record comes into the state object for the job the run has just submitted.
LEMMA StoredJobsStep ==
  ASSUME TypeInv, JobsInv, [Next]_vars
  PROVE  DOMAIN state'.records \subseteq Created
<1>0. state \in StateObject /\ DOMAIN state.records \subseteq Created
  BY DEF TypeInv, Typed, JobsInv
<1>1. CASE state'.records = state.records
  BY <1>0, <1>1
<1>2. CASE \E j \in JobIds : state' \in {MarkedDiagnosed(j), MarkedScored(j)}
  BY <1>0, <1>2 DEF MarkedDiagnosed, MarkedScored, StateObject
<1>3. CASE state' = Disabled
  BY <1>0, <1>3, NoRunTyped DEF Disabled, StateObject
<1>4. CASE state' = [state EXCEPT !.cp.lease = run.candidate] \/ state' = Released
  BY <1>0, <1>4 DEF Released, StateObject
<1>5. CASE state' = Recorded /\ run.submitted # NoJob
  <2> DEFINE record  == [failures |-> run.failures, at |-> run.submitted,
                         low |-> run.cp.watermark,
                         diagnosed |-> FALSE, scored |-> FALSE]
             next    == RecordSubmission(state.records, run.submitted, record,
                                         run.terminal, state.processed)
  <2>1. state'.records = next
    BY <1>0, <1>5 DEF Recorded, StateObject
  <2> HIDE DEF record
  <2>2. DOMAIN next \subseteq DOMAIN state.records \cup {run.submitted}
    BY RecordSubmissionKeeps
  <2> QED BY <1>0, <1>5, <2>1, <2>2 DEF JobsInv
<1> QED BY <1>1, <1>2, <1>3, <1>4, <1>5, StateSteps

\* A run reads the stored records, submits the job it creates, and takes for
\* terminal only a job it found finished.
LEMMA RunJobsStep ==
  ASSUME TypeInv, JobsInv, [Next]_vars
  PROVE  /\ DOMAIN run'.records \subseteq Created'
         /\ run'.submitted # NoJob => run'.submitted \in Created'
         /\ \A j \in run'.terminal : j \in Created' /\ Finished(j)'
<1>0. /\ run \in RunMemory /\ Created \subseteq Created'
      /\ \A j \in Created : Finished(j) => Finished(j)'
  BY JobsStep DEF TypeInv, Typed
<1>1. CASE run'.records = run.records /\ run'.submitted = run.submitted
           /\ run'.terminal = run.terminal
  BY <1>0, <1>1 DEF JobsInv
<1>2. CASE run' = NoRun
  BY <1>2, NoRunTyped DEF NoRun
<1>3. CASE StartRun \/ StartRunBlind
  <2>1. PICK records : Begin(records) /\ records \in {state.records, NoRecords}
    BY <1>3 DEF StartRun, StartRunBlind
  <2>2. /\ run'.records = records /\ run'.submitted = NoJob /\ run'.terminal = {}
    BY <2>1 DEF Begin, NoRun
  <2> QED BY <1>0, <2>1, <2>2, NoRunTyped DEF JobsInv
<1>4. CASE \E readable \in BOOLEAN : DescribeTerminal(readable)
  <2> DEFINE j == First(run.todo)
  <2>1. /\ Finished(j) /\ run.todo # {}
        /\ run'.records = run.records /\ run'.submitted = run.submitted
        /\ run'.terminal = run.terminal \cup {j}
    BY <1>0, <1>4 DEF DescribeTerminal, RunMemory
  <2>2. j \in run.todo
    BY <1>0, <2>1, FirstIsMember DEF RunMemory
  <2> HIDE DEF j
  <2>3. j \in Created
    BY <2>2 DEF TypeInv, MemoryCoherent, JobsInv
  <2> QED BY <1>0, <2>1, <2>3 DEF JobsInv
<1>5. CASE SubmitJob
  <2> DEFINE job == [status |-> "Active", ops |-> run.batch, low |-> run.cp.watermark]
  <2>1. /\ jobs' = Append(jobs, job)
        /\ run' = [run EXCEPT !.submitted = Len(jobs) + 1]
    BY <1>5 DEF SubmitJob, CreateJob
  <2>2. jobs \in Seq(Job) /\ Len(jobs) \in Nat /\ job \in Job
    BY LenProperties
       DEF TypeInv, Typed, Job, JobStatus, RunMemory, Checkpoints
  <2> HIDE DEF job
  <2>3. Len(jobs) + 1 \in Created'
    BY <2>1, <2>2, AppendProperties, LenProperties DEF Created
  <2>4. /\ run'.records = run.records /\ run'.submitted = Len(jobs) + 1
        /\ run'.terminal = run.terminal
    BY <1>0, <2>1 DEF RunMemory
  <2> QED BY <1>0, <2>3, <2>4 DEF JobsInv
<1>6. CASE RunStep
  <2>1. CASE MergeReport \/ ClearAlert \/ DiagnoseReport \/ DescribeOutstanding
             \/ DescribeAgedOut \/ Recover
    BY <1>0, <1>1, <1>2, <2>1 DEF MergeReport, ClearAlert, DiagnoseReport,
         DescribeOutstanding, DescribeAgedOut, Recover, EndRun, RunMemory
  <2>2. CASE TripBreaker \/ DisableBucket \/ DisableLeased \/ Escalate \/ ClearStreak
             \/ BuildManifest \/ SubmitFails \/ PersistSubmission
    BY <1>1, <2>2 DEF TripBreaker, DisableBucket, DisableLeased, Escalate,
         ClearStreak, BuildManifest, SubmitFails, PersistSubmission
  <2>3. CASE ReadJournal \/ BoundRead \/ ReadFails \/ AcquireLease \/ ReleaseLease
             \/ CommitScored \/ Crash
    BY <1>0, <1>1, <1>2, <2>3 DEF ReadJournal, BoundRead, CountTail, FindBoundary, FindFloor,
                                  TakeUp, ReadFails,
         AcquireLease, ReleaseLease, CommitScored, Crash, EndRun, RunMemory
  <2> QED BY <1>3, <1>4, <1>5, <1>6, <2>1, <2>2, <2>3 DEF RunStep
<1>7. CASE ~ RunStep
  <2>1. run' = run
    BY <1>7 DEF Next, TagObject, JobStep, JobEnds, CheckerStep, CheckerAlerts,
         CheckerReads, Reenable, vars
  <2> QED BY <1>1, <2>1
<1> QED BY <1>6, <1>7

\* A step that removes a record disables the bucket, or persists a submission;
\* that one removes settled records, and others only above the ceiling.
LEMMA RemovalStep ==
  ASSUME TypeInv, JobsInv, [Next]_vars,
         NEW j \in DOMAIN state.records \ DOMAIN state'.records
  PROVE  \/ state'.disabled
         \/ /\ Finished(j)
            /\ state.records[j].diagnosed
            /\ TrackingOn => j \in state.processed
         \/ Cardinality(DOMAIN state.records) >= Ceiling
<1>0. state \in StateObject /\ state.records \in RecordMaps
  BY DEF TypeInv, Typed, StateObject
<1>1. CASE state'.records = state.records
  BY <1>1
<1>2. CASE \E i \in JobIds : state' \in {MarkedDiagnosed(i), MarkedScored(i)}
  BY <1>0, <1>2 DEF MarkedDiagnosed, MarkedScored, StateObject
<1>3. CASE state' = Disabled
  BY <1>0, <1>3 DEF Disabled, StateObject
<1>4. CASE state' = [state EXCEPT !.cp.lease = run.candidate] \/ state' = Released
  BY <1>0, <1>4 DEF Released, StateObject
<1>5. CASE state' = Recorded
  <2> DEFINE record  == [failures |-> run.failures, at |-> run.submitted,
                         low |-> run.cp.watermark,
                         diagnosed |-> FALSE, scored |-> FALSE]
             next    == RecordSubmission(state.records, run.submitted, record,
                                         run.terminal, state.processed)
  <2>1. state'.records = next
    BY <1>0, <1>5 DEF Recorded, StateObject
  <2> HIDE DEF record
  <2>2. run.submitted \in DOMAIN next
    BY RecordSubmissionKeeps
  <2>3. j # run.submitted /\ j \notin DOMAIN next
    BY <2>1, <2>2
  <2>4. \/ Settled(state.records, j, run.terminal, state.processed)
        \/ Cardinality(DOMAIN state.records) >= Ceiling
    BY <1>0, <2>3, RecordMapFinite, RecordSubmissionRemoves
  <2> QED BY <2>4 DEF Settled, JobsInv
<1> QED BY <1>1, <1>2, <1>3, <1>4, <1>5, StateSteps

\* A record outlives whatever its report is still needed for: it goes only with
\* the bucket disabled, its job finished and its report read, or the map full.
THEOREM ReportsKept == Spec => UnreadReportsKept
<1> DEFINE Removals ==
      \A j \in DOMAIN state.records \ DOMAIN state'.records :
          \/ state'.disabled
          \/ /\ Finished(j)
             /\ state.records[j].diagnosed
             /\ TrackingOn => j \in state.processed
          \/ Cardinality(DOMAIN state.records) >= Ceiling
<1>1. Init => TypeInv /\ JobsInv
  <2>1. Init => JobsInv
    BY NoRunTyped DEF Init, JobsInv, EmptyState, NoRun
  <2> QED BY <2>1, TypeInit
<1>2. TypeInv /\ JobsInv /\ [Next]_vars => (TypeInv /\ JobsInv)'
  <2>1. ASSUME TypeInv, JobsInv, [Next]_vars PROVE JobsInv'
    <3>1. DOMAIN state'.records \subseteq Created'
      BY <2>1, StoredJobsStep, JobsStep
    <3> QED BY <2>1, <3>1, RunJobsStep DEF JobsInv
  <2> QED BY <2>1, TypeStep
<1>3. TypeInv /\ JobsInv /\ [Next]_vars => [Removals]_vars
  BY RemovalStep
<1> QED BY <1>1, <1>2, <1>3, PTL DEF Spec, UnreadReportsKept
=============================================================================
