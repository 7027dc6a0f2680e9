------------------------ MODULE BucketSequenceProofs ------------------------
(***************************************************************************)
(* What holds of BucketRun where the runs keep count of the running jobs:  *)
(* the limit on them is kept, a failed job's work is retried, the runs are *)
(* the intake of TagIntake and, one job at a time, the counter of each     *)
(* record is exact.  The kinds of fault that make a run lose count are the *)
(* hypothesis.                                                             *)
(***************************************************************************)
EXTENDS BucketSafetyProofs

USE DEF JobIds, NoJob, StateObjects, RunMemories

\* Every run learns of the jobs before it from the records.
RunsCount ==
    {"write", "lostReply", "overdue", "crash", "timeout", "records", "aged"}
        \cap Faults = {}

\* And no record is lost while its job runs: with more than one job at a time, not
\* to a bucket that is disabled over the failure of another.
JobsCounted ==
    /\ RunsCount
    /\ MaxConcurrent = 1 \/ {"jobFails", "rejected"} \cap Faults = {}

Newest == Len(jobs)

\* The job just submitted, until its record is stored.
Unrecorded(j) == j = run.submitted /\ pc \in {"clear", "release", "persist"}

\* A running job is in the records, the run takes each one that it read for
\* running or finished, and goes on only with room for one more.
RecordedInv ==
    /\ \A j \in Created : Finished(j) \/ j \in DOMAIN state.records \/ Unrecorded(j)
    /\ pc \notin {"idle", "mark"} => DOMAIN state.records \subseteq DOMAIN run.records
    /\ pc \in Reading =>
          DOMAIN run.records \subseteq run.todo \cup run.outstanding \cup run.terminal
    /\ pc = "recover" => run.todo = {}
    /\ pc \notin Reading \cup {"idle", "disable", "mark"} =>
          /\ DOMAIN run.records \subseteq run.outstanding \cup run.terminal
          /\ Cardinality(run.outstanding) < MaxConcurrent
    /\ run.submitted # NoJob => run.submitted \notin run.terminal

\* No record is lost that a running job needs, and none is one job too many.
LimitInv ==
    /\ RecordedInv
    /\ pc \in {"disable", "escalate", "disableLeased"} => \A j \in Created : Finished(j)
    /\ ConcurrencyBound

\* What a step that disables the bucket loses is over.
NoneLost == (DisableBucket \/ DisableLeased) /\ state' = Disabled
               => \A j \in Created : Finished(j)

\* One at a time, each job is over before the next, and its failure is spent.
OrderInv ==
    /\ \A j \in run.terminal :
           j \in run.scoring \/ run.records[j].scored \/ pc = "mark"
    /\ IF MaxConcurrent = 1
         THEN \A j \in Created : j # Newest => Spent(j) /\ Finished(j)
         ELSE \A j \in Created : jobs[j].status # "Failed"

LEMMA RunsCountFaults ==
  ASSUME RunsCount
  PROVE  /\ TakesLand /\ PutsLand
         /\ \A kind \in {"write", "lostReply", "overdue", "crash", "timeout",
                         "records", "aged"} : ~ Fault(kind)
BY DEF RunsCount, TakesLand, PutsLand, Fault

LEMMA JobsCountedFaults ==
  ASSUME JobsCounted
  PROVE  /\ RunsCount /\ TakesLand /\ PutsLand
         /\ MaxConcurrent # 1 => ~ Fault("jobFails") /\ ~ Fault("rejected")
BY RunsCountFaults DEF JobsCounted, Fault

\* Sets of jobs are finite.
LEMMA JobSetsFinite ==
  ASSUME NEW S \in SUBSET JobIds
  PROVE  IsFiniteSet(S) /\ Cardinality(S) \in Nat
<1>1. IsFiniteSet(1..MaxJobs)
  BY FS_Interval, BucketRunAssumption
<1> QED BY <1>1, FS_Subset, FS_CardinalityType

\* How a run works off the jobs that it read.
LEMMA DescribedSteps ==
  ASSUME TypeInv, [Next]_vars, ~ Fault("aged")
  PROVE  \/ /\ run'.todo = run.todo /\ run'.outstanding = run.outstanding
            /\ run'.terminal = run.terminal
         \/ EndRun
         \/ \E records : Begin(records)
         \/ /\ pc = "describe" /\ pc' \in Reading
            /\ \E j \in run.todo : /\ run'.todo = run.todo \ {j}
                                   /\ run'.outstanding \cup run'.terminal
                                        = run.outstanding \cup run.terminal \cup {j}
            /\ UNCHANGED <<jobs, state>> /\ run'.submitted = run.submitted
<1>0. run \in RunMemory
  BY DEF TypeInv, Typed
<1>1. CASE ~ RunStep
  BY <1>1, OutsideSteps
<1>2. CASE DescribeOutstanding \/ \E readable \in BOOLEAN : DescribeTerminal(readable)
  <2>1. pc = "describe" /\ run.todo # {} /\ pc' \in {"describe", "merge"}
        /\ UNCHANGED <<jobs, state>>
    BY <1>2 DEF DescribeOutstanding, DescribeTerminal, GoTo
  <2>2. First(run.todo) \in run.todo
    BY <1>0, <2>1, FirstIsMember DEF RunMemory
  <2>3. /\ run'.todo = run.todo \ {First(run.todo)} /\ run'.submitted = run.submitted
        /\ run'.outstanding \cup run'.terminal
             = run.outstanding \cup run.terminal \cup {First(run.todo)}
    BY <1>0, <1>2 DEF DescribeOutstanding, DescribeTerminal, RunMemory
  <2> QED BY <2>1, <2>2, <2>3 DEF Reading
<1>3. CASE MergeReport \/ ClearAlert \/ TripBreaker \/ DisableBucket \/ BuildManifest
           \/ SubmitFails \/ ClearStreak \/ Escalate \/ DisableLeased
           \/ PersistSubmission
  BY <1>3 DEF MergeReport, ClearAlert, TripBreaker, DisableBucket, BuildManifest,
       SubmitFails, ClearStreak, Escalate, DisableLeased, PersistSubmission
<1>4. CASE DiagnoseReport \/ Recover \/ ReadJournal \/ BoundRead \/ ReadFails
           \/ AcquireLease \/ SubmitJob \/ ReleaseLease \/ Crash \/ CommitScored
  <2>1. CASE ~ EndRun
    BY <1>0, <1>4, <2>1 DEF DiagnoseReport, Recover, ReadJournal,
       BoundRead, CountTail, FindBoundary, FindFloor, ReadFails, TakeUp, AcquireLease, SubmitJob,
       ReleaseLease,
       Crash, CommitScored, RunMemory
  <2> QED BY <2>1
<1>5. StartRun \/ StartRunBlind => \E records : Begin(records)
  BY DEF StartRun, StartRunBlind
<1>6. ~ DescribeAgedOut
  BY DEF DescribeAgedOut
<1> QED BY <1>1, <1>2, <1>3, <1>4, <1>5, <1>6 DEF RunStep

\* A run that has sorted all it read into running and finished jobs goes on with
\* room for one more.
LEMMA RoomStep ==
  ASSUME TypeInv, RunsCount, RecordedInv, [Next]_vars
  PROVE  /\ pc' \in Reading =>
              DOMAIN run'.records \subseteq run'.todo \cup run'.outstanding \cup run'.terminal
         /\ pc' = "recover" => run'.todo = {}
         /\ pc' \notin Reading \cup {"idle", "disable", "mark"} =>
              /\ DOMAIN run'.records \subseteq run'.outstanding \cup run'.terminal
              /\ Cardinality(run'.outstanding) < MaxConcurrent
<1> USE RunsCountFaults
<1>0. run \in RunMemory
  BY DEF TypeInv, Typed
<1>1. CASE EndRun
  BY <1>1 DEF EndRun, GoTo, Reading
<1>2. CASE \E records : Begin(records)
  <2>1. PICK records : Begin(records)
    BY <1>2
  <2>2. run'.records = records /\ run'.todo = DOMAIN records /\ pc' = "describe"
    BY <2>1 DEF Begin, NoRun, GoTo
  <2> QED BY <2>2 DEF Reading
<1>3. ~ EndRun /\ ~ (\E records : Begin(records)) => run'.records = run.records
  BY ScoringSteps
<1>4. CASE /\ pc = "describe" /\ pc' \in Reading
           /\ \E j \in run.todo : /\ run'.todo = run.todo \ {j}
                                  /\ run'.outstanding \cup run'.terminal
                                       = run.outstanding \cup run.terminal \cup {j}
           /\ ~ EndRun /\ ~ \E records : Begin(records)
  <2>1. pc' # "recover"
    BY <1>4, PlaceSteps DEF Reading
  <2> QED BY <1>3, <1>4, <2>1 DEF RecordedInv, Reading
<1>5. CASE /\ run'.todo = run.todo /\ run'.outstanding = run.outstanding
           /\ run'.terminal = run.terminal
           /\ ~ EndRun /\ ~ \E records : Begin(records)
  <2>1. CASE pc' = pc
    BY <1>3, <1>5, <2>1 DEF RecordedInv
  <2>2. CASE Recover
    <3>1. /\ run.todo = {} /\ pc \in Reading
      BY <2>2 DEF Recover, Recovering, RecordedInv, Reading
    <3>2. ~ AtLimit /\ pc' = "count"
      BY <1>5, <2>2 DEF Recover, GoTo
    <3>3. Cardinality(run.outstanding) < MaxConcurrent
      <4>1. Cardinality(run.outstanding) \in Nat /\ MaxConcurrent \in Nat
        BY <1>0, JobSetsFinite, RecordsAssumption DEF RunMemory
      <4> QED BY <3>2, <4>1 DEF AtLimit
    <3> QED BY <1>3, <1>5, <3>1, <3>2, <3>3 DEF RecordedInv, Reading
  <2>3. CASE DiagnoseReport
    <3>1. pc' = IF run.todo = {} THEN "recover" ELSE "describe"
      BY <2>3 DEF DiagnoseReport, GoTo
    <3> QED BY <1>3, <1>5, <2>3, <3>1 DEF RecordedInv, Reading, DiagnoseReport
  <2>4. CASE pc' # pc /\ ~ Recover /\ ~ DiagnoseReport
    <3>1. RunStep
      BY <2>4, OutsideSteps
    <3>2. pc' # "idle" /\ pc # "idle"
      BY <1>5, <2>4, <3>1, StepsByPlace, PlaceSteps DEF StartRun, StartRunBlind, EndRun, GoTo
    <3>3. pc \in {"describe", "recover"} => pc' \in {"merge", "disable"}
      BY <1>5, <2>4, <3>1, <3>2, StepsByPlace
         DEF DescribeOutstanding, DescribeAgedOut, DescribeTerminal, TripBreaker, GoTo,
             Crash, EndRun
    <3>4. pc # "diagnose"
      BY <2>4, <3>1, <3>2, StepsByPlace DEF Crash, EndRun, GoTo
    <3>5. \/ pc \in Reading /\ pc' \in Reading \cup {"disable"} /\ pc' # "recover"
          \/ pc \notin Reading \cup {"idle", "disable", "mark"} /\ pc' \notin Reading
          \/ pc' = "mark"
      BY <2>4, <3>2, <3>3, <3>4, PlaceSteps DEF Reading
    <3> QED BY <1>3, <1>5, <3>5 DEF RecordedInv, Reading
  <2> QED BY <2>1, <2>2, <2>3, <2>4
<1> QED BY <1>1, <1>2, <1>4, <1>5, DescribedSteps

\* A submission that is persisted keeps its record and every one that the run did
\* not find finished.
LEMMA PersistKeepsOpen ==
  ASSUME TypeInv, RecordedInv, PersistSubmission,
         NEW j \in DOMAIN state.records \cup {run.submitted}, j \notin run.terminal
  PROVE  j \in DOMAIN Recorded.records
<1> DEFINE next == RecordSubmission(state.records, run.submitted, OwnRecord,
                                    run.terminal, state.processed)
           open == (DOMAIN state.records \cup {run.submitted}) \ run.terminal
<1>0. /\ state \in StateObject /\ run \in RunMemory /\ pc = "persist"
      /\ run.submitted # NoJob
  BY DEF TypeInv, Typed, PersistSubmission, MemoryCoherent
<1>1. Recorded.records = next
  BY <1>0 DEF Recorded, StateObject, OwnRecord
<1>2. CASE j = run.submitted
  BY <1>1, <1>2, RecordSubmissionKeeps
<1>3. CASE j # run.submitted
  <2>1. j \in DOMAIN state.records
    BY <1>3
  <2>2. IsFiniteSet(DOMAIN state.records)
    BY <1>0, RecordMapFinite DEF StateObject
  <2>3. /\ open \subseteq run.outstanding \cup {run.submitted}
        /\ Cardinality(run.outstanding) < MaxConcurrent
    BY <1>0 DEF RecordedInv, Reading
  <2>4. /\ run.outstanding \in SUBSET JobIds
        /\ run.outstanding \cup {run.submitted} \in SUBSET JobIds
    BY <1>0 DEF RunMemory
  <2> HIDE DEF open
  <2>5. Cardinality(open) <= Cardinality(run.outstanding \cup {run.submitted})
    BY <2>3, <2>4, JobSetsFinite, FS_Subset
  <2>6. Cardinality(run.outstanding \cup {run.submitted})
          <= Cardinality(run.outstanding) + 1
    <3>1. Cardinality(run.outstanding) \in Nat
      BY <2>4, JobSetsFinite
    <3>2. Cardinality(run.outstanding \cup {run.submitted})
            = IF run.submitted \in run.outstanding THEN Cardinality(run.outstanding)
              ELSE Cardinality(run.outstanding) + 1
      BY <2>4, JobSetsFinite, FS_AddElement
    <3> QED BY <3>1, <3>2
  <2>7. Cardinality(open) <= Ceiling
    <3>1. /\ Cardinality(run.outstanding) \in Nat
          /\ Cardinality(run.outstanding \cup {run.submitted}) \in Nat
          /\ open \in SUBSET JobIds
      BY <2>3, <2>4, JobSetsFinite
    <3>2. Cardinality(open) \in Nat
      BY <3>1, JobSetsFinite
    <3> QED BY <2>3, <2>5, <2>6, <3>1, <3>2, RecordsAssumption DEF Ceiling
  <2>8. run.submitted \notin run.terminal
    BY <1>0 DEF RecordedInv
  <2> HIDE DEF next
  <2> QED BY <1>1, <2>1, <2>2, <2>7, <2>8, RecordSubmissionKeepsRunning DEF open, next
<1> QED BY <1>2, <1>3

\* A new job comes from SubmitJob only.
LEMMA CreatedBySubmit ==
  ASSUME TypeInv, RunsCount, [Next]_vars
  PROVE  \/ jobs' = jobs
         \/ /\ SubmitJob /\ CreateJob /\ run'.submitted = Len(jobs) + 1
            /\ run'.terminal = run.terminal /\ run'.scoring = run.scoring
            /\ run'.records = run.records /\ run'.outstanding = run.outstanding
         \/ \E j \in Created, status \in {"Complete", "Failed"} : JobEnds(j, status)
<1> USE RunsCountFaults
<1>1. ~ (SubmitFails /\ jobs' # jobs)
  BY DEF SubmitFails
<1>2. SubmitJob => /\ CreateJob /\ run'.submitted = Len(jobs) + 1
                   /\ run'.terminal = run.terminal /\ run'.scoring = run.scoring
                   /\ run'.records = run.records /\ run'.outstanding = run.outstanding
  BY DEF SubmitJob, TypeInv, Typed, RunMemory
<1> QED BY <1>1, <1>2, JobSteps

\* The record of a submission is written.
LEMMA PersistLands ==
  ASSUME PutsLand, PutInv, PersistSubmission
  PROVE  state' = Recorded
<1>1. fresh
  BY DEF PutInv, Stale, PersistSubmission
<1> QED BY <1>1, LandedPuts DEF PersistSubmission

\* The job just submitted is on its way until its record is stored.
LEMMA UnrecordedStep ==
  ASSUME TypeInv, RunsCount, PutInv, [Next]_vars, NEW j \in Created, Unrecorded(j)
  PROVE  Unrecorded(j)' \/ (PersistSubmission /\ state' = Recorded)
<1> USE RunsCountFaults
<1>1. CASE PersistSubmission
  BY <1>1, PersistLands
<1>2. CASE ~ PersistSubmission
  <2>1. run.submitted # NoJob
    BY LenProperties DEF TypeInv, Typed, Created, Unrecorded
  <2>2. run'.submitted = run.submitted /\ pc' \in {"clear", "release", "persist"}
    <3>1. CASE ~ RunStep
      BY <3>1, OutsideSteps DEF Unrecorded
    <3>2. CASE ClearStreak
      BY <3>2 DEF ClearStreak, GoTo
    <3>3. CASE ReleaseLease
      BY <2>1, <3>3, ReleaseLands
    <3>4. ~ Crash
      BY DEF Crash
    <3> QED BY <1>2, <3>1, <3>2, <3>3, <3>4, StepsByPlace DEF Unrecorded
  <2> QED BY <2>2 DEF Unrecorded
<1> QED BY <1>1, <1>2

\* The jobs that run are in the records, or about to be.
LEMMA CountedStep ==
  ASSUME TypeInv, JobsInv, RunsCount, PutInv, RecordedInv, [Next]_vars, NoneLost,
         NEW j \in Created', ~ Finished(j)'
  PROVE  j \in DOMAIN state'.records \/ Unrecorded(j)'
<1> USE RunsCountFaults
<1>0. state \in StateObject /\ run \in RunMemory
  BY DEF TypeInv, Typed
<1>1. CASE SubmitJob /\ j \notin Created
  <2>1. CreateJob /\ run'.submitted = Len(jobs) + 1 /\ pc' = "clear"
    BY <1>0, <1>1 DEF SubmitJob, RunMemory, GoTo
  <2> QED BY <1>1, <2>1, JobCreated DEF Unrecorded
<1>2. CASE j \in Created
  <2>1. ~ Finished(j)
    BY <1>2, JobsKept DEF Finished
  <2>2. ~ ((DisableBucket \/ DisableLeased) /\ state' = Disabled)
    BY <1>2, <2>1 DEF NoneLost
  <2>3. CASE PersistSubmission
    <3>1. state' = Recorded
      BY <2>3, PersistLands
    <3>2. j \in DOMAIN state.records \cup {run.submitted} /\ j \notin run.terminal
      BY <1>2, <2>1 DEF RecordedInv, Unrecorded, JobsInv
    <3> QED BY <2>3, <3>1, <3>2, PersistKeepsOpen
  <2>4. CASE j \in DOMAIN state.records /\ ~ PersistSubmission
    <3>1. DOMAIN state'.records = DOMAIN state.records
      <4>1. /\ DOMAIN MarkedDiagnosed(run.job).records = DOMAIN state.records
            /\ DOMAIN MarkedScored(First(run.scoring)).records = DOMAIN state.records
        BY <1>0 DEF MarkedDiagnosed, MarkedScored, StateObject
      <4> QED BY <2>2, <2>4, <4>1, RecordsStep
    <3> QED BY <2>4, <3>1
  <2>5. CASE Unrecorded(j) /\ ~ PersistSubmission
    BY <1>2, <2>5, UnrecordedStep
  <2> QED BY <1>2, <2>1, <2>3, <2>4, <2>5 DEF RecordedInv
<1>3. j \in Created \/ SubmitJob
  <2>1. CASE jobs' = jobs
    BY <2>1 DEF Created
  <2>2. CASE \E i \in Created, status \in {"Complete", "Failed"} : JobEnds(i, status)
    BY <2>2, JobEnded
  <2> QED BY <2>1, <2>2, CreatedBySubmit
<1> QED BY <1>1, <1>2, <1>3

\* A run that may still submit has found every running job running.
LEMMA RunningIsOutstanding ==
  ASSUME TypeInv, JobsInv, RecordedInv,
         pc \in Bounding \cup {"acquire", "build", "submit", "escalate", "disableLeased"}
  PROVE  ActiveJobs \subseteq run.outstanding /\ Cardinality(run.outstanding) < MaxConcurrent
<1>1. \A j \in ActiveJobs : j \in DOMAIN state.records /\ j \notin run.terminal
  BY DEF RecordedInv, Unrecorded, ActiveJobs, JobsInv, Bounding
<1>2. /\ DOMAIN state.records \subseteq run.outstanding \cup run.terminal
      /\ Cardinality(run.outstanding) < MaxConcurrent
  BY DEF RecordedInv, Reading, Bounding
<1> QED BY <1>1, <1>2

\* One at a time, none of them runs then.
LEMMA NoneRunning ==
  ASSUME TypeInv, JobsInv, LimitInv, MaxConcurrent = 1,
         pc \in Bounding \cup {"acquire", "build", "submit", "escalate", "disableLeased"}
  PROVE  run.outstanding = {} /\ \A j \in Created : Finished(j)
<1>1. ActiveJobs \subseteq run.outstanding /\ Cardinality(run.outstanding) < 1
  BY RunningIsOutstanding DEF LimitInv
<1>2. run.outstanding \in SUBSET JobIds
  BY DEF TypeInv, Typed, RunMemory
<1>3. run.outstanding = {}
  <2>1. Cardinality(run.outstanding) = 0
    BY <1>1, <1>2, JobSetsFinite
  <2> QED BY <1>2, <2>1, JobSetsFinite, FS_EmptySet
<1> QED BY <1>1, <1>3 DEF ActiveJobs

\* No step takes the running jobs above the limit.
LEMMA BoundStep ==
  ASSUME TypeInv, JobsInv, JobsCounted, LimitInv, [Next]_vars
  PROVE  ConcurrencyBound'
<1>1. IsFiniteSet(ActiveJobs) /\ Cardinality(ActiveJobs) \in Nat
  BY CreatedFinite DEF ActiveJobs
<1>2. CASE ActiveJobs' \subseteq ActiveJobs
  <2>1. Cardinality(ActiveJobs') <= Cardinality(ActiveJobs) /\ IsFiniteSet(ActiveJobs')
    BY <1>1, <1>2, FS_Subset
  <2>2. Cardinality(ActiveJobs') \in Nat
    BY <2>1, FS_CardinalityType
  <2> QED BY <1>1, <2>1, <2>2, RecordsAssumption DEF LimitInv, ConcurrencyBound
<1>3. CASE SubmitJob /\ CreateJob
  <2> DEFINE n == Len(jobs) + 1
  <2>1. ActiveJobs' = ActiveJobs \cup {n} /\ n \notin ActiveJobs
    BY <1>3, JobCreated DEF ActiveJobs, Finished
  <2> HIDE DEF n
  <2>2. Cardinality(ActiveJobs') = Cardinality(ActiveJobs) + 1
    BY <1>1, <2>1, FS_AddElement
  <2>3. ActiveJobs \subseteq run.outstanding /\ Cardinality(run.outstanding) < MaxConcurrent
    BY <1>3, RunningIsOutstanding DEF SubmitJob, LimitInv
  <2>4. run.outstanding \in SUBSET JobIds
    BY DEF TypeInv, Typed, RunMemory
  <2>5. Cardinality(ActiveJobs) <= Cardinality(run.outstanding)
    BY <2>3, <2>4, JobSetsFinite, FS_Subset
  <2> QED BY <1>1, <2>2, <2>3, <2>4, <2>5, JobSetsFinite, RecordsAssumption
          DEF ConcurrencyBound
<1>4. CASE jobs' = jobs
  BY <1>2, <1>4 DEF ActiveJobs, Created, Finished
<1>5. CASE \E i \in Created, status \in {"Complete", "Failed"} : JobEnds(i, status)
  <2>1. Created' = Created /\ \A j \in Created : Finished(j) => Finished(j)'
    BY <1>5, JobEnded, JobsKept DEF Finished
  <2> QED BY <1>2, <2>1 DEF ActiveJobs
<1> QED BY <1>3, <1>4, <1>5, CreatedBySubmit, JobsCountedFaults

\* What a run still scores is not spent.
LEMMA ScoringIsUnspent ==
  ASSUME TypeInv, JobsInv, SeenInv, pc \in Early, NEW f \in run.scoring
  PROVE  /\ f \in Created /\ f \in DOMAIN state.records /\ ~ Spent(f)
         /\ f \in DOMAIN run.records /\ Agree(run.records[f], state.records[f])
<1>1. f \in DOMAIN run.records /\ ~ run.records[f].scored /\ f \in Created
  BY DEF SeenInv, TypeInv, MemoryCoherent, JobsInv
<1>2. run.submitted = NoJob
  BY DEF SeenInv, Early, Reading, Bounding
<1>3. f \in DOMAIN state.records /\ Agree(run.records[f], state.records[f])
  BY <1>1 DEF SeenInv
<1> QED BY <1>1, <1>2, <1>3 DEF Agree, Spent

\* When a failure disables the bucket, no job runs whose record would be lost.
LEMMA NoneRunningAtTrip ==
  ASSUME TypeInv, JobsInv, JobsCounted, SeenInv, LimitInv, OrderInv, TripBreaker
  PROVE  \A j \in Created : Finished(j)
<1>1. pc \in Early
  BY DEF TripBreaker, Recovering, Early, Reading, Bounding
<1>2. PICK f \in run.scoring : EffectiveFailure(jobs[f].status)
  BY DEF TripBreaker, AnyFailed, FailedIn, Outcomes
<1>3. f \in Created /\ ~ Spent(f)
  BY <1>1, ScoringIsUnspent
<1>4. jobs[f].status = "Failed"
  <2>1. jobs[f] \in Job
    BY <1>3, ElementOfSeq, LenProperties DEF Created, TypeInv, Typed
  <2> QED BY <1>2, <2>1 DEF EffectiveFailure, Job, JobStatus
<1>5. MaxConcurrent = 1 /\ f = Newest /\ Finished(f)
  BY <1>3, <1>4 DEF OrderInv, Finished
<1> QED BY <1>5 DEF OrderInv

-----------------------------------------------------------------------------
\* A run begins with the records as they are stored.
LEMMA BeginsWithRecords ==
  ASSUME TypeInv, RunsCount, [Next]_vars, NEW r, Begin(r)
  PROVE  run'.records = state.records /\ UNCHANGED <<jobs, state>> /\ pc' = "describe"
         /\ pc = "idle" /\ run'.terminal = {} /\ run'.submitted = NoJob
<1>1. pc = "idle" /\ pc' = "describe"
  BY DEF Begin, GoTo
<1>2. RunStep
  BY <1>1, OutsideSteps
<1>3. StartRun
  <2>1. ~ StartRunBlind
    BY RunsCountFaults DEF StartRunBlind
  <2> QED BY <1>1, <1>2, <2>1, StepsByPlace DEF Crash
<1> QED BY <1>1, <1>3 DEF StartRun, Begin, NoRun

\* Where every job has finished, only a submission changes that.
LEMMA FinishedStays ==
  ASSUME TypeInv, RunsCount, [Next]_vars, ~ SubmitJob, \A j \in Created : Finished(j)
  PROVE  \A j \in Created' : Finished(j)'
<1>1. Created' = Created
  BY CreatedBySubmit, JobEnded DEF Created
<1> QED BY <1>1, JobsKept DEF Finished

\* The runs learn of every job that runs, and have room for one more.
LEMMA RecordedStep ==
  ASSUME TypeInv, JobsInv, RunsCount, PutInv, RecordedInv, [Next]_vars, NoneLost
  PROVE  RecordedInv'
<1> USE RunsCountFaults
<1>0. state \in StateObject /\ run \in RunMemory
  BY DEF TypeInv, Typed
<1>1. pc' \notin {"idle", "mark"} => DOMAIN state'.records \subseteq DOMAIN run'.records
  <2> SUFFICES ASSUME pc' \notin {"idle", "mark"}
               PROVE  DOMAIN state'.records \subseteq DOMAIN run'.records
    OBVIOUS
  <2>1. CASE \E records : Begin(records)
    BY <2>1, BeginsWithRecords
  <2>2. CASE ~ \E records : Begin(records)
    <3>1. ~ EndRun /\ ~ PersistSubmission
      BY DEF EndRun, PersistSubmission, GoTo
    <3>2. run'.records = run.records
      BY <2>2, <3>1, ScoringSteps
    <3>3. pc \notin {"idle", "mark"}
      <4>1. CASE pc = "idle"
        <5>1. ~ RunStep
          BY <2>2, <4>1, StepsByPlace DEF StartRun, StartRunBlind
        <5> QED BY <4>1, <5>1, OutsideSteps
      <4>2. pc = "mark" => pc' \in {"idle", "mark"}
        BY PlaceSteps
      <4> QED BY <4>1, <4>2
    <3>4. DOMAIN state'.records \subseteq DOMAIN state.records
      BY <3>1, RecordStep
    <3> QED BY <3>2, <3>3, <3>4 DEF RecordedInv
  <2> QED BY <2>1, <2>2
<1>2. run'.submitted # NoJob => run'.submitted \notin run'.terminal
  <2> SUFFICES ASSUME run'.submitted # NoJob PROVE run'.submitted \notin run'.terminal
    OBVIOUS
  <2>1. CASE SubmitJob
    <3>1. CreateJob /\ run'.submitted = Len(jobs) + 1 /\ run'.terminal = run.terminal
      BY <1>0, <2>1 DEF SubmitJob, RunMemory
    <3> QED BY <3>1, JobCreated DEF JobsInv
  <2>2. CASE run'.submitted = run.submitted
    <3>1. run'.terminal = run.terminal
      <4>1. pc # "describe"
        BY <2>2 DEF PutInv
      <4>2. ~ EndRun
        BY DEF EndRun, NoRun
      <4>3. ~ \E records : Begin(records)
        BY BeginsWithRecords
      <4> QED BY <4>1, <4>2, <4>3, DescribedSteps
    <3> QED BY <2>2, <3>1 DEF RecordedInv
  <2> QED BY <2>1, <2>2, SubmittedSteps
<1>3. \A j \in Created' : Finished(j)' \/ j \in DOMAIN state'.records \/ Unrecorded(j)'
  BY CountedStep
<1> QED BY <1>1, <1>2, <1>3, RoomStep DEF RecordedInv

\* The runs keep count of the running jobs.
LEMMA LimitStep ==
  ASSUME TypeInv, JobsInv, JobsCounted, PutInv, SeenInv, LimitInv, OrderInv,
         [Next]_vars
  PROVE  LimitInv'
<1> USE JobsCountedFaults
<1>0. RecordedInv /\ NoneLost
  BY DEF LimitInv, NoneLost, DisableBucket, DisableLeased
<1>1. pc' \in {"disable", "escalate", "disableLeased"} => \A j \in Created' : Finished(j)'
  <2> SUFFICES ASSUME pc' \in {"disable", "escalate", "disableLeased"}
               PROVE  \A j \in Created' : Finished(j)'
    OBVIOUS
  <2>1. ~ SubmitJob
    BY DEF SubmitJob, GoTo
  <2>2. CASE pc \in {"disable", "escalate", "disableLeased"}
    BY <2>1, <2>2, FinishedStays DEF LimitInv
  <2>3. CASE pc \notin {"disable", "escalate", "disableLeased"}
    <3>1. RunStep /\ ~ EndRun /\ \A records : ~ Begin(records)
      BY <2>3, OutsideSteps DEF EndRun, Begin, GoTo
    <3>2. TripBreaker \/ SubmitFails
      BY <2>3, <3>1, StepsByPlace
         DEF StartRun, StartRunBlind, DescribeOutstanding, DescribeAgedOut,
             DescribeTerminal, MergeReport, ClearAlert, DiagnoseReport, Recover,
             ReadJournal, BoundRead, CountTail, FindBoundary, FindFloor, ReadFails, TakeUp,
             AcquireLease,
             BuildManifest, SubmitJob, ClearStreak, ReleaseLease, PersistSubmission,
             CommitScored, Crash, GoTo
    <3>3. CASE TripBreaker
      BY <2>1, <3>3, NoneRunningAtTrip, FinishedStays
    <3>4. CASE SubmitFails
      <4>1. MaxConcurrent = 1 /\ pc = "submit"
        BY <3>4 DEF SubmitFails, GoTo
      <4> QED BY <2>1, <4>1, NoneRunning, FinishedStays
    <3> QED BY <3>2, <3>3, <3>4
  <2> QED BY <2>2, <2>3
<1> QED BY <1>0, <1>1, RecordedStep, BoundStep DEF LimitInv

\* A job that ends is not a new one.
LEMMA NewestStays ==
  ASSUME TypeInv, NEW i \in Created, NEW status \in {"Complete", "Failed"},
         JobEnds(i, status)
  PROVE  Newest' = Newest /\ Created' = Created
<1>1. /\ jobs \in Seq(Job) /\ Created = 1..Len(jobs) /\ jobs[i] \in Job
  BY LenProperties, ElementOfSeq DEF Created, TypeInv, Typed
<1>2. /\ jobs' = [jobs EXCEPT ![i] = [jobs[i] EXCEPT !.status = status]]
      /\ [jobs[i] EXCEPT !.status = status] \in Job
  BY <1>1 DEF JobEnds, Job, JobStatus
<1>3. Len(jobs') = Len(jobs)
  BY <1>1, <1>2, ExceptSeq
<1> QED BY <1>3, JobEnded DEF Newest

\* One at a time, a run that submits has seen the job before it to its end.
LEMMA OrderStep ==
  ASSUME TypeInv, JobsInv, JobsCounted, PutInv, SeenInv, LimitInv, OrderInv,
         [Next]_vars
  PROVE  OrderInv'
<1> USE JobsCountedFaults
<1>0. run \in RunMemory
  BY DEF TypeInv, Typed
<1>1. ASSUME NEW j \in run'.terminal
      PROVE  j \in run'.scoring \/ run'.records[j].scored \/ pc' = "mark"
  <2>1. ~ EndRun /\ ~ \E records : Begin(records)
    BY <1>1, BeginsWithRecords DEF EndRun, NoRun
  <2>2. pc = "mark" => pc' = "mark"
    BY <2>1, PlaceSteps DEF EndRun, GoTo
  <2> QED BY <1>1, <2>1, <2>2, ScoringSteps DEF OrderInv, CommitScored
<1>2. CASE MaxConcurrent # 1
  <2>1. ASSUME NEW j \in Created' PROVE jobs'[j].status # "Failed"
    <3>1. CASE jobs' = jobs
      BY <1>2, <2>1, <3>1 DEF OrderInv, Created
    <3>2. CASE SubmitJob /\ CreateJob
      BY <1>2, <2>1, <3>2, JobCreated DEF OrderInv
    <3>3. CASE \E i \in Created, status \in {"Complete", "Failed"} : JobEnds(i, status)
      <4>1. PICK i \in Created, status \in {"Complete", "Failed"} : JobEnds(i, status)
        BY <3>3
      <4>2. status # "Failed"
        BY <1>2, <4>1 DEF JobEnds
      <4> QED BY <1>2, <2>1, <4>1, <4>2, JobEnded DEF OrderInv
    <3> QED BY <3>1, <3>2, <3>3, CreatedBySubmit
  <2> QED BY <1>1, <1>2, <2>1 DEF OrderInv
<1>3. CASE MaxConcurrent = 1
  <2>1. ASSUME NEW j \in Created', j # Newest' PROVE Spent(j)' /\ Finished(j)'
    <3>1. CASE j \in Created /\ j # Newest
      BY <1>3, <3>1, SpentStays, JobsKept DEF OrderInv, Finished
    <3>2. CASE SubmitJob /\ CreateJob /\ j = Newest
      <4>1. /\ j \in Created /\ run'.submitted = j + 1 /\ j + 1 \notin Created
            /\ run'.submitted # NoJob /\ run'.scoring = run.scoring
            /\ pc = "submit" /\ UNCHANGED state
        <5>1. /\ Len(jobs) \in Nat /\ Len(jobs) + 1 # NoJob
              /\ Created = 1..Len(jobs) /\ Created' = Created \cup {Len(jobs) + 1}
          BY <3>2, JobCreated, LenProperties DEF TypeInv, Typed, Created
        <5>2. j # Len(jobs) + 1
          BY <3>2, <5>1 DEF Newest
        <5>3. /\ run'.submitted = Len(jobs) + 1 /\ run'.scoring = run.scoring
              /\ pc = "submit" /\ UNCHANGED state
          BY <1>0, <3>2 DEF SubmitJob, RunMemory
        <5> QED BY <2>1, <3>2, <5>1, <5>2, <5>3 DEF Newest
      <4>2. Finished(j) /\ run.outstanding = {}
        BY <1>3, <4>1, NoneRunning
      <4>3. j \in DOMAIN state.records => j \in run.scoring \/ state.records[j].scored
        <5> SUFFICES ASSUME j \in DOMAIN state.records
                     PROVE  j \in run.scoring \/ state.records[j].scored
          OBVIOUS
        <5>1. j \in DOMAIN run.records /\ j \in run.terminal
          BY <4>1, <4>2 DEF LimitInv, RecordedInv, Reading
        <5>2. Agree(run.records[j], state.records[j])
          BY <4>1, <5>1 DEF SeenInv, Early
        <5> QED BY <4>1, <5>1, <5>2 DEF OrderInv, Agree
      <4>4. j # run'.submitted
        BY <4>1
      <4> QED BY <4>1, <4>2, <4>3, <4>4, JobsKept DEF Spent, Finished
    <3>3. \/ j \in Created /\ j # Newest
          \/ SubmitJob /\ CreateJob /\ j = Newest
      <4>1. CASE jobs' = jobs
        BY <2>1, <4>1 DEF Newest, Created
      <4>2. CASE SubmitJob /\ CreateJob
        <5>1. Newest' = Len(jobs) + 1
          BY <4>2, AppendProperties, CreateJobTyped DEF CreateJob, Newest, TypeInv, Typed
        <5>2. j \in Created' /\ j # Len(jobs) + 1
          BY <2>1, <5>1
        <5>3. j \in Created
          BY <4>2, <5>2, JobCreated
        <5> QED BY <4>2, <5>3
      <4>3. CASE \E i \in Created, status \in {"Complete", "Failed"} : JobEnds(i, status)
        <5>1. Newest' = Newest /\ Created' = Created
          BY <4>3, NewestStays
        <5> QED BY <2>1, <5>1
      <4> QED BY <4>1, <4>2, <4>3, CreatedBySubmit
    <3> QED BY <3>1, <3>2, <3>3
  <2> QED BY <1>1, <1>3, <2>1 DEF OrderInv
<1> QED BY <1>2, <1>3

\* What keeps the count of the jobs, from the first state on.
CountInv == TypeInv /\ JobsInv /\ PutInv /\ SeenInv /\ LimitInv /\ OrderInv

LEMMA CountInit == Init => CountInv
<1> SUFFICES ASSUME Init PROVE CountInv
  OBVIOUS
<1>1. Created = {}
  BY DEF Init, Created
<1>2. JobsInv
  BY NoRunTyped DEF Init, JobsInv, EmptyState, NoRun
<1>3. ConcurrencyBound
  <2>1. ActiveJobs = {}
    BY <1>1 DEF ActiveJobs
  <2> QED BY <2>1, FS_EmptySet, RecordsAssumption DEF ConcurrencyBound
<1>4. LimitInv
  BY <1>1, <1>3, NoRunTyped DEF Init, LimitInv, RecordedInv, NoRun, Reading
<1>5. OrderInv
  BY <1>1 DEF Init, OrderInv, NoRun
<1> QED BY <1>2, <1>4, <1>5, TypeInit, PutInit, SeenInit DEF CountInv

LEMMA CountStep ==
  ASSUME JobsCounted, CountInv, [Next]_vars
  PROVE  CountInv'
<1>1. JobsInv'
  BY StoredJobsStep, JobsStep, RunJobsStep DEF CountInv, JobsInv
<1> QED BY <1>1, JobsCountedFaults, TypeStep, PutStep, SeenStep, LimitStep, OrderStep
        DEF CountInv

\* ConcurrencyBound: as long as no run loses count of the jobs before it, and with
\* more than one job at a time the bucket is not disabled under a running one,
\* no submission goes over MaxConcurrentJobsPerBucket, though the records are
\* pruned and evicted, jobs cannot be described and runs end early
\* (_process_bucket, _prune_settled_records).
THEOREM LimitKept ==
  ASSUME JobsCounted
  PROVE  Spec => []ConcurrencyBound
<1>1. CountInv => ConcurrencyBound
  BY DEF CountInv, LimitInv
<1> QED BY <1>1, CountInit, CountStep, PTL DEF Spec

-----------------------------------------------------------------------------
\* A batch that is submitted has something in it, all of it visible and matching.
BatchInv ==
    /\ run.batch \subseteq journal \cap Matching
    /\ pc = "submit" => run.batch # {}

LEMMA BatchInvStep ==
  ASSUME TypeInv, BatchInv, [Next]_vars
  PROVE  BatchInv'
<1>0. run \in RunMemory /\ journal \in SUBSET Op
  BY DEF TypeInv, Typed
<1>1. journal \subseteq journal'
  BY JournalSteps DEF TagObject
<1>2. run'.batch \subseteq journal \cap Matching
  <2>1. CASE Remembered(run') = Remembered(run)
    BY <2>1 DEF Remembered, BatchInv
  <2>2. CASE EndRun
    BY <2>2 DEF EndRun, NoRun
  <2>3. CASE \E records \in {state.records, NoRecords} : Begin(records)
    <3>1. run'.batch = {}
      BY <2>3 DEF Begin, NoRun
    <3> QED BY <3>1
  <2>4. CASE run' = [run EXCEPT !.failures = Plan.failures, !.cp = RolledBack]
    BY <1>0, <2>4 DEF RunMemory, BatchInv
  <2>5. CASE TakeUp(RowsRead(journal))
    <3>1. PICK rows \in SUBSET journal : TakeUp(rows)
      BY <2>5 DEF RowsRead, RowsUpTo
    <3>2. CASE ~ EndRun
      BY <1>0, <3>1, <3>2, TakeUpTakes
    <3> QED BY <2>2, <3>2
  <2>6. CASE SubmitJob
    BY <1>0, <2>6 DEF SubmitJob, RunMemory, BatchInv
  <2> QED BY <2>1, <2>2, <2>3, <2>4, <2>5, <2>6, RunSteps
<1>3. pc' = "submit" => run'.batch # {}
  <2> SUFFICES ASSUME pc' = "submit" PROVE run'.batch # {}
    OBVIOUS
  <2>1. CASE ~ RunStep
    BY <2>1, OutsideSteps DEF BatchInv
  <2>2. CASE RunStep
    <3>1. ~ EndRun
      BY DEF EndRun, GoTo
    <3>2. pc = "build"
      <4>1. pc # "submit"
        BY <2>2, <3>1, StepsByPlace DEF SubmitJob, SubmitFails, Crash, GoTo
      <4> QED BY <3>1, <4>1, PlaceSteps DEF EndRun, GoTo
    <3>3. BuildManifest
      BY <2>2, <3>1, <3>2, StepsByPlace DEF Crash
    <3> QED BY <3>3 DEF BuildManifest, GoTo
  <2> QED BY <2>1, <2>2
<1> QED BY <1>1, <1>2, <1>3 DEF BatchInv

-----------------------------------------------------------------------------
\* The jobs as batches of the intake.
Batches == [j \in Created |-> [ops |-> jobs[j].ops, status |-> jobs[j].status]]

\* What the intake rests on: the jobs are counted, and the takers are.
IntakeInv == CountInv /\ TakeInv /\ BatchInv

\* No operation that a run submits is in hand: the job that had it, or a later one,
\* has failed.  With several jobs at a time none has, and no operation is
\* submitted that a job had.
LEMMA SubmittedIsNotInHand ==
  ASSUME JobsCounted, IntakeInv, SubmitJob, NEW o \in run.batch
  PROVE  ~ Intake!InHand(o)
<1> SUFFICES ASSUME NEW i \in Created, o \in jobs[i].ops,
                    \A k \in Created : k >= i => jobs[k].status # "Failed"
             PROVE  FALSE
  BY DEF Intake!InHand, Batches
<1>1. pc = "submit" /\ pc \in Early
  BY DEF SubmitJob, Early, Bounding
<1>2. PICK f \in Reachable(o) : f \in run.scoring
  <2>1. i \in Takers(o)
    BY DEF Takers
  <2> QED BY <1>1, <2>1 DEF IntakeInv, TakeInv, TakenInv
<1>3. ~ Spent(f) /\ f \in Created
  BY <1>1, <1>2, ScoringIsUnspent DEF IntakeInv, CountInv
<1>6. jobs[f].status = "Failed"
  BY <1>2 DEF Reachable
<1>4. f = Newest
  BY <1>3, <1>6 DEF IntakeInv, CountInv, OrderInv
<1>5. f >= i
  BY <1>3, <1>4, LenProperties
     DEF Newest, Created, IntakeInv, CountInv, TypeInv, Typed
<1> QED BY <1>3, <1>5, <1>6

\* The batches grow by the one that a run submits.
LEMMA BatchesAppend ==
  ASSUME TypeInv, SubmitJob
  PROVE  Batches' = Append(Batches, [ops |-> run.batch, status |-> "Active"])
<1> DEFINE n == Len(jobs)
           e == [ops |-> run.batch, status |-> "Active"]
<1>0. CreateJob /\ n \in Nat /\ Created = 1..n
  BY LenProperties DEF SubmitJob, TypeInv, Typed, Created
<1>1. /\ Created' = 1..(n + 1)
      /\ jobs'[n + 1].ops = run.batch /\ jobs'[n + 1].status = "Active"
      /\ \A j \in 1..n : jobs'[j] = jobs[j]
  <2>1. /\ Created' = Created \cup {n + 1}
        /\ jobs'[n + 1] = [status |-> "Active", ops |-> run.batch,
                           low |-> run.cp.watermark]
        /\ \A j \in Created : jobs'[j] = jobs[j]
    BY <1>0, JobCreated
  <2>2. (1..n) \cup {n + 1} = 1..(n + 1)
    BY <1>0
  <2> HIDE DEF n
  <2> QED BY <1>0, <2>1, <2>2
<1> HIDE DEF n
<1>2. Batches \in Seq(Intake!Batch) /\ Len(Batches) = n
  <2>1. \A j \in 1..n : [ops |-> jobs[j].ops, status |-> jobs[j].status] \in Intake!Batch
    <3> SUFFICES ASSUME NEW j \in 1..n
                 PROVE  [ops |-> jobs[j].ops, status |-> jobs[j].status] \in Intake!Batch
      OBVIOUS
    <3>1. jobs[j] \in Job
      BY ElementOfSeq DEF n, TypeInv, Typed
    <3> QED BY <3>1 DEF Job, JobStatus, Intake!Batch
  <2>2. Batches \in [1..n -> Intake!Batch]
    BY <1>0, <2>1 DEF Batches
  <2> HIDE DEF Batches
  <2> QED BY <1>0, <2>2
<1>3. Batches' = [j \in 1..(n + 1) |-> [ops |-> jobs'[j].ops, status |-> jobs'[j].status]]
  BY <1>1 DEF Batches
<1>4. \A j \in 1..n : Batches[j] = [ops |-> jobs[j].ops, status |-> jobs[j].status]
  BY <1>0 DEF Batches
<1>5. Append(Batches, e) = [j \in 1..(n + 1) |-> IF j = n + 1 THEN e ELSE Batches[j]]
  BY <1>2
<1>6. \A j \in 1..(n + 1) :
         [ops |-> jobs'[j].ops, status |-> jobs'[j].status]
           = IF j = n + 1 THEN e ELSE Batches[j]
  BY <1>0, <1>1, <1>4
<1> HIDE DEF e
<1> QED BY <1>3, <1>5, <1>6 DEF e

\* Each step of the bucket is one of the intake, or changes nothing it shows.
LEMMA IntakeStep ==
  ASSUME JobsCounted, IntakeInv, [Next]_vars
  PROVE  Intake!Next \/ (journal' = journal /\ Batches' = Batches)
<1>0. TypeInv
  BY DEF IntakeInv, CountInv
<1>1. CASE \E o \in Op : TagObject(o)
  <2>1. PICK o \in Op : TagObject(o)
    BY <1>1
  <2>2. Batches' = Batches
    BY <2>1 DEF TagObject, Batches, Created
  <2> QED BY <2>1, <2>2 DEF TagObject, Intake!Next, Intake!Appear, Batches
<1>2. CASE SubmitJob
  <2>1. run.batch # {} /\ run.batch \subseteq journal \cap Matching
    BY <1>2 DEF IntakeInv, BatchInv, SubmitJob
  <2>2. Batches' = Append(Batches, [ops |-> run.batch, status |-> "Active"])
    BY <1>0, <1>2, BatchesAppend
  <2>3. \A o \in run.batch : ~ Intake!InHand(o)
    BY <1>2, SubmittedIsNotInHand
  <2>4. journal' = journal /\ run.batch \in SUBSET Op
    BY <1>0, <1>2 DEF SubmitJob, TypeInv, Typed, RunMemory
  <2> DEFINE Handed(ops) ==
        /\ ops # {} /\ ops \subseteq journal \cap Matching
        /\ \A o \in ops : ~ Intake!InHand(o)
        /\ Batches' = Append(Batches, [ops |-> ops, status |-> "Active"])
        /\ UNCHANGED journal
  <2>5. \E ops \in SUBSET Op : Handed(ops)
    BY <2>1, <2>2, <2>3, <2>4
  <2> QED BY <2>5 DEF Intake!Next, Intake!HandOver, Batches
<1>3. CASE \E i \in Created, status \in {"Complete", "Failed"} : JobEnds(i, status)
  <2>1. PICK i \in Created, status \in {"Complete", "Failed"} : JobEnds(i, status)
    BY <1>3
  <2>2. /\ Created' = Created /\ jobs'[i].status = status /\ jobs'[i].ops = jobs[i].ops
        /\ \A j \in Created \ {i} : jobs'[j] = jobs[j]
    BY <1>0, <2>1, JobEnded
  <2>3. Batches' = [Batches EXCEPT ![i].status = status]
    BY <2>1, <2>2 DEF Batches
  <2>4. Batches[i].status = "Active" /\ journal' = journal
    BY <2>1 DEF JobEnds, Batches
  <2>5. DOMAIN Batches = Created
    BY DEF Batches
  <2>6. Intake!End(i, status)
    BY <2>3, <2>4 DEF Intake!End, Batches
  <2> QED BY <2>1, <2>5, <2>6 DEF Intake!Next, Batches
<1>4. CASE jobs' = jobs /\ ~ \E o \in Op : TagObject(o)
  <2>1. journal' = journal
    BY <1>0, <1>4, JournalSteps
  <2> QED BY <1>4, <2>1 DEF Batches, Created
<1> QED BY <1>0, <1>1, <1>2, <1>3, <1>4, CreatedBySubmit, JobsCountedFaults

\* ImplementsIntake: one job at a time, or any number of jobs that do not fail,
\* every behaviour of the bucket is one of the intake: nothing is handed over that
\* is not visible and matching, and nothing again unless the job that had it, or a
\* later one, has failed, whatever happens to the reads, reports and submissions
\* of the runs in between (plan_recovery, _apply_recovery_plan,
\* _commit_recovery_scored, _select_eligible).
THEOREM RunsImplementIntake ==
  ASSUME JobsCounted
  PROVE  Spec => ImplementsIntake
<1>1. Init => IntakeInv
  <2>1. Init => BatchInv
    BY DEF Init, BatchInv, NoRun
  <2> QED BY <2>1, CountInit, TakeInit DEF IntakeInv
<1>2. IntakeInv /\ [Next]_vars => IntakeInv'
  <2>1. IntakeInv /\ [Next]_vars => BatchInv'
    BY BatchInvStep DEF IntakeInv, TakeInv
  <2> QED BY <2>1, CountStep, TakeStep, JobsCountedFaults DEF IntakeInv
<1>3. Init => Intake!Init
  BY DEF Init, Intake!Init, Created
<1>4. IntakeInv /\ [Next]_vars => [Intake!Next]_(Intake!ivars)
  BY IntakeStep DEF Intake!ivars, Batches
<1> QED BY <1>1, <1>2, <1>3, <1>4, PTL DEF Spec, ImplementsIntake, Intake!Spec

-----------------------------------------------------------------------------
\* Multiples of a positive number are at least that number apart.
LEMMA TimesMonotone ==
  ASSUME NEW m \in Nat \ {0}, NEW a \in Int, NEW b \in Int, a < b
  PROVE  m * a + m <= m * b
<1>1. m * (b - a) >= m
  <2> DEFINE c == b - a
  <2>1. c \in Int /\ c >= 1
    OBVIOUS
  <2> HIDE DEF c
  <2>2. m * c >= m
    BY <2>1
  <2> QED BY <2>2 DEF c
<1>2. m * (b - a) = m * b - m * a
  OBVIOUS
<1> QED BY <1>1, <1>2

\* A remainder is known by its division.
LEMMA RemainderIs ==
  ASSUME NEW x \in Nat, NEW m \in Nat \ {0}, NEW q \in Nat, NEW r \in Nat,
         r < m, x = m * q + r
  PROVE  x % m = r
<1> DEFINE d == x \div m
           s == x % m
<1>1. x = m * d + s /\ d \in Nat /\ s \in Nat /\ s < m
  OBVIOUS
<1> HIDE DEF d, s
<1>5. m * d \in Int /\ m * q \in Int
  BY <1>1
<1>2. ~ (q < d)
  BY <1>1, <1>5, TimesMonotone
<1>3. ~ (d < q)
  BY <1>1, <1>5, TimesMonotone
<1>4. d = q
  BY <1>1, <1>2, <1>3
<1> QED BY <1>1, <1>4, <1>5 DEF s

\* Counting up modulo the threshold.
LEMMA CountUp ==
  ASSUME NEW n \in Nat, NEW m \in Nat \ {0}
  PROVE  /\ n % m \in Nat /\ n % m < m
         /\ (n % m) + 1 < m => (n + 1) % m = (n % m) + 1
         /\ (n % m) + 1 = m => (n + 1) % m = 0
         /\ 0 % m = 0
<1> DEFINE q == n \div m
           r == n % m
<1>1. n = m * q + r /\ q \in Nat /\ r \in Nat /\ r < m
  OBVIOUS
<1>3. 0 % m = 0
  OBVIOUS
<1> HIDE DEF q, r
<1>6. m * q \in Int /\ m * (q + 1) = m * q + m
  BY <1>1
<1>4. r + 1 < m => (n + 1) % m = r + 1
  BY <1>1, <1>6, RemainderIs
<1>5. r + 1 = m => (n + 1) % m = 0
  <2>1. r + 1 = m => n + 1 = m * (q + 1) + 0
    BY <1>1, <1>6
  <2>2. q + 1 \in Nat /\ 0 < m
    BY <1>1
  <2> HIDE DEF q
  <2> QED BY <2>1, <2>2, <1>1, RemainderIs
<1> QED BY <1>1, <1>3, <1>4, <1>5 DEF r

\* The failures in a row just before a job, as a counter carries them that starts
\* over at the threshold.
Carried(j) == Cardinality(FailedBefore(j)) % FailureThreshold

\* No failure in a row leaves the counter at zero.
LEMMA NothingCarried == Cardinality({}) % FailureThreshold = 0
<1>1. Cardinality({}) = 0
  BY FS_EmptySet
<1>2. FailureThreshold \in Nat \ {0}
  BY RecoveryAssumption
<1>3. 0 % FailureThreshold = 0
  <2> DEFINE m == FailureThreshold
  <2>1. m \in Nat \ {0}
    BY <1>2
  <2> HIDE DEF m
  <2>2. 0 % m = 0
    BY <2>1, CountUp
  <2> QED BY <2>2 DEF m
<1> QED BY <1>1, <1>3

LEMMA CarriedIs ==
  ASSUME TypeInv, NEW j \in Nat
  PROVE  /\ IsFiniteSet(FailedBefore(j)) /\ Cardinality(FailedBefore(j)) \in Nat
         /\ Carried(j) \in Nat /\ Carried(j) < FailureThreshold
<1>1. IsFiniteSet(1..(j - 1))
  BY FS_Interval
<1>2. FailedBefore(j) \subseteq 1..(j - 1)
  BY DEF FailedBefore
<1>3. IsFiniteSet(FailedBefore(j)) /\ Cardinality(FailedBefore(j)) \in Nat
  BY <1>1, <1>2, FS_Subset, FS_CardinalityType
<1> QED BY <1>3, CountUp, RecoveryAssumption DEF Carried

\* One failure more, or none again.
LEMMA CarriedNext ==
  ASSUME TypeInv, NEW j \in Created
  PROVE  /\ jobs[j].status # "Failed" => Carried(j + 1) = 0
         /\ jobs[j].status = "Failed" =>
              /\ Carried(j) + 1 < FailureThreshold => Carried(j + 1) = Carried(j) + 1
              /\ Carried(j) + 1 = FailureThreshold => Carried(j + 1) = 0
<1>0. j \in Nat /\ j >= 1 /\ j + 1 \in Nat
  BY LenProperties DEF TypeInv, Typed, Created
<1>1. CASE jobs[j].status # "Failed"
  <2>1. FailedBefore(j + 1) = {}
    BY <1>0, <1>1 DEF FailedBefore
  <2>2. Cardinality(FailedBefore(j + 1)) = 0
    BY <2>1, FS_EmptySet
  <2> QED BY <1>1, <2>2, CountUp, RecoveryAssumption DEF Carried
<1>2. CASE jobs[j].status = "Failed"
  <2>1. FailedBefore(j + 1) = FailedBefore(j) \cup {j} /\ j \notin FailedBefore(j)
    <3>1. ASSUME NEW i \in 1..(j - 1)
          PROVE  i \in FailedBefore(j + 1) <=> i \in FailedBefore(j)
      <4>1. i..((j + 1) - 1) = (i..(j - 1)) \cup {j}
        BY <1>0
      <4> QED BY <1>0, <1>2, <4>1 DEF FailedBefore
    <3>2. j \in FailedBefore(j + 1)
      BY <1>0, <1>2 DEF FailedBefore
    <3>3. /\ FailedBefore(j) \subseteq 1..(j - 1)
          /\ FailedBefore(j + 1) \subseteq (1..(j - 1)) \cup {j}
      BY <1>0 DEF FailedBefore
    <3>4. j \notin 1..(j - 1)
      BY <1>0
    <3> QED BY <3>1, <3>2, <3>3, <3>4
  <2>2. Cardinality(FailedBefore(j + 1)) = Cardinality(FailedBefore(j)) + 1
    BY <1>0, <2>1, CarriedIs, FS_AddElement
  <2> DEFINE n == Cardinality(FailedBefore(j))
             T == FailureThreshold
  <2>3. n \in Nat /\ T \in Nat \ {0}
    BY <1>0, CarriedIs, RecoveryAssumption
  <2>4. Carried(j) = n % T /\ Carried(j + 1) = (n + 1) % T
    BY <2>2 DEF Carried
  <2> HIDE DEF n, T
  <2>5. /\ (n % T) + 1 < T => (n + 1) % T = (n % T) + 1
        /\ (n % T) + 1 = T => (n + 1) % T = 0
    BY <2>3, CountUp
  <2> QED BY <1>2, <2>4, <2>5 DEF T
<1> QED BY <1>1, <1>2

\* What finished jobs carry over is settled.
LEMMA CarriedStays ==
  ASSUME TypeInv, [Next]_vars, NEW j \in Nat, j <= Newest + 1,
         \A k \in Created : k < j => Finished(k)
  PROVE  Carried(j)' = Carried(j)
<1>1. \A k \in 1..(j - 1) : k \in Created /\ jobs'[k].status = jobs[k].status
  <2>1. \A k \in 1..(j - 1) : k \in Created /\ k < j
    BY LenProperties DEF Newest, Created, TypeInv, Typed
  <2> QED BY <2>1, JobsKept
<1>2. FailedBefore(j)' = FailedBefore(j)
  BY <1>1 DEF FailedBefore
<1> QED BY <1>2 DEF Carried

-----------------------------------------------------------------------------
\* One job at a time, and none of them refused.
OneAtATime == JobsCounted /\ MaxConcurrent = 1
FailuresCounted == OneAtATime /\ "rejected" \notin Faults

Submitting == {"count", "boundary", "floor", "read", "acquire", "build", "submit"}
Recording  == {"clear", "release", "persist"}

\* The newest job has its record, unless the breaker took it with the count.
NewestRecorded ==
    Newest \notin DOMAIN state.records /\ ~ Unrecorded(Newest) =>
        DOMAIN state.records = {} /\ Carried(Newest + 1) = 0

\* What the run holds is the count that its job is to carry.
CounterInHand ==
    /\ pc \in Submitting => run.failures = Carried(Newest + 1)
    /\ pc \in Recording /\ run.submitted # NoJob =>
           run.submitted = Newest /\ run.failures = Carried(Newest)

\* Only a job that another has followed is put aside.
NewestUnscored ==
    /\ Newest \in DOMAIN state.records => ~ state.records[Newest].scored
    /\ pc = "mark" => \/ DOMAIN state.records = {}
                      \/ run.submitted # NoJob /\ run.submitted = Newest

\* The failures that disable the bucket are not counted again.
TripStartsOver == pc = "disable" => Carried(Newest + 1) = 0

\* A run that goes on has not found the failure that reaches the threshold.
ScoringBelow ==
    pc \in Submitting \cup Recording \cup {"mark"} =>
        \A j \in run.scoring \cap DOMAIN state.records :
            jobs[j].status = "Failed" => state.records[j].failures + 1 < FailureThreshold

FailureInv ==
    /\ pc \notin {"escalate", "disableLeased"}
    /\ CounterCountsFailures
    /\ NewestRecorded
    /\ CounterInHand
    /\ NewestUnscored
    /\ TripStartsOver
    /\ BreakerNotLost
    /\ ScoringBelow

LEMMA FailuresCountedFaults ==
  ASSUME FailuresCounted
  PROVE  /\ OneAtATime /\ JobsCounted /\ MaxConcurrent = 1
         /\ TakesLand /\ PutsLand /\ ~ Fault("rejected") /\ ~ Fault("crash")
BY JobsCountedFaults, RunsCountFaults DEF FailuresCounted, OneAtATime, Fault

\* The number of the newest job, and what the jobs before it carry over.
LEMMA NewestIs ==
  ASSUME TypeInv
  PROVE  Newest \in Nat /\ Created = 1..Newest
BY LenProperties DEF TypeInv, Typed, Newest, Created

LEMMA NewestSteps ==
  ASSUME TypeInv, JobsCounted, [Next]_vars
  PROVE  \/ ~ SubmitJob /\ Newest' = Newest /\ Created' = Created
         \/ SubmitJob /\ CreateJob /\ Newest' = Newest + 1
<1>1. CASE SubmitJob
  <2>1. CreateJob
    BY <1>1 DEF SubmitJob
  <2> QED BY <1>1, <2>1, AppendProperties DEF CreateJob, Newest, TypeInv, Typed, Job
<1>2. CASE jobs' = jobs /\ ~ SubmitJob
  BY <1>2 DEF Newest, Created
<1>3. CASE \E i \in Created, status \in {"Complete", "Failed"} : JobEnds(i, status)
  <2>1. Newest' = Newest /\ Created' = Created
    BY <1>3, NewestStays
  <2>2. CASE SubmitJob
    BY <1>1, <2>2
  <2> QED BY <2>1, <2>2
<1> QED BY <1>1, <1>2, <1>3, CreatedBySubmit, JobsCountedFaults

\* One at a time, what a job carries is settled when it is created.
LEMMA CarriedSettled ==
  ASSUME TypeInv, OrderInv, MaxConcurrent = 1, [Next]_vars, NEW j \in Created
  PROVE  Carried(j)' = Carried(j)
<1>1. j \in Nat /\ j <= Newest + 1
  BY NewestIs
<1>2. \A k \in Created : k < j => Finished(k)
  BY NewestIs DEF OrderInv
<1> QED BY <1>1, <1>2, CarriedStays

\* And what the next one is to carry, once all have finished.
LEMMA CarriedOver ==
  ASSUME TypeInv, JobsCounted, [Next]_vars, \A k \in Created : Finished(k)
  PROVE  /\ ~ SubmitJob => Carried(Newest + 1)' = Carried(Newest + 1)
         /\ SubmitJob => Carried(Newest)' = Carried(Newest + 1)
<1>1. PICK n : n = Newest + 1
  OBVIOUS
<1>2. Carried(n)' = Carried(n)
  BY <1>1, NewestIs, CarriedStays
<1>3. CASE ~ SubmitJob
  <2>1. Newest' = Newest
    BY <1>3, NewestSteps
  <2> QED BY <1>1, <1>2, <1>3, <2>1 DEF Carried, FailedBefore
<1>4. CASE SubmitJob
  <2>1. Newest' = Newest + 1
    BY <1>4, NewestSteps
  <2> QED BY <1>1, <1>2, <1>4, <2>1 DEF Carried, FailedBefore
<1> QED BY <1>3, <1>4

\* The counter of the newest record is the one a run goes on from.
LEMMA SeedOfNewest ==
  ASSUME NEW records, NEW n \in DOMAIN records, DOMAIN records \subseteq 1..n, n \in Nat,
         \A j \in DOMAIN records : records[j].at = j,
         records[n].failures \in Nat
  PROVE  SeedFailures(records) = records[n].failures
<1> DEFINE newest == {j \in DOMAIN records :
                        \A k \in DOMAIN records : records[k].at <= records[j].at}
<1>1. newest = {n}
  <2>1. \A k \in DOMAIN records : k \in Nat /\ k <= n /\ records[k].at = k
    OBVIOUS
  <2>2. n \in newest
    BY <2>1
  <2>3. ASSUME NEW j \in newest PROVE j = n
    <3>1. n <= j
      BY <2>1, <2>3
    <3> QED BY <2>1, <2>3, <3>1
  <2> QED BY <2>2, <2>3
<1>2. /\ newest # {} /\ {records[j].failures : j \in newest} = {records[n].failures}
      /\ SeedFailures(records) = CHOOSE f \in {records[j].failures : j \in newest} :
                                    \A j \in newest : records[j].failures <= f
  <2>1. newest # {} /\ {records[j].failures : j \in newest} = {records[n].failures}
    <3> HIDE DEF newest
    <3> QED BY <1>1
  <2>2. SeedFailures(records) = IF newest = {} THEN 0
            ELSE CHOOSE f \in {records[j].failures : j \in newest} :
                     \A j \in newest : records[j].failures <= f
    BY ZenonT(30) DEF SeedFailures
  <2> HIDE DEF newest
  <2> QED BY <2>1, <2>2
<1> HIDE DEF newest
<1>3. records[n].failures <= records[n].failures
  OBVIOUS
<1> QED BY <1>1, <1>2, <1>3

\* What the recovery of a run finds: the newest job, if it has a record.
LEMMA RecoverySees ==
  ASSUME OneAtATime, CountInv, NewestRecorded, NewestUnscored, CounterCountsFailures,
         Recovering
  PROVE  /\ run.scoring \subseteq {Newest} \cap DOMAIN state.records
         /\ Newest \in DOMAIN state.records =>
              /\ SeedFailures(run.records) = Carried(Newest)
              /\ state.records[Newest].failures = Carried(Newest)
              /\ run.outstanding = {} => run.scoring = {Newest}
         /\ Newest \notin DOMAIN state.records =>
              /\ SeedFailures(run.records) = 0
              /\ Carried(Newest + 1) = 0
<1> USE DEF CountInv
<1>0. /\ MaxConcurrent = 1 /\ Newest \in Nat /\ Created = 1..Newest
      /\ pc \in Reading /\ pc \in Early /\ run.todo = {}
  BY NewestIs DEF OneAtATime, Recovering, Reading, Early, Bounding, LimitInv, RecordedInv
<1>1. /\ DOMAIN run.records = DOMAIN state.records
      /\ DOMAIN state.records \subseteq 1..Newest
      /\ \A j \in DOMAIN run.records : Agree(run.records[j], state.records[j])
  BY <1>0 DEF LimitInv, RecordedInv, SeenInv, JobsInv, Reading
<1>2. run.scoring \subseteq {Newest} \cap DOMAIN state.records
  BY <1>0, ScoringIsUnspent DEF OrderInv
<1>3. CASE Newest \in DOMAIN state.records
  <2>1. \A j \in DOMAIN run.records : run.records[j].at = j
    BY <1>1 DEF SeenInv, Agree
  <2>2. state.records[Newest].failures = Carried(Newest)
    BY <1>3 DEF CounterCountsFailures, Carried
  <2>3. run.records[Newest].failures = Carried(Newest) /\ Carried(Newest) \in Nat
    BY <1>0, <1>1, <1>3, <2>2, CarriedIs DEF Agree
  <2>4. SeedFailures(run.records) = run.records[Newest].failures
    BY <1>0, <1>1, <1>3, <2>1, <2>3, SeedOfNewest
  <2>5. run.outstanding = {} => Newest \in run.scoring
    <3>1. run.outstanding = {} => Newest \in run.terminal
      BY <1>0, <1>1, <1>3 DEF LimitInv, RecordedInv
    <3>2. ~ run.records[Newest].scored /\ pc # "mark"
      BY <1>0, <1>1, <1>3 DEF NewestUnscored, Agree, Reading
    <3> QED BY <3>1, <3>2 DEF OrderInv
  <2> QED BY <1>1, <1>2, <1>3, <2>2, <2>4, <2>5 DEF Agree
<1>4. CASE Newest \notin DOMAIN state.records
  <2>1. DOMAIN state.records = {} /\ Carried(Newest + 1) = 0
    BY <1>0, <1>4 DEF NewestRecorded, Unrecorded, Reading
  <2>2. SeedFailures(run.records) = 0
    BY <1>1, <2>1 DEF SeedFailures
  <2> QED BY <1>2, <1>4, <2>1, <2>2
<1> QED BY <1>3, <1>4

\* The plan counts on as the jobs do, and starts over with the disabled bucket.
LEMMA PlanCarries ==
  ASSUME OneAtATime, CountInv, NewestRecorded, NewestUnscored, CounterCountsFailures,
         Recovering
  PROVE  /\ AnyFailed /\ Plan.disable => Carried(Newest + 1) = 0
         /\ ~ (AnyFailed /\ Plan.disable) =>
              /\ run.outstanding = {} => Plan.failures = Carried(Newest + 1)
              /\ \A j \in run.scoring : jobs[j].status = "Failed" =>
                     state.records[j].failures + 1 < FailureThreshold
<1>0. TypeInv /\ Newest \in Nat /\ Created = 1..Newest /\ FailureThreshold \in Nat \ {0}
  BY NewestIs, RecoveryAssumption DEF CountInv
<1>1. \A j \in Created : EffectiveFailure(jobs[j].status) <=> jobs[j].status = "Failed"
  <2>1. \A j \in Created : jobs[j] \in Job
    BY <1>0, ElementOfSeq, LenProperties DEF Created, TypeInv, Typed
  <2> QED BY <2>1 DEF EffectiveFailure, Job, JobStatus
<1>2. /\ run.scoring \subseteq {Newest} \cap Created
      /\ Newest \in run.scoring => Newest \in DOMAIN state.records
  BY RecoverySees DEF CountInv, JobsInv
<1>3. FailedIn(Outcomes) = {j \in run.scoring : jobs[j].status = "Failed"}
  BY <1>1, <1>2 DEF FailedIn, Outcomes
<1>4. /\ Plan.failures = ConsolidatedFailures(run.records, Outcomes)
      /\ Plan.disable <=> Plan.failures >= FailureThreshold
  BY DEF Plan, PlanRecovery
<1>5. CASE AnyFailed
  <2>1. /\ Newest \in run.scoring /\ Newest \in Created
        /\ jobs[Newest].status = "Failed" /\ Newest \in DOMAIN state.records
    BY <1>2, <1>3, <1>5 DEF AnyFailed
  <2>2. Plan.failures = Carried(Newest) + 1 /\ state.records[Newest].failures = Carried(Newest)
    BY <1>4, <1>5, <2>1, RecoverySees DEF ConsolidatedFailures, AnyFailed
  <2>3. Carried(Newest) \in Nat /\ Carried(Newest) < FailureThreshold
    BY <1>0, CarriedIs
  <2>4. /\ Carried(Newest) + 1 < FailureThreshold =>
              Carried(Newest + 1) = Carried(Newest) + 1
        /\ Carried(Newest) + 1 = FailureThreshold => Carried(Newest + 1) = 0
    BY <1>0, <2>1, CarriedNext
  <2>5. \A j \in run.scoring : j = Newest
    BY <1>2
  <2>6. Plan.disable <=> Carried(Newest) + 1 = FailureThreshold
    BY <1>0, <1>4, <2>2, <2>3
  <2> QED BY <1>0, <1>5, <2>2, <2>3, <2>4, <2>5, <2>6
<1>6. CASE ~ AnyFailed
  <2>1. FailedIn(Outcomes) = {} /\ \A j \in run.scoring : jobs[j].status # "Failed"
    BY <1>3, <1>6 DEF AnyFailed
  <2>2. run.outstanding = {} => Plan.failures = Carried(Newest + 1)
    <3> SUFFICES ASSUME run.outstanding = {} PROVE Plan.failures = Carried(Newest + 1)
      OBVIOUS
    <3>1. CASE Newest \in DOMAIN state.records
      <4>1. run.scoring = {Newest} /\ DOMAIN Outcomes # {}
        BY <3>1, RecoverySees DEF Outcomes
      <4>2. Plan.failures = 0
        BY <1>4, <2>1, <4>1 DEF ConsolidatedFailures
      <4> QED BY <1>0, <1>2, <2>1, <4>1, <4>2, CarriedNext
    <3>2. CASE Newest \notin DOMAIN state.records
      <4>1. DOMAIN Outcomes = {}
        BY <1>2, <3>2 DEF Outcomes
      <4> QED BY <1>4, <2>1, <3>2, <4>1, RecoverySees DEF ConsolidatedFailures
    <3> QED BY <3>1, <3>2
  <2> QED BY <1>6, <2>1, <2>2
<1> QED BY <1>5, <1>6

\* A run is never refused.
LEMMA NotRefusedStep ==
  ASSUME TypeInv, FailuresCounted, pc \notin {"escalate", "disableLeased"}, [Next]_vars
  PROVE  pc' \notin {"escalate", "disableLeased"}
<1> SUFFICES ASSUME pc' \in {"escalate", "disableLeased"} PROVE FALSE
  OBVIOUS
<1>1. RunStep
  BY OutsideSteps
<1>2. pc = "submit"
  BY PlaceSteps
<1>3. SubmitJob \/ SubmitFails \/ Crash
  BY <1>1, <1>2, StepsByPlace
<1> QED BY <1>3, FailuresCountedFaults DEF SubmitJob, SubmitFails, Crash, EndRun, GoTo

\* A stored counter stays, and a new one is what the run holds.
LEMMA CountersStep ==
  ASSUME FailuresCounted, CountInv, FailureInv, [Next]_vars
  PROVE  CounterCountsFailures'
<1> USE FailuresCountedFaults DEF CountInv, FailureInv
<1> SUFFICES ASSUME NEW j \in DOMAIN state'.records
             PROVE  state'.records[j].failures = Carried(j)'
  BY DEF CounterCountsFailures, Carried
<1>1. CASE j \in DOMAIN state.records
           /\ state'.records[j].failures = state.records[j].failures
  <2>1. Carried(j)' = Carried(j)
    BY <1>1, CarriedSettled DEF JobsInv
  <2> QED BY <1>1, <2>1 DEF CounterCountsFailures, Carried
<1>2. CASE PersistSubmission /\ j = run.submitted /\ state'.records[j] = OwnRecord
  <2>1. j \in Created /\ j = Newest /\ run.failures = Carried(j)
    BY <1>2 DEF PersistSubmission, MemoryCoherent, TypeInv, JobsInv, CounterInHand, Recording
  <2>2. Carried(j)' = Carried(j)
    BY <2>1, CarriedSettled
  <2> QED BY <1>2, <2>1, <2>2 DEF OwnRecord
<1> QED BY <1>1, <1>2, RecordStep

\* All jobs have finished unless the newest runs with its record there or coming.
LEMMA NewestFinished ==
  ASSUME OneAtATime, CountInv, Newest \notin DOMAIN state.records, ~ Unrecorded(Newest)
  PROVE  \A j \in Created : Finished(j)
<1>1. \A j \in Created : j = Newest \/ Finished(j)
  BY DEF CountInv, OrderInv, OneAtATime
<1> QED BY <1>1 DEF CountInv, LimitInv, RecordedInv

LEMMA NewestRecordedStep ==
  ASSUME FailuresCounted, CountInv, FailureInv, [Next]_vars
  PROVE  NewestRecorded'
<1> USE FailuresCountedFaults DEF CountInv, FailureInv
<1> SUFFICES ASSUME Newest' \notin DOMAIN state'.records, ~ Unrecorded(Newest)'
             PROVE  DOMAIN state'.records = {} /\ Carried(Newest + 1)' = 0
  BY DEF NewestRecorded, Unrecorded
<1>0. CountInv' /\ Newest \in Nat /\ Created = 1..Newest
  BY CountStep, NewestIs
<1>1. ~ SubmitJob /\ Newest' = Newest
  <2>1. CASE SubmitJob
    <3>1. run'.submitted = Len(jobs) + 1 /\ pc' = "clear"
      BY <2>1 DEF SubmitJob, GoTo, TypeInv, Typed, RunMemory
    <3>2. Newest' = Len(jobs) + 1
      BY <2>1, NewestSteps DEF Newest
    <3> QED BY <3>1, <3>2 DEF Unrecorded
  <2> QED BY <2>1, NewestSteps
<1>2. CASE Newest = 0
  <2>1. TypeInv' /\ Created' = {}
    BY <1>0, <1>1, <1>2, NewestSteps
  <2>2. DOMAIN state'.records = {}
    BY <1>0, <2>1 DEF JobsInv
  <2>3. FailedBefore(1)' = {}
    BY DEF FailedBefore
  <2>6. Carried(1)' = Cardinality(FailedBefore(1)') % FailureThreshold
    BY ZenonT(30) DEF Carried
  <2>4. Carried(1)' = 0
    BY <2>3, <2>6, NothingCarried, ZenonT(30)
  <2>5. Carried(Newest + 1)' = Carried(1)'
    BY <1>1, <1>2 DEF Carried, FailedBefore
  <2> QED BY <2>2, <2>4, <2>5
<1>3. CASE Newest # 0 /\ Unrecorded(Newest)
  <2>1. PersistSubmission /\ state' = Recorded /\ run.submitted = Newest
    BY <1>0, <1>1, <1>3, UnrecordedStep, JobsCountedFaults DEF Unrecorded
  <2>2. Recorded.records = RecordSubmission(state.records, run.submitted, OwnRecord,
                                            run.terminal, state.processed)
    BY DEF Recorded, OwnRecord, TypeInv, Typed, StateObject
  <2> QED BY <1>1, <2>1, <2>2, RecordSubmissionKeeps
<1>4. CASE Newest # 0 /\ ~ Unrecorded(Newest) /\ Newest \in DOMAIN state.records
  <2>1. ~ PersistSubmission
    BY <1>4 DEF PersistSubmission, TypeInv, MemoryCoherent, CounterInHand, Recording, Unrecorded
  <2>2. ~ DisableLeased
    BY DEF DisableLeased
  <2>3. DisableBucket /\ state' = Disabled
    <3>1. state'.records # state.records
      BY <1>1, <1>4
    <3>2. /\ DOMAIN MarkedDiagnosed(run.job).records = DOMAIN state.records
          /\ DOMAIN MarkedScored(First(run.scoring)).records = DOMAIN state.records
      BY DEF MarkedDiagnosed, MarkedScored, TypeInv, Typed, StateObject
    <3> QED BY <1>1, <1>4, <2>1, <2>2, <3>1, <3>2, RecordsStep
  <2>4. Carried(Newest + 1)' = Carried(Newest + 1) /\ Carried(Newest + 1) = 0
    BY <1>1, <2>3, CarriedOver DEF DisableBucket, LimitInv, TripStartsOver
  <2>5. DOMAIN state'.records = {}
    BY <2>3, NoRunTyped DEF Disabled, TypeInv, Typed, StateObject
  <2> QED BY <2>4, <2>5
<1>5. CASE Newest # 0 /\ ~ Unrecorded(Newest) /\ Newest \notin DOMAIN state.records
  <2>1. DOMAIN state.records = {} /\ Carried(Newest + 1) = 0
    BY <1>5 DEF NewestRecorded
  <2>2. ~ PersistSubmission
    BY <1>5 DEF PersistSubmission, TypeInv, MemoryCoherent, CounterInHand, Recording, Unrecorded
  <2>3. DOMAIN state'.records = {}
    BY <2>1, <2>2, RecordStep
  <2>4. \A j \in Created : Finished(j)
    BY <1>5, NewestFinished
  <2> QED BY <1>1, <2>1, <2>3, <2>4, CarriedOver
<1> QED BY <1>2, <1>3, <1>4, <1>5

LEMMA CounterInHandStep ==
  ASSUME FailuresCounted, CountInv, FailureInv, [Next]_vars
  PROVE  CounterInHand'
<1> USE FailuresCountedFaults DEF CountInv, FailureInv
<1>1. ASSUME pc' \in Submitting PROVE run'.failures = Carried(Newest + 1)'
  <2>0. /\ ~ EndRun /\ ~ SubmitJob /\ ~ \E records : Begin(records)
        /\ pc \in Submitting \/ pc \in {"describe", "recover"}
    BY <1>1, PlaceSteps DEF Submitting, EndRun, SubmitJob, Begin, GoTo
  <2>1. CASE pc \in Submitting
    <3>1. \A j \in Created : Finished(j)
      BY <2>1, NoneRunning DEF Submitting, Bounding
    <3>2. run'.failures = run.failures
      <4>1. ~ Recover
        BY <2>1 DEF Recover, Recovering, Submitting
      <4>2. \A rows : TakeUp(rows) => run'.failures = run.failures
        BY <2>0 DEF TakeUp, TypeInv, Typed, RunMemory
      <4> QED BY <2>0, <4>1, <4>2, RunSteps DEF Remembered
    <3> QED BY <2>0, <2>1, <3>1, <3>2, CarriedOver DEF CounterInHand
  <2>2. CASE pc \in {"describe", "recover"}
    <3>1. Recover /\ pc' = "count"
      <4>1. RunStep /\ pc' = "count"
        BY <1>1, <2>2, OutsideSteps, PlaceSteps DEF Submitting
      <4> QED BY <2>2, <4>1, <2>0, StepsByPlace
              DEF DescribeOutstanding, DescribeAgedOut, DescribeTerminal, TripBreaker,
                  Crash, GoTo
    <3>2. /\ run.outstanding = {} /\ run'.failures = Plan.failures
          /\ Recovering /\ ~ (AnyFailed /\ Plan.disable) /\ jobs' = jobs
      <4>1. ~ AtLimit /\ run'.failures = Plan.failures
        BY <2>0, <3>1 DEF Recover, TypeInv, Typed, RunMemory
      <4>2. run.outstanding \in SUBSET JobIds
        BY DEF TypeInv, Typed, RunMemory
      <4>3. Cardinality(run.outstanding) = 0
        BY <4>1, <4>2, JobSetsFinite DEF AtLimit
      <4>4. run.outstanding = {}
        BY <4>2, <4>3, JobSetsFinite, FS_EmptySet
      <4> QED BY <3>1, <4>1, <4>4 DEF Recover
    <3>3. Plan.failures = Carried(Newest + 1)
      BY <3>2, PlanCarries
    <3>4. Carried(Newest + 1)' = Carried(Newest + 1)
      BY <3>2 DEF Carried, FailedBefore, Newest
    <3> QED BY <3>2, <3>3, <3>4
  <2> QED BY <2>0, <2>1, <2>2
<1>2. ASSUME pc' \in Recording, run'.submitted # NoJob
      PROVE  run'.submitted = Newest' /\ run'.failures = Carried(Newest)'
  <2>1. CASE SubmitJob
    <3>1. /\ run'.submitted = Len(jobs) + 1 /\ run'.failures = run.failures
          /\ pc = "submit"
      BY <2>1 DEF SubmitJob, TypeInv, Typed, RunMemory
    <3>2. \A j \in Created : Finished(j)
      BY <3>1, NoneRunning
    <3> QED BY <2>1, <3>1, <3>2, CarriedOver, NewestSteps
            DEF CounterInHand, Submitting, Newest
  <2>2. CASE ~ SubmitJob
    <3>1. run'.submitted = run.submitted /\ run.submitted # NoJob
      BY <1>2, <2>2, SubmittedSteps
    <3>2. pc \in Recording
      <4>1. pc \in Recording \cup {"mark"}
        BY <3>1 DEF PutInv, Recording
      <4>2. pc = "mark" => pc' \in {"mark", "idle"}
        BY PlaceSteps
      <4> QED BY <1>2, <4>1, <4>2 DEF Recording
    <3>3. run'.failures = run.failures
      <4>1. ~ EndRun /\ ~ \E records : Begin(records)
        BY <1>2 DEF EndRun, Begin, GoTo, Recording
      <4>2. ~ Recover /\ pc # "read"
        BY <3>2 DEF Recover, Recovering, Recording
      <4> QED BY <2>2, <4>1, <4>2, RunSteps DEF Remembered
    <3>4. run.submitted = Newest /\ Newest' = Newest /\ run.submitted \in Created
      BY <2>2, <3>1, <3>2, NewestSteps DEF CounterInHand, JobsInv
    <3>5. PICK n \in Created : n = Newest
      BY <3>4
    <3>6. Carried(n)' = Carried(n)
      BY CarriedSettled
    <3>7. Carried(Newest)' = Carried(Newest)
      BY <3>4, <3>5, <3>6 DEF Carried, FailedBefore
    <3> QED BY <3>1, <3>2, <3>3, <3>4, <3>7 DEF CounterInHand
  <2> QED BY <2>1, <2>2
<1> QED BY <1>1, <1>2 DEF CounterInHand

LEMMA NewestUnscoredStep ==
  ASSUME FailuresCounted, CountInv, FailureInv, [Next]_vars
  PROVE  NewestUnscored'
<1> USE FailuresCountedFaults DEF CountInv, FailureInv
<1>0. Newest \in Nat /\ Created = 1..Newest
  BY NewestIs
<1>1. ASSUME Newest' \in DOMAIN state'.records
      PROVE  ~ state'.records[Newest'].scored
  <2>1. CASE /\ Newest' \in DOMAIN state.records
             /\ state'.records[Newest'].scored = state.records[Newest'].scored
    <3>1. Newest' = Newest
      BY <1>0, <2>1, NewestSteps DEF JobsInv
    <3> QED BY <2>1, <3>1 DEF NewestUnscored
  <2>2. CASE /\ Newest' \in DOMAIN state.records
             /\ CommitScored /\ run.scoring # {} /\ Newest' = First(run.scoring)
    <3>1. Newest' = Newest /\ pc = "mark"
      BY <1>0, <2>2, NewestSteps DEF JobsInv, CommitScored
    <3>2. run.submitted # NoJob /\ run.submitted = Newest
      BY <2>2, <3>1 DEF NewestUnscored
    <3>3. Newest \in run.scoring
      BY <2>2, <3>1, FirstIsMember DEF TypeInv, Typed, RunMemory
    <3> QED BY <3>2, <3>3 DEF SeenInv, LimitInv, RecordedInv
  <2>3. CASE state'.records[Newest'] = OwnRecord
    BY <2>3 DEF OwnRecord
  <2> QED BY <1>1, <2>1, <2>2, <2>3, RecordStep
<1>2. ASSUME pc' = "mark"
      PROVE  \/ DOMAIN state'.records = {}
             \/ run'.submitted # NoJob /\ run'.submitted = Newest'
  <2>0. Newest' = Newest /\ ~ EndRun /\ ~ \E records : Begin(records)
    BY <1>2, NewestSteps DEF SubmitJob, EndRun, Begin, GoTo
  <2>1. CASE pc = "mark"
    <3>1. run'.submitted = run.submitted
      BY <1>2, <2>0, SubmittedSteps, RunSteps DEF Remembered, SubmitJob, GoTo
    <3>2. DOMAIN state'.records \subseteq DOMAIN state.records
      BY <2>1, RecordStep DEF PersistSubmission
    <3> QED BY <2>0, <2>1, <3>1, <3>2 DEF NewestUnscored
  <2>2. CASE pc # "mark"
    <3>1. RunStep /\ pc \in {"disable", "release", "persist"}
      BY <1>2, <2>2, OutsideSteps, PlaceSteps
    <3>2. CASE pc = "disable"
      <4>1. DisableBucket /\ fresh
        BY <2>0, <3>1, <3>2, StepsByPlace DEF Crash, PutInv, Stale
      <4>2. state' = Disabled
        BY <4>1, LandedPuts DEF DisableBucket
      <4> QED BY <4>2, NoRunTyped DEF Disabled, TypeInv, Typed, StateObject
    <3>3. CASE pc = "release"
      <4>1. ReleaseLease /\ run.submitted # NoJob
        BY <2>0, <3>1, <3>3, StepsByPlace DEF Crash, ReleaseLease
      <4> QED BY <1>2, <4>1, ReleaseLands
    <3>4. CASE pc = "persist"
      <4>1. PersistSubmission
        BY <2>0, <3>1, <3>4, StepsByPlace DEF Crash
      <4> QED BY <2>0, <3>4, <4>1
              DEF PersistSubmission, CounterInHand, Recording, TypeInv, MemoryCoherent
    <3> QED BY <3>1, <3>2, <3>3, <3>4
  <2> QED BY <2>1, <2>2
<1> QED BY <1>1, <1>2 DEF NewestUnscored

LEMMA TripStep ==
  ASSUME FailuresCounted, CountInv, FailureInv, [Next]_vars
  PROVE  TripStartsOver'
<1> USE FailuresCountedFaults DEF CountInv, FailureInv
<1> SUFFICES ASSUME pc' = "disable" PROVE Carried(Newest + 1)' = 0
  BY DEF TripStartsOver
<1>1. ~ SubmitJob
  BY DEF SubmitJob, GoTo
<1>2. CASE pc = "disable"
  BY <1>1, <1>2, CarriedOver DEF LimitInv, TripStartsOver
<1>3. CASE pc # "disable"
  <2>1. RunStep /\ pc \in {"describe", "recover"}
    BY <1>3, OutsideSteps, PlaceSteps
  <2>2. TripBreaker
    BY <2>1, StepsByPlace
       DEF DescribeOutstanding, DescribeAgedOut, DescribeTerminal, Recover, Crash,
           EndRun, GoTo
  <2>3. \A j \in Created : Finished(j)
    BY <2>2, NoneRunningAtTrip
  <2>4. Carried(Newest + 1) = 0
    BY <2>2, PlanCarries DEF TripBreaker
  <2> QED BY <1>1, <2>3, <2>4, CarriedOver
<1> QED BY <1>2, <1>3

LEMMA BreakerStep ==
  ASSUME FailuresCounted, CountInv, FailureInv, [Next]_vars
  PROVE  BreakerNotLost'
<1> USE FailuresCountedFaults DEF CountInv, FailureInv
<1> SUFFICES ASSUME NEW j \in DOMAIN state'.records,
                    state'.records[j].scored, jobs'[j].status = "Failed"
             PROVE  state'.records[j].failures + 1 < FailureThreshold
  BY DEF BreakerNotLost
<1>1. /\ j \in DOMAIN state.records
      /\ state'.records[j].failures = state.records[j].failures
      /\ \/ state.records[j].scored
         \/ CommitScored /\ run.scoring # {} /\ j = First(run.scoring)
  BY RecordStep DEF OwnRecord
<1>2. CASE state.records[j].scored
  <2>1. j \in Created /\ Finished(j)
    BY <1>1, <1>2 DEF JobsInv, NewestUnscored, OrderInv
  <2> QED BY <1>1, <1>2, <2>1, JobsKept DEF BreakerNotLost
<1>3. CASE CommitScored /\ run.scoring # {} /\ j = First(run.scoring)
  <2>1. j \in run.scoring /\ pc = "mark"
    BY <1>3, FirstIsMember DEF CommitScored, TypeInv, Typed, RunMemory
  <2>2. j \in Created /\ Finished(j)
    BY <2>1 DEF SeenInv, JobsInv
  <2> QED BY <1>1, <2>1, <2>2, JobsKept DEF ScoringBelow
<1> QED BY <1>1, <1>2, <1>3

LEMMA ScoringBelowStep ==
  ASSUME FailuresCounted, CountInv, FailureInv, [Next]_vars
  PROVE  ScoringBelow'
<1> USE FailuresCountedFaults DEF CountInv, FailureInv
<1> SUFFICES ASSUME pc' \in Submitting \cup Recording \cup {"mark"},
                    NEW j \in run'.scoring, j \in DOMAIN state'.records,
                    jobs'[j].status = "Failed"
             PROVE  state'.records[j].failures + 1 < FailureThreshold
  BY DEF ScoringBelow
<1>0. /\ ~ EndRun /\ ~ \E records : Begin(records)
      /\ pc' \notin Reading
  BY DEF EndRun, Begin, GoTo, Submitting, Recording, Reading
<1>1. j \in run.scoring /\ j \in Created /\ Finished(j) /\ j # run.submitted
  <2>1. j \in run.scoring
    BY <1>0, ScoringSteps DEF Reading
  <2>2. j \in run.terminal /\ j \in Created /\ Finished(j)
    BY <2>1 DEF SeenInv, JobsInv
  <2>3. j # run.submitted
    BY <2>2, NewestIs DEF LimitInv, RecordedInv
  <2> QED BY <2>1, <2>2, <2>3
<1>2. /\ j \in DOMAIN state.records /\ jobs[j].status = "Failed"
      /\ state'.records[j].failures = state.records[j].failures
  BY <1>1, RecordStep, JobsKept
<1>3. CASE pc \in Submitting \cup Recording \cup {"mark"}
  BY <1>1, <1>2, <1>3 DEF ScoringBelow
<1>4. CASE pc \notin Submitting \cup Recording \cup {"mark"}
  <2>1. RunStep /\ pc \in {"describe", "recover", "disable"}
    BY <1>4, OutsideSteps, PlaceSteps DEF Submitting, Recording
  <2>2. CASE pc = "disable"
    <3>1. DisableBucket /\ fresh
      BY <1>0, <2>1, <2>2, StepsByPlace DEF Crash, PutInv, Stale
    <3>2. state' = Disabled
      BY <3>1, LandedPuts DEF DisableBucket
    <3>3. DOMAIN state'.records = {}
      BY <3>2, NoRunTyped DEF Disabled, TypeInv, Typed, StateObject
    <3> QED BY <3>3
  <2>3. CASE pc \in {"describe", "recover"}
    <3>1. Recover
      <4>1. pc' \notin {"describe", "recover", "merge", "disable"}
        BY DEF Submitting, Recording
      <4> QED BY <1>0, <2>1, <2>3, <4>1, StepsByPlace
              DEF DescribeOutstanding, DescribeAgedOut, DescribeTerminal, TripBreaker,
                  Crash, GoTo
    <3> QED BY <1>1, <1>2, <3>1, PlanCarries DEF Recover
  <2> QED BY <2>1, <2>2, <2>3
<1> QED BY <1>3, <1>4

LEMMA FailureInit == Init => FailureInv
<1> SUFFICES ASSUME Init PROVE FailureInv
  OBVIOUS
<1>1. /\ Newest = 0 /\ pc = "idle" /\ state.records = NoRecords
      /\ run.submitted = NoJob
  BY DEF Init, Newest, EmptyState, NoRun
<1>2. Carried(Newest + 1) = 0
  <2>1. FailedBefore(1) = {}
    BY DEF FailedBefore
  <2>3. Carried(1) = Cardinality(FailedBefore(1)) % FailureThreshold
    BY ZenonT(30) DEF Carried
  <2>2. Carried(1) = 0
    BY <2>1, <2>3, NothingCarried, ZenonT(30)
  <2> QED BY <1>1, <2>2
<1> QED BY <1>1, <1>2, NoRunTyped
        DEF FailureInv, CounterCountsFailures, NewestRecorded, CounterInHand,
            NewestUnscored, TripStartsOver, BreakerNotLost, ScoringBelow, Submitting,
            Recording

LEMMA FailureStep ==
  ASSUME FailuresCounted, CountInv, FailureInv, [Next]_vars
  PROVE  FailureInv'
<1>1. pc' \notin {"escalate", "disableLeased"}
  BY NotRefusedStep DEF CountInv, FailureInv
<1> QED BY <1>1, CountersStep, NewestRecordedStep, CounterInHandStep,
           NewestUnscoredStep, TripStep, BreakerStep, ScoringBelowStep DEF FailureInv

LEMMA FailuresHold ==
  ASSUME FailuresCounted
  PROVE  Spec => [](CountInv /\ FailureInv)
<1>1. JobsCounted
  BY FailuresCountedFaults
<1>2. Init => CountInv /\ FailureInv
  BY CountInit, FailureInit
<1>3. CountInv /\ FailureInv /\ [Next]_vars => (CountInv /\ FailureInv)'
  BY <1>1, CountStep, FailureStep
<1> QED BY <1>2, <1>3, PTL DEF Spec

\* CounterCountsFailures: one job at a time, and none refused, every stored counter
\* is the number of jobs in a row that failed before its own since the bucket was
\* last disabled: a run that reads no report, has no room, finds nothing or fails
\* to submit counts no failure twice and misses none (plan_recovery,
\* _apply_recovery_plan, _commit_recovery_scored).
THEOREM CountersExact ==
  ASSUME FailuresCounted
  PROVE  Spec => []CounterCountsFailures
<1>1. FailureInv => CounterCountsFailures
  BY DEF FailureInv
<1> QED BY <1>1, FailuresHold, PTL

\* BreakerNotLost: one job at a time, and none refused, the failure that brings the
\* counter to the threshold is never put aside before the bucket is disabled
\* (_disable_bucket, _commit_recovery_scored).
THEOREM BreakerKept ==
  ASSUME FailuresCounted
  PROVE  Spec => []BreakerNotLost
<1>1. FailureInv => BreakerNotLost
  BY DEF FailureInv
<1> QED BY <1>1, FailuresHold, PTL

-----------------------------------------------------------------------------
\* What a failed job was submitted for, and whether a later job has it.
Needed(j)    == {o \in jobs[j].ops : Time[o] > jobs[j].low}
Retryable(j) == jobs[j].status = "Failed" /\ jobs[j].low # Epoch
Retried(j)   == \A o \in Needed(j) : \E k \in Created : k > j /\ o \in jobs[k].ops

\* From the rollback to the submission, the run that scores a failed job has the
\* job's work before it, and then in hand.
InHand ==
    /\ pc \in Bounding => \A j \in run.scoring : Retryable(j) =>
           run.cp.watermark # Epoch /\ run.cp.watermark <= jobs[j].low
    /\ pc \in {"acquire", "build", "submit"} => \A j \in run.scoring :
           Retryable(j) => Needed(j) \subseteq run.batch

\* A job found finished is scored by the run, or was.
Scorable ==
    /\ \A j \in DOMAIN state.records : state.records[j].scored => Finished(j)
    /\ \A j \in run.terminal \cap DOMAIN state.records :
           j \in run.scoring \/ state.records[j].scored \/ pc = "mark"

RetryInv ==
    /\ \A j \in Created : jobs[j].ops \subseteq journal \cap Matching
    /\ Scorable
    /\ InHand
    /\ pc = "mark" => run.submitted # NoJob
    /\ \A j \in Created : Retryable(j) /\ Spent(j) => Retried(j)

\* What a step does to a job that has failed or finished.
LEMMA RetryableIs ==
  ASSUME TypeInv, [Next]_vars, NEW j \in Created
  PROVE  /\ Needed(j)' = Needed(j)
         /\ Retried(j) => Retried(j)'
         /\ Retryable(j) => Finished(j)
         /\ Finished(j) => Finished(j)' /\ (Retryable(j)' <=> Retryable(j))
<1>1. Needed(j)' = Needed(j)
  BY JobsKept DEF Needed
<1>2. Retried(j) => Retried(j)'
  BY <1>1, JobsKept DEF Retried
<1>3. Finished(j) => Finished(j)' /\ (Retryable(j)' <=> Retryable(j))
  BY JobsKept DEF Finished, Retryable
<1> QED BY <1>1, <1>2, <1>3 DEF Retryable, Finished

\* A bucket that stays enabled loses no record.
LEMMA NotDisabled ==
  ASSUME TypeInv, ~ state'.disabled
  PROVE  state' # Disabled
BY DEF Disabled, TypeInv, Typed, StateObject

\* The only step that spends a failed job is the submission of the run that
\* scores it: pruning and eviction take records of spent jobs only, and the marks
\* follow the submission.
LEMMA SpentBySubmission ==
  ASSUME TypeInv, JobsInv, RunsCount, PutInv, SeenInv, RecordedInv, RetryInv,
         ~ state'.disabled, [Next]_vars, NEW f \in Created, ~ Spent(f), Spent(f)'
  PROVE  SubmitJob /\ f \in run.scoring
<1> USE RunsCountFaults
<1>0. run.submitted # NoJob =>
          run.submitted \notin run.terminal /\ run.submitted \notin run.scoring
  BY DEF RecordedInv, SeenInv
<1>1. ~ Unrecorded(f)
  <2> SUFFICES ASSUME Unrecorded(f) PROVE FALSE
    OBVIOUS
  <2>1. ~ Unrecorded(f)'
    BY DEF Spent, Unrecorded
  <2>2. PersistSubmission /\ state' = Recorded
    BY <2>1, UnrecordedStep
  <2>3. f = run.submitted /\ f # NoJob
    BY LenProperties DEF Unrecorded, Created, TypeInv, Typed
  <2>4. f \in DOMAIN state'.records
    BY <1>0, <2>2, <2>3, PersistKeepsOpen
  <2>5. state'.records[f] = OwnRecord
    <3>1. state.records \in RecordMaps /\ state'.records =
            RecordSubmission(state.records, run.submitted, OwnRecord,
                             run.terminal, state.processed)
      BY <2>2 DEF Recorded, OwnRecord, TypeInv, Typed, StateObject
    <3> QED BY <2>3, <2>4, <3>1, RecordSubmissionKeeps
  <2>6. run' = run
    BY <2>2 DEF PersistSubmission
  <2> QED BY <1>0, <2>3, <2>4, <2>5, <2>6 DEF Spent, OwnRecord
<1>2. /\ f \in DOMAIN state.records /\ ~ state.records[f].scored
      /\ ~ (run.submitted # NoJob /\ f \in run.scoring)
  BY <1>1 DEF Spent, Unrecorded
<1>3. CASE PersistSubmission
  <2>1. state' = Recorded /\ run' = run
    BY <1>3, PersistLands DEF PersistSubmission
  <2>2. f \notin run.terminal
    BY <1>2, <1>3 DEF RetryInv, Scorable, PersistSubmission, TypeInv, MemoryCoherent
  <2>3. f \in DOMAIN state'.records
    BY <1>2, <1>3, <2>1, <2>2, PersistKeepsOpen
  <2>4. f # run.submitted
    BY <1>1, <1>3 DEF Unrecorded, PersistSubmission
  <2>5. ~ state'.records[f].scored
    BY <1>2, <1>3, <2>3, <2>4, RecordStep DEF CommitScored, PersistSubmission
  <2> QED BY <1>2, <2>1, <2>3, <2>5 DEF Spent
<1>4. CASE ~ PersistSubmission
  <2>0. state \in StateObject /\ run \in RunMemory
    BY DEF TypeInv, Typed
  <2>1. DOMAIN state'.records = DOMAIN state.records
    <3>1. /\ DOMAIN MarkedDiagnosed(run.job).records = DOMAIN state.records
          /\ DOMAIN MarkedScored(First(run.scoring)).records = DOMAIN state.records
      BY <2>0 DEF MarkedDiagnosed, MarkedScored, StateObject
    <3> QED BY <1>4, <3>1, NotDisabled, RecordsStep
  <2>2. ~ state'.records[f].scored
    <3>1. ASSUME CommitScored, run.scoring # {}, f = First(run.scoring) PROVE FALSE
      <4>1. f \in run.scoring /\ run.submitted # NoJob
        BY <2>0, <3>1, FirstIsMember DEF RunMemory, RetryInv, CommitScored
      <4> QED BY <1>2, <4>1
    <3> QED BY <1>2, <1>4, <2>1, <3>1, RecordStep
  <2>3. run'.submitted # NoJob /\ f \in run'.scoring
    BY <1>2, <2>1, <2>2 DEF Spent
  <2>4. ~ EndRun /\ ~ \E records : Begin(records)
    BY <2>3, BeginsWithRecords DEF EndRun, NoRun
  <2>5. CASE SubmitJob
    <3>1. pc = "submit" /\ run'.scoring = run.scoring
      BY <2>0, <2>5 DEF SubmitJob, RunMemory
    <3> QED BY <2>3, <2>5, <3>1
  <2>6. CASE run'.submitted = run.submitted
    <3>1. pc # "describe"
      BY <2>3, <2>6 DEF PutInv
    <3>2. run'.scoring \subseteq run.scoring
      BY <2>4, <3>1, ScoringSteps
    <3> QED BY <1>2, <2>3, <2>6, <3>2
  <2> QED BY <2>3, <2>5, <2>6, SubmittedSteps
<1> QED BY <1>3, <1>4

\* A job's work stays a part of the matching rows, along its steps.
LEMMA WorkStep ==
  ASSUME TypeInv, BatchInv, [Next]_vars,
         \A j \in Created : jobs[j].ops \subseteq journal \cap Matching
  PROVE  \A j \in Created' : jobs'[j].ops \subseteq journal' \cap Matching
<1>1. journal \subseteq journal'
  BY JournalSteps DEF TagObject
<1>2. CASE Created' = Created
  BY <1>1, <1>2, JobsKept
<1>3. CASE CreateJob
  <2>1. /\ Created' = Created \cup {Len(jobs) + 1}
        /\ jobs'[Len(jobs) + 1].ops = run.batch
        /\ \A j \in Created : jobs'[j] = jobs[j]
    BY <1>3, JobCreated
  <2> QED BY <1>1, <2>1 DEF BatchInv
<1> QED BY <1>2, <1>3, JobSteps, JobEnded DEF Created

\* A run scores what it finds finished, and marks what it scored.
LEMMA ScorableStep ==
  ASSUME TypeInv, JobsInv, PutsLand, PutInv, SeenInv, RetryInv, RunsCount, RecordedInv,
         ~ state'.disabled, [Next]_vars
  PROVE  Scorable'
<1>0. /\ state \in StateObject /\ run \in RunMemory
      /\ \A j \in run.terminal : j \in Created /\ Finished(j)
  BY DEF TypeInv, Typed, JobsInv
<1>1. ASSUME NEW j \in DOMAIN state'.records, state'.records[j].scored
      PROVE  Finished(j)'
  <2>1. CASE j \in DOMAIN state.records /\ state.records[j].scored
    BY <2>1, RetryableIs DEF RetryInv, Scorable, JobsInv
  <2>2. CASE CommitScored /\ run.scoring # {} /\ j = First(run.scoring)
    <3>1. j \in run.scoring
      BY <1>0, <2>2, FirstIsMember DEF RunMemory
    <3> QED BY <1>0, <3>1, RetryableIs DEF SeenInv
  <2> QED BY <1>1, <2>1, <2>2, RecordStep DEF OwnRecord
<1>2. ASSUME NEW j \in run'.terminal \cap DOMAIN state'.records,
             j \notin run'.scoring, pc' # "mark"
      PROVE  state'.records[j].scored
  <2>1. ~ EndRun /\ (\A records : ~ Begin(records)) /\ ~ PersistSubmission
        /\ ~ CommitScored
    <3>1. run'.terminal # {}
      BY <1>2
    <3>2. CommitScored => pc = "mark" /\ (EndRun \/ pc' = pc)
      BY DEF CommitScored
    <3> QED BY <1>2, <3>1, <3>2, BeginsWithRecords DEF EndRun, NoRun, PersistSubmission, GoTo
  <2>2. j \in DOMAIN state.records /\ state'.records[j].scored = state.records[j].scored
    BY <1>2, <2>1, RecordStep
  <2>3. CASE run'.scoring = run.scoring /\ run'.terminal = run.terminal
    <3>1. pc # "mark"
      BY <1>2, <2>1, PlaceSteps DEF EndRun, GoTo
    <3> QED BY <1>2, <2>2, <2>3, <3>1 DEF RetryInv, Scorable
  <2>4. CASE /\ pc = "describe" /\ run.todo # {}
             /\ run'.terminal = run.terminal \cup {First(run.todo)}
             /\ run'.scoring = IF run.records[First(run.todo)].scored
                                 THEN run.scoring ELSE run.scoring \cup {First(run.todo)}
    <3>1. CASE j \in run.terminal
      BY <1>2, <2>2, <2>4, <3>1 DEF RetryInv, Scorable
    <3>2. CASE j = First(run.todo)
      <4>1. run.records[j].scored
        BY <1>2, <2>4, <3>2
      <4>2. j \in DOMAIN run.records
        BY <1>0, <2>4, <3>2, FirstIsMember DEF RunMemory, TypeInv, MemoryCoherent
      <4> QED BY <2>2, <2>4, <4>1, <4>2 DEF SeenInv, Early, Reading, Bounding, Agree
    <3> QED BY <1>2, <2>4, <3>1, <3>2
  <2> QED BY <2>1, <2>3, <2>4, ScoringSteps
<1> QED BY <1>1, <1>2 DEF Scorable

\* A rollback goes down to every failed job that the run scores.
LEMMA RollsBackFor ==
  ASSUME TypeInv, JobsInv, SeenInv, Recovering,
         NEW j \in run.scoring, Retryable(j)
  PROVE  RolledBack.watermark # Epoch /\ RolledBack.watermark <= jobs[j].low
<1>0. /\ pc \in Early /\ j \in DOMAIN run.records /\ run.cp \in Checkpoints
      /\ run.records \in RecordMaps
  BY DEF Recovering, Early, Reading, Bounding, TypeInv, Typed, MemoryCoherent, RunMemory
<1>1. DOMAIN Outcomes = run.scoring /\ run.scoring \subseteq DOMAIN run.records
  BY DEF Outcomes, TypeInv, MemoryCoherent
<1>2. \A i \in DOMAIN run.records : run.records[i].low \in Nat
  BY <1>0, RecordMapsAre DEF SubmissionRecord
<1>3. run.records[j].low = jobs[j].low /\ jobs[j].low # 0
  BY <1>0 DEF SeenInv, Agree, Retryable, Epoch
<1>4. j \in FailedIn(Outcomes)
  BY <1>1 DEF FailedIn, Outcomes, Retryable, EffectiveFailure
<1>5. /\ Plan.rollback # NoRollback /\ Plan.rollback <= jobs[j].low
      /\ Plan.rollback # 0
  BY <1>1, <1>2, <1>3, <1>4, RollbackIsALow DEF Plan
<1>6. RolledBack.watermark = Plan.rollback
  BY <1>0, <1>4, <1>5 DEF RolledBack, RollBackTo, Checkpoints, AnyFailed
<1> QED BY <1>5, <1>6 DEF Epoch

\* A read from there takes up all that the failed job was submitted for.
LEMMA TakesUpFailed ==
  ASSUME TypeInv, QueryInv, NewRowsFit, LeaseInv, RetryInv, pc = "read",
         TakeUp(RowsRead(journal)), ~ EndRun,
         NEW j \in run.scoring \cap Created, Retryable(j)
  PROVE  Needed(j) \subseteq run'.batch
<1> SUFFICES ASSUME NEW o \in Needed(j) PROVE o \in run'.batch
  OBVIOUS
<1>0. /\ run \in RunMemory /\ run.cp.watermark \in Nat /\ journal \in SUBSET Op
      /\ jobs[j].low \in Nat
  <2>1. jobs[j] \in Job
    BY ElementOfSeq, LenProperties DEF Created, TypeInv, Typed
  <2> QED BY <2>1 DEF TypeInv, Typed, RunMemory, Checkpoints, Job
<1>1. o \in journal \cap Matching /\ Time[o] > jobs[j].low
  BY DEF Needed, RetryInv
<1>2. run.cp.watermark # Epoch /\ run.cp.watermark <= jobs[j].low
  BY DEF RetryInv, InHand, Bounding
<1>3. Time[o] > run.cp.watermark
  <2>1. Time[o] \in Nat
    BY <1>0, <1>1, CheckpointAssumption
  <2> QED BY <1>0, <1>1, <1>2, <2>1
<1>4. o \in RowsRead(journal)
  <2>1. run.query.until = NoBound
    BY <1>2, ReadUnbounded
  <2>2. Time[o] > run.query.since
    BY <1>0, <1>1, <1>3, ReadStartsBelow, CheckpointAssumption
  <2> QED BY <1>1, <2>1, <2>2 DEF RowsRead, RowsUpTo
<1>5. IsEligible(o, run.cp)
  BY <1>3 DEF IsEligible, HeldByLease, LeaseInv
<1> QED BY <1>0, <1>1, <1>4, <1>5 DEF TakeUp, RunMemory

\* What the run has in hand, along its steps.
LEMMA InHandStep ==
  ASSUME TypeInv, QueryInv, JobsInv, NewRowsFit, SeenInv, LeaseInv, RetryInv,
         [Next]_vars
  PROVE  InHand'
<1>0. run \in RunMemory /\ run.cp \in Checkpoints
  BY DEF TypeInv, Typed, RunMemory
<1>1. \A j \in run.scoring : /\ j \in Created
                             /\ Retryable(j)' <=> Retryable(j)
                             /\ Needed(j)' = Needed(j) /\ jobs'[j].low = jobs[j].low
  BY RetryableIs, JobsKept DEF SeenInv, JobsInv
<1>2. CASE pc' = pc /\ run'.cp = run.cp /\ run'.batch = run.batch
           /\ run'.scoring = run.scoring
  BY <1>1, <1>2 DEF RetryInv, InHand
<1>3. CASE EndRun
  BY <1>3 DEF EndRun, GoTo, InHand, Bounding
<1>4. CASE \E records : Begin(records)
  BY <1>4 DEF Begin, GoTo, InHand, Bounding
<1>5. CASE ~ RunStep
  BY <1>2, <1>5, OutsideSteps
<1>6. CASE RunStep /\ pc' \in Bounding /\ ~ EndRun
  <2>1. Recover \/ BoundRead
    <3>1. ~ (ReadJournal \/ ReadFails \/ Crash)
      BY <1>6 DEF ReadJournal, ReadFails, Crash, TakeUp, Bounding, GoTo
    <3>2. pc \in Bounding \cup {"describe", "recover"}
      BY <1>6, PlaceSteps DEF EndRun, GoTo, Bounding
    <3> QED BY <1>6, <3>1, <3>2, StepsByPlace
            DEF DescribeOutstanding, DescribeAgedOut, DescribeTerminal, TripBreaker,
                Bounding, GoTo
  <2>2. CASE BoundRead
    <3>1. PICK q \in Queries : run' = [run EXCEPT !.query = q]
      BY <2>2, BoundReadIs DEF TypeInv
    <3>2. run'.cp = run.cp /\ run'.scoring = run.scoring /\ pc \in Bounding
      BY <1>0, <2>2, <3>1, BoundReadIs DEF RunMemory, TypeInv, Bounding
    <3> QED BY <1>1, <1>6, <3>2 DEF RetryInv, InHand, Bounding
  <2>3. CASE Recover
    <3>1. Recovering /\ run' = [run EXCEPT !.failures = Plan.failures, !.cp = RolledBack]
      BY <1>6, <2>3 DEF Recover
    <3>2. run'.cp = RolledBack /\ run'.scoring = run.scoring
      BY <1>0, <3>1 DEF RunMemory
    <3> QED BY <1>1, <1>6, <3>1, <3>2, RollsBackFor DEF InHand, Bounding
  <2> QED BY <2>1, <2>2, <2>3
<1>7. CASE RunStep /\ pc' \in {"acquire", "build", "submit"} /\ ~ EndRun
  <2>1. \/ pc \in {"read", "acquire", "build"}
        \/ pc = "submit" /\ pc' = "submit"
    BY <1>7, PlaceSteps DEF EndRun, GoTo
  <2>2. AcquireLease \/ BuildManifest \/ ReadJournal
    <3>1. ~ BoundRead
      BY <1>7, BoundReadIs DEF TypeInv
    <3> QED BY <1>7, <2>1, <3>1, StepsByPlace
            DEF ReadFails, SubmitJob, SubmitFails, Crash, GoTo
  <2>3. CASE AcquireLease \/ BuildManifest
    <3>1. UNCHANGED run /\ pc \in {"acquire", "build"}
      BY <1>7, <2>3 DEF AcquireLease, BuildManifest
    <3> QED BY <1>1, <1>7, <3>1 DEF RetryInv, InHand, Bounding
  <2>4. CASE ReadJournal
    <3>1. TakeUp(RowsRead(journal)) /\ pc = "read"
      BY <2>4 DEF ReadJournal
    <3>2. run'.scoring = run.scoring /\ pc' = "acquire"
      BY <1>0, <1>7, <3>1 DEF TakeUp, RunMemory, GoTo
    <3>3. \A j \in run.scoring : Retryable(j) => Needed(j) \subseteq run'.batch
      BY <1>1, <1>7, <3>1, TakesUpFailed
    <3> QED BY <1>1, <3>2, <3>3 DEF InHand, Bounding
  <2> QED BY <2>2, <2>3, <2>4
<1> QED BY <1>3, <1>5, <1>6, <1>7 DEF InHand

\* A run comes to its last step with a job submitted, or with the bucket disabled.
LEMMA MarkStep ==
  ASSUME TypeInv, PutsLand, PutInv, LeaseInv, RetryInv, ~ state'.disabled, [Next]_vars,
         pc' = "mark"
  PROVE  run'.submitted # NoJob
<1>0. run \in RunMemory
  BY DEF TypeInv, Typed
<1>1. CASE ~ RunStep
  BY <1>1, OutsideSteps DEF RetryInv
<1>2. CASE RunStep
  <2>1. ~ EndRun
    BY DEF EndRun, GoTo
  <2>2. CASE pc = "mark"
    <3>1. CommitScored
      BY <1>2, <2>1, <2>2, StepsByPlace DEF Crash
    <3>2. run'.submitted = run.submitted
      BY <1>0, <2>1, <3>1 DEF CommitScored, RunMemory
    <3> QED BY <2>2, <3>2 DEF RetryInv
  <2>3. CASE pc = "disable"
    <3>1. DisableBucket
      BY <1>2, <2>1, <2>3, StepsByPlace DEF Crash
    <3>2. fresh
      BY <2>3 DEF LeaseInv
    <3>3. state' = Disabled
      BY <3>1, <3>2, LandedPuts DEF DisableBucket
    <3> QED BY <3>3, NotDisabled
  <2>4. CASE pc = "release"
    <3>1. ReleaseLease
      BY <1>2, <2>1, <2>4, StepsByPlace DEF Crash
    <3>2. run' = run /\ run.submitted # NoJob
      BY <2>1, <3>1 DEF ReleaseLease
    <3> QED BY <3>2
  <2>5. CASE pc = "persist"
    <3>1. PersistSubmission
      BY <1>2, <2>1, <2>5, StepsByPlace DEF Crash
    <3> QED BY <2>5, <3>1 DEF PersistSubmission, TypeInv, MemoryCoherent
  <2> QED BY <2>1, <2>2, <2>3, <2>4, <2>5, PlaceSteps DEF EndRun, GoTo
<1> QED BY <1>1, <1>2

\* A job that runs is not spent, and a failed one has its work in the job that
\* spends it.
LEMMA RetriedStep ==
  ASSUME TypeInv, JobsInv, RunsCount, PutInv, SeenInv, RecordedInv, RetryInv,
         ~ state'.disabled, [Next]_vars,
         NEW f \in Created', Retryable(f)', Spent(f)'
  PROVE  Retried(f)'
<1>1. f \in Created
  <2>1. CASE SubmitJob /\ CreateJob
    <3>1. Created' = Created \cup {Len(jobs) + 1}
          /\ jobs'[Len(jobs) + 1].status = "Active"
      BY <2>1, JobCreated
    <3> QED BY <3>1 DEF Retryable
  <2> QED BY <2>1, CreatedBySubmit, JobEnded DEF Created
<1>2. CASE Retryable(f) /\ Spent(f)
  BY <1>1, <1>2, RetryableIs DEF RetryInv
<1>3. CASE ~ Retryable(f) \/ ~ Spent(f)
  <2>1. ~ Spent(f)
    <3> SUFFICES ASSUME ~ Finished(f) PROVE ~ Spent(f)
      BY <1>1, <1>3, RetryableIs
    <3>1. f \notin run.scoring
      BY DEF SeenInv, JobsInv
    <3> QED BY <1>1, <3>1 DEF RecordedInv, Unrecorded, Spent, RetryInv, Scorable
  <2>2. SubmitJob /\ f \in run.scoring
    BY <1>1, <2>1, SpentBySubmission
  <2>3. Retryable(f) /\ Needed(f)' = Needed(f)
    BY <1>1, <2>2, RetryableIs DEF SeenInv, JobsInv
  <2>4. Needed(f) \subseteq run.batch
    BY <2>2, <2>3 DEF RetryInv, InHand, SubmitJob
  <2>5. /\ Len(jobs) + 1 \in Created' /\ jobs'[Len(jobs) + 1].ops = run.batch
    BY <2>2, JobCreated DEF SubmitJob
  <2>6. Len(jobs) + 1 > f
    BY <1>1, LenProperties DEF TypeInv, Typed, Created
  <2> QED BY <2>3, <2>4, <2>5, <2>6 DEF Retried
<1> QED BY <1>2, <1>3

\* What the retries rest on.
WorkInv ==
    /\ TypeInv /\ QueryInv /\ JobsInv /\ PutInv /\ SeenInv
    /\ RecordedInv /\ BatchInv /\ LeaseInv /\ RetryInv

LEMMA WorkInit == Init => WorkInv
<1> SUFFICES ASSUME Init PROVE WorkInv
  OBVIOUS
<1>1. Created = {}
  BY DEF Init, Created
<1>2. JobsInv /\ RecordedInv
  BY CountInit DEF CountInv, LimitInv
<1>3. BatchInv /\ LeaseInv
  BY DEF Init, BatchInv, LeaseInv, NoRun, EmptyState, EmptyCheckpoint, NoLease, Leased
<1>4. RetryInv
  BY <1>1, NoRunTyped DEF Init, RetryInv, Scorable, InHand, NoRun, EmptyState
<1> QED BY <1>2, <1>3, <1>4, TypeInit, QueryInit, PutInit, SeenInit DEF WorkInv

LEMMA WorkInvStep ==
  ASSUME RunsCount, NewRowsFit, WorkInv, ~ state'.disabled, [Next]_vars
  PROVE  WorkInv'
<1> USE RunsCountFaults DEF WorkInv
<1>1. JobsInv'
  BY StoredJobsStep, JobsStep, RunJobsStep DEF JobsInv
<1>2. ~ ((DisableBucket \/ DisableLeased) /\ state' = Disabled) /\ NoneLost
  BY NotDisabled DEF NoneLost
<1>3. LeaseInv'
  BY <1>2, LeaseStep
<1>4. RetryInv'
  <2>1. \A j \in Created' : jobs'[j].ops \subseteq journal' \cap Matching
    BY WorkStep DEF RetryInv
  <2>2. \A j \in Created' : Retryable(j)' /\ Spent(j)' => Retried(j)'
    BY RetriedStep
  <2> QED BY <2>1, <2>2, ScorableStep, InHandStep, MarkStep DEF RetryInv
<1> QED BY <1>1, <1>2, <1>3, <1>4, TypeStep, QueryStep, PutStep, SeenStep, RecordedStep,
           BatchInvStep

Enabled == ~ state.disabled

\* FailedWorkIsRetried: as long as the bucket stays enabled and what is new fits one
\* read, the readmission of a failed job is spent by a submission that holds all the
\* job was submitted for: neither the settling and eviction of its record, nor a run
\* that finds the limit reached, cannot read or submits nothing, nor the marks of
\* a later run leave that work behind (_apply_recovery_plan, _commit_recovery_scored,
\* _prune_settled_records).
THEOREM FailedIsRetried ==
  ASSUME RunsCount, NewRowsFit
  PROVE  Spec /\ []Enabled => []FailedWorkIsRetried
<1>1. WorkInv /\ [Next]_vars /\ Enabled' => WorkInv'
  BY WorkInvStep DEF Enabled
<1>2. WorkInv => FailedWorkIsRetried
  <2> SUFFICES ASSUME WorkInv, NEW j \in Created, Retryable(j), run.submitted # j,
                      j \in DOMAIN state.records => state.records[j].scored
               PROVE  \A o \in jobs[j].ops : Time[o] > jobs[j].low =>
                          \E k \in Created : k > j /\ o \in jobs[k].ops
    BY DEF FailedWorkIsRetried, Retryable
  <2>1. Spent(j)
    <3>1. j \notin DOMAIN state.records \/ state.records[j].scored
      OBVIOUS
    <3>2. ~ (j = run.submitted)
      OBVIOUS
    <3> QED BY <3>1, <3>2 DEF Spent
  <2> QED BY <2>1 DEF WorkInv, RetryInv, Retried, Needed
<1> QED BY <1>1, <1>2, WorkInit, PTL DEF Spec
=============================================================================
