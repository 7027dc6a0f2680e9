------------------------- MODULE BucketSafetyProofs -------------------------
(***************************************************************************)
(* What holds of BucketRun where the PUTs of a run land: the kinds of      *)
(* fault that a theorem leaves out are its hypothesis, and everything else *)
(* is for every value of the constants.                                    *)
(***************************************************************************)
EXTENDS BucketRunProofs

USE DEF JobIds, NoJob, StateObjects, RunMemories

\* No PUT of a run is lost or overtaken by the checker's.
PutsLand == {"write", "lostReply", "overdue"} \cap Faults = {}

\* The run can do no more than end: it is over, or the bucket was disabled, with
\* no record left to mark, or with nothing submitted that a release could store.
Stale ==
    \/ pc = "idle"
    \/ pc = "mark" /\ state.records = NoRecords
    \/ pc = "release" /\ run.submitted = NoJob

\* Only an operator who enables a bucket that the run has just disabled takes
\* its ETag from it.
PutInv ==
    /\ checking = NoJob
    /\ state.disabled \/ ~ fresh => Stale
    /\ run.submitted # NoJob => pc \in {"clear", "release", "persist", "mark"}

-----------------------------------------------------------------------------
\* Where PUTs land, one is refused only to a run whose ETag is not current.
LEMMA LandedPuts ==
  ASSUME PutsLand
  PROVE  \A next :
           /\ PutRaises(next) <=> ~ fresh /\ NoFault /\ UNCHANGED <<state, fresh>>
           /\ Attempt(next) => /\ NoFault /\ UNCHANGED fresh
                               /\ state' = IF fresh THEN next ELSE state
<1>1. ~ Fault("write") /\ ~ Fault("lostReply")
  BY DEF PutsLand, Fault
<1> QED BY <1>1 DEF PutRaises, Attempt, Put, Rejected, Unsent, Unheard

\* The three ways a step treats the ETag and the disable flag.
LEMMA FlagSteps ==
  ASSUME TypeInv, PutsLand, PutInv, [Next]_vars
  PROVE  \/ fresh' = fresh /\ state'.disabled = state.disabled
         \/ /\ fresh' = fresh /\ state' \in {state, Disabled}
            /\ \/ DisableBucket
               \/ DisableLeased
         \/ /\ pc = "idle" /\ fresh' /\ ~ state.disabled /\ UNCHANGED state
            /\ run'.submitted = NoJob /\ pc' = "describe"
         \/ /\ Reenable
            /\ UNCHANGED <<run, pc>> /\ state' = [state EXCEPT !.disabled = FALSE]
<1> DEFINE Same == fresh' = fresh /\ state'.disabled = state.disabled
<1>0. state \in StateObject /\ run \in RunMemory /\ ~ Fault("overdue")
  BY DEF TypeInv, Typed, PutsLand, Fault
<1>1. CASE StartRun \/ StartRunBlind
  BY <1>1 DEF StartRun, StartRunBlind, Begin, NoRun, GoTo
<1>2. ASSUME NEW next \in StateObject, Attempt(next), next.disabled = state.disabled
      PROVE  Same
  BY <1>2, LandedPuts
<1>3. CASE MergeReport
  <2> DEFINE next == [state EXCEPT !.processed = @ \cup {run.job}]
  <2>1. Attempt(next) \/ UNCHANGED <<state, fresh>>
    BY <1>3 DEF MergeReport, Attempt
  <2>2. CASE Attempt(next)
    <3>1. state' \in {state, next} /\ fresh' = fresh
      BY <2>2, LandedPuts
    <3> QED BY <1>0, <3>1 DEF StateObject
  <2> QED BY <2>1, <2>2
<1>4. CASE ClearAlert
  <2> DEFINE next == [state EXCEPT !.alerted = @ \ {run.job}]
  <2>1. state' \in {state, next} /\ fresh' = fresh
    BY <1>4, LandedPuts DEF ClearAlert
  <2> QED BY <1>0, <2>1 DEF StateObject
<1>5. CASE DiagnoseReport
  <2>1. state' \in {state, MarkedDiagnosed(run.job)} /\ fresh' = fresh
    BY <1>5, LandedPuts DEF DiagnoseReport
  <2> QED BY <1>0, <2>1 DEF StateObject, MarkedDiagnosed
<1>6. CASE CommitScored
  <2>1. /\ state' \in {state, MarkedScored(First(run.scoring))}
        /\ fresh' = fresh
    BY <1>6, LandedPuts DEF CommitScored
  <2> QED BY <1>0, <2>1 DEF StateObject, MarkedScored
<1>7. CASE DisableBucket \/ DisableLeased
  BY <1>7, LandedPuts DEF DisableBucket, DisableLeased
<1>8. CASE AcquireLease
  <2> DEFINE next == [state EXCEPT !.cp.lease = run.candidate]
  <2>1. Attempt(next)
    BY <1>8 DEF AcquireLease, Attempt
  <2>2. state' \in {state, next} /\ fresh' = fresh
    BY <2>1, LandedPuts
  <2> QED BY <1>0, <2>2 DEF StateObject
<1>9. CASE ClearStreak
  <2> DEFINE next == [state EXCEPT !.streak = 0]
  <2>1. state' \in {state, next} /\ fresh' = fresh
    BY <1>9, LandedPuts DEF ClearStreak
  <2> QED BY <1>0, <2>1 DEF StateObject
<1>10. CASE Escalate
  <2> DEFINE next == [state EXCEPT !.streak = @ + 1]
  <2>1. Attempt(next)
    BY <1>10 DEF Escalate, Attempt
  <2>2. state' \in {state, next} /\ fresh' = fresh
    BY <2>1, LandedPuts
  <2> QED BY <1>0, <2>2 DEF StateObject
<1>11. CASE ReleaseLease
  <2>1. Attempt(Released)
    BY <1>11 DEF ReleaseLease, Attempt
  <2>2. state' \in {state, Released} /\ fresh' = fresh
    BY <2>1, LandedPuts
  <2> QED BY <1>0, <2>2 DEF StateObject, Released
<1>12. CASE PersistSubmission
  <2>1. state' \in {state, Recorded} /\ fresh' = fresh
    BY <1>12, LandedPuts DEF PersistSubmission
  <2> QED BY <1>0, <2>1 DEF StateObject, Recorded
<1>13. CASE DescribeOutstanding \/ DescribeAgedOut \/ TripBreaker \/ Recover
            \/ ReadJournal \/ BoundRead \/ ReadFails \/ BuildManifest
            \/ SubmitJob \/ SubmitFails \/ Crash
            \/ \E readable \in BOOLEAN : DescribeTerminal(readable)
  <2>1. UNCHANGED <<state, fresh>>
    BY <1>13
       DEF DescribeOutstanding, DescribeAgedOut, DescribeTerminal, TripBreaker, Recover,
           ReadJournal, BoundRead, CountTail, FindBoundary, FindFloor, ReadFails, TakeUp,
           BuildManifest,
           SubmitJob, SubmitFails, Crash
  <2> QED BY <2>1
<1>14. CASE (\E o \in Op : TagObject(o)) \/ JobStep \/ UNCHANGED vars
  BY <1>14 DEF TagObject, JobStep, JobEnds, vars
<1>15. ~ CheckerStep
  BY <1>0 DEF PutInv, CheckerStep, CheckerAlerts, CheckerReads
<1>16. CASE Reenable
  BY <1>16 DEF Reenable
<1> QED
  BY <1>1, <1>3, <1>4, <1>5, <1>6, <1>7, <1>8, <1>9, <1>10, <1>11, <1>12, <1>13,
     <1>14, <1>15, <1>16 DEF Next, RunStep

\* Each step of a run belongs to one place in it.
LEMMA StepsByPlace ==
  ASSUME RunStep
  PROVE  \/ pc = "idle" /\ (StartRun \/ StartRunBlind)
         \/ pc = "describe" /\ (DescribeOutstanding \/ DescribeAgedOut)
         \/ pc = "describe" /\ \E readable \in BOOLEAN : DescribeTerminal(readable)
         \/ pc = "merge" /\ MergeReport
         \/ pc = "unalert" /\ ClearAlert
         \/ pc = "diagnose" /\ DiagnoseReport
         \/ pc \in {"describe", "recover"} /\ (TripBreaker \/ Recover)
         \/ pc = "disable" /\ DisableBucket
         \/ pc \in {"count", "boundary", "floor"} /\ BoundRead
         \/ pc \in {"boundary", "floor", "read"} /\ ReadFails
         \/ pc = "read" /\ ReadJournal
         \/ pc = "acquire" /\ AcquireLease
         \/ pc = "build" /\ BuildManifest
         \/ pc = "submit" /\ (SubmitJob \/ SubmitFails)
         \/ pc = "clear" /\ ClearStreak
         \/ pc = "escalate" /\ Escalate
         \/ pc = "disableLeased" /\ DisableLeased
         \/ pc = "release" /\ ReleaseLease
         \/ pc = "persist" /\ PersistSubmission
         \/ pc = "mark" /\ CommitScored
         \/ pc # "idle" /\ Crash
<1>1. /\ StartRun \/ StartRunBlind => pc = "idle"
      /\ DescribeOutstanding \/ DescribeAgedOut => pc = "describe"
      /\ \A readable \in BOOLEAN : DescribeTerminal(readable) => pc = "describe"
      /\ MergeReport => pc = "merge"
      /\ ClearAlert => pc = "unalert"
      /\ DiagnoseReport => pc = "diagnose"
      /\ TripBreaker \/ Recover => pc \in {"describe", "recover"}
      /\ DisableBucket => pc = "disable"
  BY DEF StartRun, StartRunBlind, Begin, DescribeOutstanding, DescribeAgedOut,
         DescribeTerminal, MergeReport, ClearAlert, DiagnoseReport, TripBreaker,
         Recover, Recovering, DisableBucket
<1>2. /\ BoundRead => pc \in {"count", "boundary", "floor"}
      /\ ReadFails => pc \in {"boundary", "floor", "read"}
      /\ ReadJournal => pc = "read"
      /\ AcquireLease => pc = "acquire"
      /\ BuildManifest => pc = "build"
      /\ SubmitJob \/ SubmitFails => pc = "submit"
      /\ ClearStreak => pc = "clear"
      /\ Escalate => pc = "escalate"
      /\ DisableLeased => pc = "disableLeased"
      /\ ReleaseLease => pc = "release"
      /\ PersistSubmission => pc = "persist"
      /\ CommitScored => pc = "mark"
      /\ Crash => pc # "idle"
  BY DEF ReadJournal, BoundRead, CountTail, FindBoundary, FindFloor, ReadFails, AcquireLease,
         BuildManifest,
         SubmitJob, SubmitFails, ClearStreak, Escalate, DisableLeased, ReleaseLease,
         PersistSubmission, CommitScored, Crash
<1> QED BY <1>1, <1>2 DEF RunStep

\* Nobody but the run moves it on or touches the checkpoint and the records.
LEMMA OutsideSteps ==
  ASSUME TypeInv, [Next]_vars, ~ RunStep
  PROVE  /\ UNCHANGED <<run, pc>>
         /\ state'.cp = state.cp /\ state'.records = state.records
<1>0. state \in StateObject
  BY DEF TypeInv, Typed
<1>1. CASE (\E o \in Op : TagObject(o)) \/ JobStep \/ UNCHANGED vars
  BY <1>1 DEF TagObject, JobStep, JobEnds, vars
<1>2. CASE CheckerStep
  <2>1. /\ UNCHANGED <<run, pc>>
        /\ \/ state' = state
           \/ state' = [state EXCEPT !.alerted = @ \cup {checking}]
    BY <1>2 DEF CheckerStep, CheckerAlerts, CheckerReads
  <2> QED BY <1>0, <2>1 DEF StateObject
<1>3. CASE Reenable
  BY <1>0, <1>3 DEF Reenable, StateObject
<1> QED BY <1>1, <1>2, <1>3 DEF Next

\* Once a run can do no more than end, it can do no more until the next begins.
LEMMA StaleStep ==
  ASSUME TypeInv, PutsLand, Stale, [Next]_vars, ~ StartRun, ~ StartRunBlind
  PROVE  Stale'
<1>0. state \in StateObject
  BY DEF TypeInv, Typed
<1>1. CASE ~ RunStep
  BY <1>1, OutsideSteps DEF Stale
<1>2. CASE Crash
  BY <1>2 DEF Crash, EndRun, GoTo, Stale
<1>3. CASE RunStep /\ ~ Crash
  <2>1. CASE pc = "mark" /\ CommitScored
    <3>1. state.records = NoRecords
      BY <2>1 DEF Stale
    <3>2. MarkedScored(First(run.scoring)) = state
      BY <3>1, NoRunTyped DEF MarkedScored
    <3>3. state' = state
      BY <2>1, <3>2, LandedPuts DEF CommitScored
    <3> QED BY <2>1, <3>1, <3>3 DEF CommitScored, EndRun, GoTo, Stale
  <2>2. CASE pc = "release" /\ ReleaseLease
    BY <2>2 DEF Stale, ReleaseLease, EndRun, GoTo
  <2>3. pc \in {"idle", "mark", "release"}
    BY DEF Stale
  <2> QED BY <1>3, <2>1, <2>2, <2>3, StepsByPlace
<1> QED BY <1>1, <1>2, <1>3

\* Where PUTs land, a run that has submitted a job goes on with a current ETag
\* until it is released.
LEMMA PutStep ==
  ASSUME TypeInv, PutsLand, PutInv, [Next]_vars
  PROVE  PutInv'
<1>0. state \in StateObject /\ run \in RunMemory /\ ~ Fault("overdue")
  BY DEF TypeInv, Typed, PutsLand, Fault
<1>1. checking' = NoJob
  <2>1. ~ CheckerStep
    BY <1>0 DEF PutInv, CheckerStep, CheckerAlerts, CheckerReads
  <2>2. RunStep => UNCHANGED checking
    BY DEF RunStep, StartRun, StartRunBlind, Begin, DescribeOutstanding,
           DescribeAgedOut, DescribeTerminal, MergeReport, ClearAlert,
           DiagnoseReport, TripBreaker, Recover, DisableBucket, ReadJournal,
           BoundRead, CountTail, FindBoundary, FindFloor, ReadFails, AcquireLease, BuildManifest,
           SubmitJob,
           SubmitFails, ClearStreak, Escalate, DisableLeased, ReleaseLease,
           PersistSubmission, CommitScored, Crash
  <2> QED BY <2>1, <2>2 DEF Next, TagObject, JobStep, JobEnds, Reenable, PutInv, vars
<1>2. run'.submitted # NoJob => pc' \in {"clear", "release", "persist", "mark"}
  <2>1. CASE ~ RunStep
    BY <2>1, OutsideSteps DEF PutInv
  <2>2. CASE pc \in {"clear", "release", "persist", "mark"} /\ RunStep
    <3>1. CASE pc' \in {"clear", "release", "persist", "mark"}
      BY <3>1
    <3>2. CASE EndRun
      BY <3>2 DEF EndRun, NoRun
    <3> QED BY <2>2, <3>1, <3>2, StepsByPlace
            DEF ClearStreak, ReleaseLease, PersistSubmission, CommitScored, Crash, GoTo
  <2>3. CASE SubmitJob
    BY <2>3 DEF SubmitJob, GoTo
  <2>4. CASE pc \notin {"clear", "release", "persist", "mark"} /\ RunStep /\ ~ SubmitJob
    <3>1. run.submitted = NoJob
      BY <2>4 DEF PutInv
    <3>2. CASE EndRun \/ StartRun \/ StartRunBlind
      <4>1. CASE EndRun
        BY <4>1 DEF EndRun, NoRun
      <4>2. CASE StartRun \/ StartRunBlind
        <5>1. PICK records : Begin(records)
          BY <4>2 DEF StartRun, StartRunBlind
        <5>2. run'.submitted = NoJob
          BY <5>1 DEF Begin, NoRun
        <5> QED BY <5>2
      <4> QED BY <3>2, <4>1, <4>2
    <3>3. CASE DescribeOutstanding \/ DescribeAgedOut \/ DiagnoseReport
               \/ \E readable \in BOOLEAN : DescribeTerminal(readable)
      BY <1>0, <3>1, <3>3
         DEF DescribeOutstanding, DescribeAgedOut, DescribeTerminal, DiagnoseReport,
             RunMemory
    <3>4. CASE MergeReport \/ ClearAlert \/ TripBreaker \/ DisableBucket
               \/ BuildManifest \/ SubmitFails \/ Escalate \/ DisableLeased
      BY <3>1, <3>4
         DEF MergeReport, ClearAlert, TripBreaker, DisableBucket, BuildManifest,
             SubmitFails, Escalate, DisableLeased
    <3>5. CASE Recover \/ ReadJournal \/ BoundRead \/ AcquireLease
      BY <1>0, <3>1, <3>2, <3>5
         DEF Recover, ReadJournal, BoundRead, CountTail, FindBoundary, FindFloor, TakeUp,
             AcquireLease,
             RunMemory
    <3> QED BY <2>4, <3>2, <3>3, <3>4, <3>5, StepsByPlace DEF ReadFails, Crash
  <2> QED BY <2>1, <2>2, <2>3, <2>4
<1>3. state'.disabled \/ ~ fresh' => Stale'
  <2>1. CASE fresh' = fresh /\ state'.disabled = state.disabled
    <3>1. StartRun \/ StartRunBlind => fresh' /\ ~ state'.disabled
      BY <2>1 DEF StartRun, StartRunBlind, Begin
    <3> QED BY <2>1, <3>1, StaleStep DEF PutInv
  <2>2. CASE fresh' = fresh /\ state' = Disabled /\ (DisableBucket \/ DisableLeased)
    <3>1. CASE DisableBucket
      BY <1>0, <2>2, <3>1 DEF DisableBucket, GoTo, Disabled, StateObject, Stale
    <3>2. CASE DisableLeased
      BY <3>2 DEF DisableLeased, GoTo, PutInv, Stale
    <3> QED BY <2>2, <3>1, <3>2
  <2>3. CASE fresh' /\ ~ state.disabled /\ UNCHANGED state
    BY <2>3
  <2>4. CASE /\ Reenable
             /\ UNCHANGED <<run, pc>> /\ state' = [state EXCEPT !.disabled = FALSE]
    <3>1. Stale
      BY <2>4 DEF Reenable, PutInv
    <3> QED BY <1>0, <2>4, <3>1 DEF StateObject, Stale
  <2> QED BY <2>1, <2>2, <2>3, <2>4, FlagSteps
<1> QED BY <1>1, <1>2, <1>3 DEF PutInv

\* A new bucket has nothing disabled and nothing submitted.
LEMMA PutInit == Init => PutInv
BY DEF Init, PutInv, EmptyState, NoRun

-----------------------------------------------------------------------------
\* Only the lease and its release change the stored checkpoint.
LEMMA CheckpointStep ==
  ASSUME TypeInv, [Next]_vars
  PROVE  \/ state'.cp = state.cp
         \/ AcquireLease /\ state' = [state EXCEPT !.cp.lease = run.candidate]
         \/ ReleaseLease /\ state' = Released
<1>0. state \in StateObject /\ run \in RunMemory
  BY DEF TypeInv, Typed
<1>1. CASE ~ RunStep
  BY <1>1, OutsideSteps
<1>2. CASE AcquireLease \/ ReleaseLease
  BY <1>2 DEF AcquireLease, ReleaseLease, Attempt, Put, PutRaises, Rejected, Unsent,
              Unheard
<1>3. CASE \E next \in StateObject : next.cp = state.cp /\ Attempt(next)
  BY <1>3 DEF Attempt, Put, PutRaises, Rejected, Unsent, Unheard
<1>4. CASE UNCHANGED state
  BY <1>4
<1>5. CASE MergeReport \/ ClearAlert \/ DiagnoseReport
  <2>1. /\ [state EXCEPT !.processed = @ \cup {run.job}].cp = state.cp
        /\ [state EXCEPT !.alerted = @ \ {run.job}].cp = state.cp
        /\ MarkedDiagnosed(run.job).cp = state.cp
    BY <1>0 DEF StateObject, MarkedDiagnosed
  <2> QED BY <1>5, <2>1 DEF MergeReport, ClearAlert, DiagnoseReport, Attempt, Put,
               PutRaises, Rejected, Unsent, Unheard
<1>6. CASE DisableBucket \/ DisableLeased \/ ClearStreak \/ Escalate
           \/ PersistSubmission \/ CommitScored
  <2>1. /\ Disabled.cp = state.cp
        /\ [state EXCEPT !.streak = 0].cp = state.cp
        /\ [state EXCEPT !.streak = @ + 1].cp = state.cp
        /\ Recorded.cp = state.cp
        /\ MarkedScored(First(run.scoring)).cp = state.cp
    BY <1>0 DEF StateObject, Disabled, Recorded, MarkedScored
  <2> QED BY <1>6, <2>1 DEF DisableBucket, DisableLeased, ClearStreak, Escalate,
               PersistSubmission, CommitScored, Attempt, Put, PutRaises, Rejected,
               Unsent, Unheard
<1>7. CASE RunStep /\ ~ (UNCHANGED state)
  <2>1. \/ MergeReport \/ ClearAlert \/ DiagnoseReport \/ DisableBucket
        \/ DisableLeased \/ ClearStreak \/ Escalate \/ PersistSubmission
        \/ CommitScored \/ AcquireLease \/ ReleaseLease
    BY <1>7
       DEF RunStep, StartRun, StartRunBlind, Begin, TripBreaker, Recover, ReadJournal,
           BoundRead, CountTail, FindBoundary, FindFloor, TakeUp, ReadFails, BuildManifest,
           SubmitJob,
           SubmitFails, Crash, DescribeOutstanding, DescribeAgedOut, DescribeTerminal
  <2> QED BY <1>2, <1>5, <1>6, <2>1
<1> QED BY <1>1, <1>4, <1>7

\* What a run remembers of the checkpoint, the records and its own submission,
\* and which steps change that.
Remembered(r) == <<r.cp, r.records, r.failures, r.candidate, r.batch, r.submitted>>

LEMMA RunSteps ==
  ASSUME TypeInv, [Next]_vars
  PROVE  \/ Remembered(run') = Remembered(run)
         \/ EndRun
         \/ \E records \in {state.records, NoRecords} : Begin(records)
         \/ /\ Recover /\ ~ AtLimit /\ pc' = "count"
            /\ run' = [run EXCEPT !.failures = Plan.failures, !.cp = RolledBack]
         \/ /\ pc = "read" /\ pc' = "acquire"
            /\ TakeUp(RowsRead(journal))
            /\ UNCHANGED <<journal, jobs, state, fresh>>
         \/ SubmitJob
<1>0. run \in RunMemory
  BY DEF TypeInv, Typed
<1>1. CASE ~ RunStep
  BY <1>1, OutsideSteps DEF Remembered
<1>2. CASE DescribeOutstanding \/ DescribeAgedOut \/ MergeReport \/ ClearAlert
           \/ DiagnoseReport \/ \E readable \in BOOLEAN : DescribeTerminal(readable)
  <2>1. CASE DescribeOutstanding
    BY <1>0, <2>1 DEF DescribeOutstanding, RunMemory, Remembered
  <2>2. CASE DescribeAgedOut
    BY <1>0, <2>2 DEF DescribeAgedOut, RunMemory, Remembered
  <2>3. CASE MergeReport \/ ClearAlert \/ DiagnoseReport
    <3>1. ASSUME MergeReport PROVE UNCHANGED run
      BY <3>1 DEF MergeReport
    <3>2. ASSUME ClearAlert PROVE UNCHANGED run
      BY <3>2 DEF ClearAlert
    <3>3. CASE DiagnoseReport
      BY <1>0, <3>3 DEF DiagnoseReport, RunMemory, Remembered
    <3>4. ASSUME UNCHANGED run PROVE Remembered(run') = Remembered(run)
      BY <3>4
    <3> QED BY <2>3, <3>1, <3>2, <3>3, <3>4
  <2>4. ASSUME NEW readable \in BOOLEAN, DescribeTerminal(readable)
        PROVE  Remembered(run') = Remembered(run)
    BY <1>0, <2>4 DEF DescribeTerminal, RunMemory, Remembered
  <2> QED BY <1>2, <2>1, <2>2, <2>3, <2>4
<1>3. CASE TripBreaker \/ DisableBucket \/ BuildManifest \/ SubmitFails \/ ClearStreak
           \/ Escalate \/ DisableLeased \/ PersistSubmission
  BY <1>3 DEF TripBreaker, DisableBucket, BuildManifest, SubmitFails, ClearStreak,
       Escalate, DisableLeased, PersistSubmission, Remembered
<1>4. CASE CommitScored \/ AcquireLease \/ ReleaseLease \/ ReadFails \/ Crash
  BY <1>0, <1>4 DEF CommitScored, AcquireLease, ReleaseLease, ReadFails, Crash,
       RunMemory, Remembered
<1>5. CASE StartRun \/ StartRunBlind
  BY <1>5 DEF StartRun, StartRunBlind
<1>6. CASE Recover
  BY <1>6 DEF Recover, GoTo
<1>7. CASE ReadJournal
  <2>1. EndRun \/ pc' = "acquire"
    BY <1>7 DEF ReadJournal, TakeUp, GoTo
  <2> QED BY <1>7, <2>1 DEF ReadJournal
<1>8. CASE BoundRead
  <2>1. PICK q \in Queries : run' = [run EXCEPT !.query = q]
    BY <1>8, BoundReadIs DEF TypeInv
  <2> QED BY <1>0, <2>1 DEF RunMemory, Remembered
<1> QED BY <1>1, <1>2, <1>3, <1>4, <1>5, <1>6, <1>7, <1>8 DEF RunStep

-----------------------------------------------------------------------------
\* A lease outlives its run when a PUT of the run is lost, when the checker
\* writes in between, when the run dies, and when the run that disabled the bucket
\* over a rejected manifest meets the operator before it is over.
RunsRelease == {"write", "lostReply", "overdue", "crash", "rejected"} \cap Faults = {}

Leased == {"build", "submit", "clear", "escalate", "disableLeased", "release"}

LeaseInv ==
    /\ state.disabled \/ ~ fresh => pc \in {"idle", "mark"}
    /\ pc \notin Leased => state.cp.lease = NoLease
    /\ run.cp.lease = NoLease

\* No manifest was refused.
Unrefused == pc \notin {"escalate", "disableLeased"}

LEMMA RunsReleaseFaults ==
  ASSUME RunsRelease
  PROVE  PutsLand /\ ~ Fault("crash") /\ ~ Fault("rejected")
BY DEF RunsRelease, PutsLand, Fault

LEMMA UnrefusedStep ==
  ASSUME TypeInv, RunsRelease, Unrefused, [Next]_vars
  PROVE  Unrefused'
<1> USE DEF Unrefused
<1>c. ~ Crash /\ ~ Fault("rejected")
  BY RunsReleaseFaults DEF Crash
<1>1. CASE ~ RunStep
  BY <1>1, OutsideSteps
<1>2. CASE RunStep
  <2>1. CASE EndRun
    BY <2>1 DEF EndRun, GoTo
  <2>2. CASE StartRun \/ StartRunBlind \/ DescribeOutstanding \/ DescribeAgedOut
             \/ MergeReport \/ ClearAlert \/ DiagnoseReport
             \/ \E readable \in BOOLEAN : DescribeTerminal(readable)
    BY <2>2 DEF StartRun, StartRunBlind, Begin, DescribeOutstanding, DescribeAgedOut,
         DescribeTerminal, MergeReport, ClearAlert, DiagnoseReport, GoTo
  <2>3. CASE TripBreaker \/ Recover \/ DisableBucket \/ BuildManifest \/ ClearStreak
    BY <2>1, <2>3
       DEF TripBreaker, Recover, DisableBucket, BuildManifest, ClearStreak, GoTo
  <2>4. CASE ReadJournal \/ BoundRead \/ ReadFails \/ AcquireLease
    BY <2>1, <2>4
       DEF ReadJournal, BoundRead, CountTail, FindBoundary, FindFloor, ReadFails, TakeUp,
           AcquireLease, GoTo
  <2>5. CASE SubmitJob \/ SubmitFails
    BY <1>c, <2>5 DEF SubmitJob, SubmitFails, GoTo
  <2>6. CASE ReleaseLease \/ PersistSubmission \/ CommitScored
    BY <2>1, <2>6 DEF ReleaseLease, PersistSubmission, CommitScored, GoTo
  <2> QED BY <1>c, <1>2, <2>2, <2>3, <2>4, <2>5, <2>6, StepsByPlace
<1> QED BY <1>1, <1>2

\* A run keeps its ETag, and the lease that it stores it takes back.
LEMMA LeaseStep ==
  ASSUME TypeInv, PutsLand, ~ Fault("crash"), PutInv, LeaseInv, [Next]_vars,
         ~ (DisableLeased /\ state' = Disabled)
  PROVE  LeaseInv'
<1>0. state \in StateObject /\ run \in RunMemory /\ state.cp \in Checkpoints
  BY DEF TypeInv, Typed, StateObject
<1>c. ~ Crash
  BY DEF Crash
<1>1. state'.disabled \/ ~ fresh' => pc' \in {"idle", "mark"}
  <2>1. CASE fresh' = fresh /\ state'.disabled = state.disabled
    <3>1. StartRun \/ StartRunBlind => fresh' /\ ~ state'.disabled
      BY <2>1 DEF StartRun, StartRunBlind, Begin
    <3>2. ~ RunStep => pc' = pc
      BY OutsideSteps
    <3>3. CommitScored => pc' \in {"idle", "mark"}
      BY DEF CommitScored, EndRun, GoTo
    <3> QED BY <1>c, <2>1, <3>1, <3>2, <3>3, StepsByPlace DEF LeaseInv
  <2>2. CASE DisableBucket
    BY <2>2 DEF DisableBucket, GoTo
  <2>3. CASE DisableLeased /\ fresh' = fresh /\ state' \in {state, Disabled}
    BY <2>3 DEF DisableLeased, LeaseInv
  <2>4. CASE fresh' /\ ~ state.disabled /\ UNCHANGED state
    BY <2>4
  <2>5. CASE Reenable /\ UNCHANGED <<run, pc>>
    BY <2>5 DEF Reenable, LeaseInv
  <2> QED BY <2>1, <2>2, <2>3, <2>4, <2>5, FlagSteps
<1>2. pc' \notin Leased => state'.cp.lease = NoLease
  <2>1. CASE AcquireLease
    <3>1. fresh
      BY <2>1 DEF AcquireLease, LeaseInv
    <3>2. pc' = "build"
      BY <2>1, <3>1, LandedPuts DEF AcquireLease, GoTo
    <3> QED BY <3>2 DEF Leased
  <2>2. CASE ReleaseLease
    <3>1. fresh
      BY <2>2 DEF ReleaseLease, LeaseInv
    <3>2. state' = Released
      BY <2>2, <3>1, LandedPuts DEF ReleaseLease, Put
    <3>3. Released.cp.lease = NoLease
      <4> DEFINE refs == IF run.submitted = NoJob THEN {} ELSE run.batch
      <4>1. refs \in SUBSET Op /\ run.candidate \in Nat
        BY <1>0 DEF RunMemory
      <4>2. AdvanceCheckpoint(state.cp, refs, run.candidate).lease = NoLease
        BY <1>0, <4>1, AdvanceCheckpointMonotone
      <4> QED BY <1>0, <4>2 DEF Released, StateObject
    <3> QED BY <3>2, <3>3
  <2>3. CASE ~ AcquireLease /\ ~ ReleaseLease
    <3>1. state'.cp = state.cp
      BY <2>3, CheckpointStep
    <3>2. CASE ~ RunStep
      BY <3>1, <3>2, OutsideSteps DEF LeaseInv
    <3>3. CASE pc \in Leased /\ RunStep
      BY <1>c, <2>3, <3>3, StepsByPlace
         DEF BuildManifest, SubmitJob, SubmitFails, ClearStreak, Escalate, DisableLeased,
             GoTo, Leased
    <3>4. CASE pc \notin Leased
      BY <3>1, <3>4 DEF LeaseInv
    <3> QED BY <3>2, <3>3, <3>4
  <2> QED BY <2>1, <2>2, <2>3
<1>3. run'.cp.lease = NoLease
  <2>1. NoRun.cp.lease = NoLease
    BY DEF NoRun, EmptyCheckpoint
  <2>2. CASE Remembered(run') = Remembered(run)
    BY <2>2 DEF Remembered, LeaseInv
  <2>3. CASE EndRun
    BY <2>1, <2>3 DEF EndRun
  <2>4. CASE \E records \in {state.records, NoRecords} : Begin(records)
    <3>1. run'.cp = state.cp /\ pc = "idle"
      BY <2>4 DEF Begin, NoRun
    <3> QED BY <3>1 DEF LeaseInv, Leased
  <2>5. CASE run' = [run EXCEPT !.failures = Plan.failures, !.cp = RolledBack]
    <3>1. run'.cp = RolledBack /\ run.cp \in Checkpoints
      BY <1>0, <2>5 DEF RunMemory
    <3>2. RolledBack.lease = run.cp.lease
      BY <3>1 DEF RolledBack, RollBackTo, Checkpoints
    <3> QED BY <3>1, <3>2 DEF LeaseInv
  <2>6. CASE \E rows : TakeUp(rows)
    BY <1>0, <2>3, <2>6 DEF TakeUp, RunMemory, LeaseInv
  <2>7. CASE SubmitJob
    BY <1>0, <2>7 DEF SubmitJob, RunMemory, LeaseInv
  <2> QED BY <2>2, <2>3, <2>4, <2>5, <2>6, <2>7, RunSteps
<1> QED BY <1>1, <1>2, <1>3 DEF LeaseInv

\* LeaseOnlyDuringRun: a run that is not killed, and whose writes nobody else
\* gets in between, takes back its lease whatever way it ends: with a job, with no
\* row to submit, with a manifest or a submission that failed (_lease_scope).
THEOREM LeaseGivenBack ==
  ASSUME RunsRelease
  PROVE  Spec => []LeaseOnlyDuringRun
<1> DEFINE Inv == TypeInv /\ PutInv /\ LeaseInv /\ Unrefused
<1>1. Init => Inv
  BY TypeInit, PutInit
     DEF Init, LeaseInv, Leased, Unrefused, EmptyState, EmptyCheckpoint, NoRun
<1>2. Inv /\ [Next]_vars => Inv'
  BY TypeStep, PutStep, LeaseStep, UnrefusedStep, RunsReleaseFaults
     DEF Unrefused, DisableLeased
<1>3. Inv => LeaseOnlyDuringRun
  BY DEF LeaseInv, Leased, LeaseOnlyDuringRun
<1> QED BY <1>1, <1>2, <1>3, PTL DEF Spec

-----------------------------------------------------------------------------
\* A created job is the last one, and holds what the run took up.
LEMMA JobCreated ==
  ASSUME TypeInv, CreateJob
  PROVE  /\ Len(jobs) + 1 \notin Created
         /\ Created' = Created \cup {Len(jobs) + 1}
         /\ jobs'[Len(jobs) + 1] = [status |-> "Active", ops |-> run.batch,
                                   low |-> run.cp.watermark]
         /\ \A j \in Created : jobs'[j] = jobs[j]
<1> DEFINE job == [status |-> "Active", ops |-> run.batch, low |-> run.cp.watermark]
<1>1. jobs' = Append(jobs, job) /\ job \in Job
  BY DEF CreateJob, Job, JobStatus, TypeInv, Typed, RunMemory, Checkpoints
<1> HIDE DEF job
<1>2. jobs \in Seq(Job) /\ Created = 1..Len(jobs) /\ Len(jobs) \in Nat
  BY LenProperties DEF TypeInv, Typed, Created
<1>3. /\ Len(jobs') = Len(jobs) + 1 /\ jobs' \in Seq(Job)
      /\ jobs'[Len(jobs) + 1] = job
      /\ \A j \in 1..Len(jobs) : jobs'[j] = jobs[j]
  BY <1>1, <1>2, AppendProperties
<1>4. Created' = 1..(Len(jobs) + 1)
  BY <1>3, LenProperties DEF Created
<1> QED BY <1>2, <1>3, <1>4 DEF job

\* A job that ends changes nothing but its status.
LEMMA JobEnded ==
  ASSUME TypeInv, NEW i \in Created, NEW status, JobEnds(i, status)
  PROVE  /\ Created' = Created
         /\ ~ Finished(i) /\ jobs'[i] = [jobs[i] EXCEPT !.status = status]
         /\ jobs'[i].status = status /\ jobs'[i].ops = jobs[i].ops
         /\ jobs'[i].low = jobs[i].low
         /\ \A j \in Created \ {i} : jobs'[j] = jobs[j]
<1>1. jobs \in Seq(Job)
  BY DEF TypeInv, Typed
<1>2. jobs[i] \in Job
  BY <1>1, ElementOfSeq, LenProperties DEF Created
<1> QED BY <1>2 DEF JobEnds, Finished, Created, Job

\* Jobs change in three ways: one is created, one ends, or none of that.
LEMMA JobSteps ==
  ASSUME TypeInv, [Next]_vars
  PROVE  \/ jobs' = jobs
         \/ (SubmitJob \/ SubmitFails) /\ CreateJob
         \/ \E j \in Created, status \in {"Complete", "Failed"} : JobEnds(j, status)
<1>1. CASE RunStep
  <2>1. CASE StartRun \/ StartRunBlind \/ DescribeOutstanding \/ DescribeAgedOut
             \/ (\E readable \in BOOLEAN : DescribeTerminal(readable))
             \/ MergeReport \/ ClearAlert \/ DiagnoseReport \/ TripBreaker \/ Recover
    BY <2>1 DEF StartRun, StartRunBlind, Begin, DescribeOutstanding, DescribeAgedOut,
         DescribeTerminal, MergeReport, ClearAlert, DiagnoseReport, TripBreaker, Recover
  <2>2. CASE DisableBucket \/ ReadJournal \/ BoundRead \/ ReadFails
             \/ AcquireLease \/ BuildManifest \/ ClearStreak \/ Escalate \/ DisableLeased
             \/ ReleaseLease \/ PersistSubmission \/ CommitScored \/ Crash
    BY <2>2 DEF DisableBucket, ReadJournal, BoundRead, CountTail, FindBoundary, FindFloor,
                TakeUp, ReadFails,
         AcquireLease, BuildManifest, ClearStreak, Escalate, DisableLeased,
         ReleaseLease, PersistSubmission, CommitScored, Crash
  <2>3. CASE SubmitJob \/ SubmitFails
    BY <2>3 DEF SubmitJob, SubmitFails
  <2> QED BY <1>1, <2>1, <2>2, <2>3 DEF RunStep
<1>2. CASE ~ RunStep
  BY <1>2 DEF Next, TagObject, JobStep, CheckerStep, CheckerAlerts, CheckerReads,
              Reenable, vars
<1> QED BY <1>1, <1>2

\* A job keeps its operations and its start for good, and its outcome once it
\* has one.
LEMMA JobsKept ==
  ASSUME TypeInv, [Next]_vars, NEW j \in Created
  PROVE  /\ j \in Created'
         /\ jobs'[j].ops = jobs[j].ops /\ jobs'[j].low = jobs[j].low
         /\ Finished(j) => jobs'[j].status = jobs[j].status
<1>1. CASE jobs' = jobs
  BY <1>1 DEF Created
<1>2. CASE CreateJob
  BY <1>2, JobCreated
<1>3. CASE \E i \in Created, status \in {"Complete", "Failed"} : JobEnds(i, status)
  <2>1. PICK i \in Created, status \in {"Complete", "Failed"} : JobEnds(i, status)
    BY <1>3
  <2> QED BY <2>1, JobEnded
<1> QED BY <1>1, <1>2, <1>3, JobSteps

LEMMA SubmittedStays ==
  ASSUME TypeInv, [Next]_vars, NEW o, Submitted(o)
  PROVE  Submitted(o)'
BY JobsKept DEF Submitted

\* The rows of the journal are operations, and none goes.
LEMMA JournalSteps ==
  ASSUME TypeInv, [Next]_vars
  PROVE  \/ journal' = journal
         \/ \E o \in Op : TagObject(o)
<1>1. CASE RunStep
  <2>1. CASE StartRun \/ StartRunBlind \/ DescribeOutstanding \/ DescribeAgedOut
             \/ (\E readable \in BOOLEAN : DescribeTerminal(readable))
             \/ MergeReport \/ ClearAlert \/ DiagnoseReport \/ TripBreaker \/ Recover
    BY <2>1 DEF StartRun, StartRunBlind, Begin, DescribeOutstanding, DescribeAgedOut,
         DescribeTerminal, MergeReport, ClearAlert, DiagnoseReport, TripBreaker, Recover
  <2>2. CASE DisableBucket \/ ReadJournal \/ BoundRead \/ ReadFails
             \/ AcquireLease \/ BuildManifest \/ ClearStreak \/ Escalate \/ DisableLeased
             \/ ReleaseLease \/ PersistSubmission \/ CommitScored \/ Crash
             \/ SubmitJob \/ SubmitFails
    BY <2>2 DEF DisableBucket, ReadJournal, BoundRead, CountTail, FindBoundary, FindFloor,
                TakeUp, ReadFails,
         AcquireLease, BuildManifest, ClearStreak, Escalate, DisableLeased,
         ReleaseLease, PersistSubmission, CommitScored, Crash, SubmitJob, SubmitFails
  <2> QED BY <1>1, <2>1, <2>2 DEF RunStep
<1>2. CASE ~ RunStep
  BY <1>2 DEF Next, JobStep, JobEnds, CheckerStep, CheckerAlerts, CheckerReads,
              Reenable, vars
<1> QED BY <1>1, <1>2

-----------------------------------------------------------------------------
\* A rollback goes to the start of some failed job that has one, the lowest.
LEMMA RollbackIsALow ==
  ASSUME NEW records, NEW outcomes, DOMAIN outcomes \subseteq DOMAIN records,
         \A j \in DOMAIN records : records[j].low \in Nat
  PROVE  LET target == PlanRecovery(records, outcomes).rollback
         IN  /\ target # NoRollback =>
                    \E j \in FailedIn(outcomes) : /\ records[j].low = target
                                                 /\ target # 0
             /\ \A j \in FailedIn(outcomes) : records[j].low # 0 =>
                    target # NoRollback /\ target <= records[j].low
<1> DEFINE lows == {records[j].low : j \in FailedIn(outcomes)} \ {0}
<1>1. lows \in SUBSET Nat
  BY DEF FailedIn
<1>2. PlanRecovery(records, outcomes).rollback
        = IF lows = {} THEN NoRollback ELSE CHOOSE w \in lows : \A x \in lows : w <= x
  BY DEF PlanRecovery, RollbackTarget
<1>3. CASE lows = {}
  BY <1>2, <1>3
<1>4. CASE lows # {}
  <2>1. \E w \in lows : \A x \in lows : w <= x
    <3> HIDE DEF lows
    <3> QED BY <1>1, <1>4, LeastExists
  <2>2. PICK w \in lows : /\ PlanRecovery(records, outcomes).rollback = w
                         /\ \A x \in lows : w <= x
    BY <1>2, <1>4, <2>1
  <2>3. w # NoRollback
    BY <1>1 DEF NoRollback
  <2> QED BY <2>2, <2>3
<1> QED BY <1>3, <1>4

-----------------------------------------------------------------------------
\* The watermarks that are kept anywhere, and the operations behind them.
Lows(records, w) == \A j \in DOMAIN records : records[j].low <= w

\* A row at least Lookback behind the watermark is in a job, or will be: the
\* run has it, and the watermark comes from a row that is in the journal.
Taking == pc \in {"acquire", "build", "submit", "clear", "release"}

SkipInv ==
    /\ state.cp.watermark # Epoch => \E o \in journal : Time[o] = state.cp.watermark
    /\ Lows(state.records, state.cp.watermark)
    /\ Lows(run.records, state.cp.watermark)
    /\ run.cp.watermark <= state.cp.watermark
    /\ \A o \in state.cp.window \cup run.cp.window : Submitted(o)
    /\ run.submitted # NoJob => \A o \in run.batch : Submitted(o)
    /\ Taking => /\ \E o \in journal : Time[o] = run.candidate
                 /\ \A o \in run.batch : Time[o] <= run.candidate
                 /\ \A o \in journal \cap Matching :
                        \/ o \in run.batch \/ Submitted(o)
                        \/ Time[o] > WindowStart(run.candidate)
    /\ NothingSkipped

\* A read takes up every matching row behind its candidate that is in no job.
LEMMA TakeUpTakesAll ==
  ASSUME TypeInv, QueryInv, TailFits, SkipInv, run.cp.lease = NoLease, pc = "read",
         TakeUp(RowsRead(journal)), ~ EndRun
  PROVE  /\ \E o \in journal : Time[o] = run'.candidate
         /\ \A o \in run'.batch : Time[o] <= run'.candidate
         /\ \A o \in journal \cap Matching :
                \/ o \in run'.batch \/ Submitted(o)
                \/ Time[o] > WindowStart(run'.candidate)
<1> DEFINE rows     == RowsRead(journal)
           eligible == {o \in rows : IsEligible(o, run.cp)}
<1>0. /\ run \in RunMemory /\ run.cp \in Checkpoints /\ run.cp.watermark \in Nat
      /\ state.cp.watermark \in Nat /\ run.cp.watermark <= state.cp.watermark
      /\ journal \in SUBSET Op
  BY DEF TypeInv, Typed, RunMemory, StateObject, Checkpoints, SkipInv
<1>1. rows \subseteq journal
  BY DEF RowsRead, RowsUpTo
<1>2. /\ eligible # {} /\ run'.candidate = HighWater(eligible)
      /\ run'.batch = eligible \cap Matching
  BY <1>0 DEF TakeUp, RunMemory
<1>3. eligible \in SUBSET Op /\ eligible \subseteq rows
  BY <1>0, <1>1
<1>4. /\ HighWater(eligible) \in {Time[o] : o \in eligible}
      /\ \A o \in eligible : Time[o] <= HighWater(eligible)
  <2> HIDE DEF eligible
  <2> QED BY <1>2, <1>3, HighWaterIsATime
<1>5. PICK p \in eligible : Time[p] = HighWater(eligible)
  BY <1>4
<1>6. ASSUME NEW o \in journal \cap Matching, ~ Submitted(o),
             ~ (Time[o] > WindowStart(run'.candidate))
      PROVE  o \in eligible
  <2>1. Time[o] \in Nat /\ Time[p] \in Nat /\ p \in rows
    BY <1>0, <1>1, <1>3, CheckpointAssumption
  <2>2. Time[o] > WindowStart(run.cp.watermark)
    BY <1>0, <1>6, <2>1, WindowStartMonotone DEF SkipInv, NothingSkipped
  <2>3. Time[o] <= Time[p]
    BY <1>2, <1>5, <1>6, <2>1, WindowStartMonotone
  <2>4. o \in rows
    <3>1. run.query.since = WindowStart(run.cp.watermark)
      BY ReadStartsAtWindow
    <3>2. run.query.until = NoBound \/ run.query.until \in Nat
      BY <1>0 DEF RunMemory, Queries
    <3> QED BY <2>1, <2>2, <2>3, <3>1, <3>2 DEF RowsRead, RowsUpTo
  <2>5. o \notin run.cp.window
    BY <1>6 DEF SkipInv
  <2>6. IsEligible(o, run.cp)
    BY <2>2, <2>5 DEF IsEligible, HeldByLease, LateArrival
  <2> QED BY <2>4, <2>6
<1> QED BY <1>1, <1>2, <1>4, <1>5, <1>6

\* Who changes the records, and how.
LEMMA RecordsStep ==
  ASSUME TypeInv, [Next]_vars
  PROVE  \/ state'.records = state.records
         \/ DiagnoseReport /\ state' = MarkedDiagnosed(run.job)
         \/ CommitScored /\ run.scoring # {} /\ state' = MarkedScored(First(run.scoring))
         \/ (DisableBucket \/ DisableLeased) /\ state' = Disabled
         \/ PersistSubmission /\ state' = Recorded
<1> USE DEF Attempt, Put, PutRaises, Rejected, Unsent, Unheard
<1>0. state \in StateObject /\ run \in RunMemory
  BY DEF TypeInv, Typed
<1>1. CASE ~ RunStep
  BY <1>1, OutsideSteps
<1>2. CASE DiagnoseReport \/ CommitScored \/ DisableBucket \/ DisableLeased
           \/ PersistSubmission
  BY <1>2 DEF DiagnoseReport, CommitScored, DisableBucket, DisableLeased,
              PersistSubmission
<1>3. CASE MergeReport \/ ClearAlert \/ ClearStreak \/ Escalate \/ AcquireLease
           \/ ReleaseLease
  <2>1. /\ [state EXCEPT !.processed = @ \cup {run.job}].records = state.records
        /\ [state EXCEPT !.alerted = @ \ {run.job}].records = state.records
        /\ [state EXCEPT !.streak = 0].records = state.records
        /\ [state EXCEPT !.streak = @ + 1].records = state.records
        /\ [state EXCEPT !.cp.lease = run.candidate].records = state.records
        /\ Released.records = state.records
    BY <1>0 DEF StateObject, Released
  <2> QED BY <1>3, <2>1 DEF MergeReport, ClearAlert, ClearStreak, Escalate,
               AcquireLease, ReleaseLease
<1>4. CASE StartRun \/ StartRunBlind \/ TripBreaker \/ Recover \/ ReadJournal
           \/ BoundRead \/ ReadFails \/ BuildManifest \/ SubmitJob
           \/ SubmitFails \/ Crash \/ DescribeOutstanding \/ DescribeAgedOut
           \/ \E readable \in BOOLEAN : DescribeTerminal(readable)
  BY <1>4
     DEF StartRun, StartRunBlind, Begin, TripBreaker, Recover, ReadJournal,
         BoundRead, CountTail, FindBoundary, FindFloor, TakeUp, ReadFails, BuildManifest,
         SubmitJob,
         SubmitFails, Crash, DescribeOutstanding, DescribeAgedOut, DescribeTerminal
<1> QED BY <1>1, <1>2, <1>3, <1>4 DEF RunStep

\* The record of the run's own job.
OwnRecord == [failures |-> run.failures, at |-> run.submitted,
              low |-> run.cp.watermark, diagnosed |-> FALSE, scored |-> FALSE]

\* A stored record stays as it is but for its two marks, and the only new one is
\* that of the run's own job.
LEMMA RecordStep ==
  ASSUME TypeInv, [Next]_vars, NEW j \in DOMAIN state'.records
  PROVE  \/ /\ j \in DOMAIN state.records
            /\ state'.records[j].failures = state.records[j].failures
            /\ state'.records[j].at = state.records[j].at
            /\ state'.records[j].low = state.records[j].low
            /\ \/ state'.records[j].scored = state.records[j].scored
               \/ /\ CommitScored /\ run.scoring # {} /\ j = First(run.scoring)
                  /\ state'.records[j].scored
         \/ /\ PersistSubmission
            /\ j = run.submitted /\ state'.records[j] = OwnRecord
<1>0. /\ state \in StateObject
      /\ state.records \in [DOMAIN state.records -> SubmissionRecord]
  BY RecordMapsAre DEF TypeInv, Typed, StateObject
<1>1. CASE state'.records = state.records
  BY <1>1
<1>2. ASSUME NEW i, i \in DOMAIN state.records
      PROVE  /\ MarkedDiagnosed(i).records = [state.records EXCEPT ![i].diagnosed = TRUE]
             /\ MarkedScored(i).records = [state.records EXCEPT ![i].scored = TRUE]
  BY <1>0, <1>2 DEF MarkedDiagnosed, MarkedScored, StateObject
<1>3. CASE DiagnoseReport /\ state' = MarkedDiagnosed(run.job)
  <2>1. CASE run.job \in DOMAIN state.records
    <3>1. state'.records = [state.records EXCEPT ![run.job].diagnosed = TRUE]
      BY <1>2, <1>3, <2>1
    <3> QED BY <1>0, <2>1, <3>1 DEF SubmissionRecord
  <2>2. CASE run.job \notin DOMAIN state.records
    BY <1>3, <2>2 DEF MarkedDiagnosed
  <2> QED BY <2>1, <2>2
<1>4. CASE CommitScored /\ run.scoring # {} /\ state' = MarkedScored(First(run.scoring))
  <2> DEFINE i == First(run.scoring)
  <2>1. CASE i \in DOMAIN state.records
    <3>1. state'.records = [state.records EXCEPT ![i].scored = TRUE]
      BY <1>2, <1>4, <2>1
    <3> HIDE DEF i
    <3>2. /\ DOMAIN state'.records = DOMAIN state.records
          /\ state'.records[i] = [state.records[i] EXCEPT !.scored = TRUE]
          /\ j # i => state'.records[j] = state.records[j]
      BY <2>1, <3>1
    <3>3. state.records[i] \in SubmissionRecord
      BY <1>0, <2>1
    <3>4. CASE j = i
      BY <1>4, <2>1, <3>2, <3>3, <3>4 DEF i, SubmissionRecord
    <3>5. CASE j # i
      BY <3>2, <3>5
    <3> QED BY <3>4, <3>5
  <2>2. CASE i \notin DOMAIN state.records
    BY <1>4, <2>2 DEF MarkedScored
  <2> QED BY <2>1, <2>2
<1>5. CASE state' = Disabled
  BY <1>0, <1>5, NoRunTyped DEF Disabled, StateObject
<1>6. CASE PersistSubmission /\ state' = Recorded
  <2> DEFINE next == RecordSubmission(state.records, run.submitted, OwnRecord,
                                      run.terminal, state.processed)
  <2>1. state'.records = next
    BY <1>0, <1>6 DEF Recorded, StateObject, OwnRecord
  <2>2. /\ DOMAIN next \subseteq DOMAIN state.records \cup {run.submitted}
        /\ \A i \in DOMAIN next :
               next[i] = IF i = run.submitted THEN OwnRecord ELSE state.records[i]
    BY RecordSubmissionKeeps
  <2> HIDE DEF next
  <2> QED BY <1>6, <2>1, <2>2
<1> QED BY <1>1, <1>3, <1>4, <1>5, <1>6, RecordsStep

\* No record, stored or remembered, starts above the stored watermark.
LEMMA LowsStep ==
  ASSUME TypeInv, SkipInv, [Next]_vars
  PROVE  /\ Lows(state'.records, state'.cp.watermark)
         /\ Lows(run'.records, state'.cp.watermark)
         /\ run'.cp.watermark <= state'.cp.watermark
<1> DEFINE W == state.cp.watermark
<1>0. /\ state \in StateObject /\ run \in RunMemory /\ W \in Nat
      /\ run.cp \in Checkpoints /\ run.cp.watermark \in Nat
      /\ Lows(state.records, W) /\ Lows(run.records, W) /\ run.cp.watermark <= W
  BY DEF TypeInv, Typed, StateObject, RunMemory, Checkpoints, SkipInv
<1>1. /\ \A j \in DOMAIN state.records : state.records[j].low \in Nat
      /\ \A j \in DOMAIN run.records : run.records[j].low \in Nat
  BY <1>0, RecordMapsAre DEF StateObject, RunMemory, SubmissionRecord
<1>2. state' \in StateObject /\ run' \in RunMemory /\ state'.cp.watermark \in Nat
      /\ run'.cp.watermark \in Nat
  BY TypeStep DEF TypeInv, Typed, StateObject, RunMemory, Checkpoints
<1>3. /\ \A j \in DOMAIN state'.records : state'.records[j].low \in Nat
      /\ \A j \in DOMAIN run'.records : run'.records[j].low \in Nat
  BY <1>2, RecordMapsAre DEF StateObject, RunMemory, SubmissionRecord
<1>4. state'.cp.watermark >= W
  BY WatermarkStep
<1> HIDE DEF W
<1>5. \A j \in DOMAIN state'.records : state'.records[j].low <= W
  BY <1>0, RecordStep DEF Lows, OwnRecord
<1>6. /\ \A j \in DOMAIN run'.records : run'.records[j].low <= W
      /\ run'.cp.watermark <= W
  <2>1. CASE Remembered(run') = Remembered(run)
    BY <1>0, <2>1 DEF Remembered, Lows
  <2>2. CASE EndRun
    BY <1>0, <2>2, NoRunTyped DEF EndRun, NoRun, EmptyCheckpoint, Epoch
  <2>3. CASE \E records \in {state.records, NoRecords} : Begin(records)
    <3>1. PICK records \in {state.records, NoRecords} :
            run'.records = records /\ run'.cp = state.cp
      BY <2>3 DEF Begin, NoRun
    <3> QED BY <1>0, <3>1, NoRunTyped DEF Lows, W
  <2>4. CASE run' = [run EXCEPT !.failures = Plan.failures, !.cp = RolledBack]
    <3>1. run'.records = run.records /\ run'.cp = RolledBack
      BY <1>0, <2>4 DEF RunMemory
    <3>2. RolledBack.watermark <= W
      <4>1. CASE AnyFailed /\ Plan.rollback # NoRollback
        <5>1. DOMAIN Outcomes \subseteq DOMAIN run.records
          BY DEF Outcomes, TypeInv, MemoryCoherent
        <5>2. \E j \in FailedIn(Outcomes) : run.records[j].low = Plan.rollback
          BY <1>1, <4>1, <5>1, RollbackIsALow DEF Plan
        <5>3. Plan.rollback <= W
          BY <1>0, <5>1, <5>2 DEF FailedIn, Lows
        <5>4. RolledBack.watermark = Plan.rollback
          BY <1>0, <4>1 DEF RolledBack, RollBackTo, Checkpoints
        <5> QED BY <5>3, <5>4
      <4>2. CASE ~ (AnyFailed /\ Plan.rollback # NoRollback)
        BY <1>0, <4>2 DEF RolledBack
      <4> QED BY <4>1, <4>2
    <3> QED BY <1>0, <3>1, <3>2 DEF Lows
  <2>5. CASE \E rows : TakeUp(rows)
    <3>1. CASE EndRun
      BY <2>2, <3>1
    <3>2. CASE ~ EndRun
      BY <1>0, <2>5, <3>2 DEF TakeUp, RunMemory, Lows
    <3> QED BY <3>1, <3>2
  <2>6. CASE SubmitJob
    BY <1>0, <2>6 DEF SubmitJob, RunMemory, Lows
  <2> QED BY <2>1, <2>2, <2>3, <2>4, <2>5, <2>6, RunSteps
<1> QED BY <1>0, <1>2, <1>3, <1>4, <1>5, <1>6 DEF Lows

\* A release sets the watermark of the stored checkpoint to its candidate, if it
\* moves it at all, and adds the batch of a submitted job to the window.
LEMMA ReleasedCheckpoint ==
  ASSUME TypeInv, \A o \in run.batch : Time[o] <= run.candidate
  PROVE  /\ Released.cp.watermark \in {state.cp.watermark, run.candidate}
         /\ run.submitted = NoJob => Released.cp.watermark = state.cp.watermark
         /\ Released.cp.window \subseteq state.cp.window \cup
              (IF run.submitted = NoJob THEN {} ELSE run.batch)
<1> DEFINE refs == IF run.submitted = NoJob THEN {} ELSE run.batch
<1>0. /\ state \in StateObject /\ state.cp \in Checkpoints
      /\ state.cp.watermark \in Nat /\ run.candidate \in Nat /\ refs \in SUBSET Op
  BY DEF TypeInv, Typed, StateObject, RunMemory, Checkpoints
<1>1. Released.cp = AdvanceCheckpoint(state.cp, refs, run.candidate)
  BY <1>0 DEF Released, StateObject
<1>2. CASE refs = {}
  BY <1>0, <1>1, <1>2 DEF AdvanceCheckpoint, Checkpoints
<1>3. CASE refs # {}
  <2>1. PICK o \in refs : Time[o] = HighWater(refs)
    <3> HIDE DEF refs
    <3> QED BY <1>0, <1>3, HighWaterIsATime
  <2>2. HighWater(refs) \in Nat /\ HighWater(refs) <= run.candidate
    BY <1>0, <2>1, CheckpointAssumption
  <2>3. Later(HighWater(refs), run.candidate) = run.candidate
    BY <1>0, <2>2 DEF Later
  <2>4. /\ Released.cp.watermark = Later(state.cp.watermark, run.candidate)
        /\ Released.cp.window \subseteq state.cp.window \cup refs
    BY <1>1, <1>3, <2>3 DEF AdvanceCheckpoint, PruneWindow
  <2> QED BY <1>3, <2>4 DEF Later
<1> QED BY <1>2, <1>3

\* A row that turns up late is still inside the lookback of every earlier one.
LEMMA LateRowInWindow ==
  ASSUME TypeInv, JournalDelay <= Lookback,
         NEW o \in Op, TagObject(o), NEW p \in journal
  PROVE  Time[o] > WindowStart(Time[p])
<1>1. Time[o] \in Nat \ {0} /\ Time[p] \in Nat /\ Time[p] < Time[o] + JournalDelay
  BY CheckpointAssumption DEF TagObject, TypeInv, Typed
<1> QED BY <1>1, CheckpointAssumption, BucketRunAssumption DEF WindowStart, Epoch

\* What a window says was taken is in a job.
LEMMA WindowsStep ==
  ASSUME TypeInv, PutInv, SkipInv, [Next]_vars
  PROVE  /\ \A o \in state'.cp.window \cup run'.cp.window : Submitted(o)
         /\ run'.submitted # NoJob => \A o \in run'.batch : Submitted(o)'
<1>0. /\ state \in StateObject /\ state.cp \in Checkpoints
      /\ run \in RunMemory /\ run.cp \in Checkpoints
      /\ \A o \in state.cp.window \cup run.cp.window : Submitted(o)
  BY DEF TypeInv, Typed, StateObject, RunMemory, SkipInv
<1>1. \A o \in state'.cp.window : Submitted(o)
  <2>1. CASE state'.cp = state.cp
    BY <1>0, <2>1
  <2>2. CASE state' = [state EXCEPT !.cp.lease = run.candidate]
    BY <1>0, <2>2 DEF StateObject, Checkpoints
  <2>3. CASE ReleaseLease /\ state' = Released
    <3>1. \A o \in run.batch : Time[o] <= run.candidate
      BY <2>3 DEF ReleaseLease, SkipInv, Taking
    <3> QED BY <1>0, <2>3, <3>1, ReleasedCheckpoint DEF SkipInv
  <2> QED BY <2>1, <2>2, <2>3, CheckpointStep
<1>2. /\ \A o \in run'.cp.window : Submitted(o)
      /\ run'.submitted # NoJob => \A o \in run'.batch : Submitted(o)'
  <2>1. CASE Remembered(run') = Remembered(run)
    <3>1. run'.cp = run.cp /\ run'.submitted = run.submitted /\ run'.batch = run.batch
      BY <2>1 DEF Remembered
    <3> QED BY <1>0, <3>1, SubmittedStays DEF SkipInv
  <2>2. CASE EndRun
    BY <2>2 DEF EndRun, NoRun, EmptyCheckpoint
  <2>3. CASE \E records \in {state.records, NoRecords} : Begin(records)
    <3>1. run'.cp = state.cp /\ run'.submitted = NoJob
      BY <2>3 DEF Begin, NoRun
    <3> QED BY <1>0, <3>1
  <2>4. CASE Recover /\ run' = [run EXCEPT !.failures = Plan.failures, !.cp = RolledBack]
    <3>1. run'.cp = RolledBack /\ run'.submitted = run.submitted /\ run'.batch = run.batch
      BY <1>0, <2>4 DEF RunMemory
    <3>2. RolledBack.window \subseteq run.cp.window
      BY <1>0 DEF RolledBack, RollBackTo, Checkpoints
    <3>3. run.submitted # NoJob => \A o \in run.batch : Submitted(o)'
      BY SubmittedStays DEF SkipInv
    <3> QED BY <1>0, <3>1, <3>2, <3>3
  <2>5. CASE pc = "read" /\ (\E rows : TakeUp(rows)) /\ UNCHANGED jobs
    <3>1. CASE EndRun
      BY <2>2, <3>1
    <3>2. CASE ~ EndRun
      <4>1. PICK rows : run' = [run EXCEPT
                !.candidate = HighWater({o \in rows : IsEligible(o, run.cp)}),
                !.batch = {o \in rows : IsEligible(o, run.cp)} \cap Matching,
                !.query = NoQuery]
        BY <2>5, <3>2 DEF TakeUp
      <4>2. run'.cp = run.cp /\ run'.submitted = run.submitted
        BY <1>0, <4>1 DEF RunMemory
      <4> QED BY <1>0, <2>5, <4>2 DEF PutInv
    <3> QED BY <3>1, <3>2
  <2>6. CASE SubmitJob
    <3>1. /\ run'.cp = run.cp /\ run'.batch = run.batch /\ CreateJob
      BY <1>0, <2>6 DEF SubmitJob, RunMemory
    <3>2. \A o \in run.batch : Submitted(o)'
      BY <3>1, JobCreated DEF Submitted
    <3> QED BY <1>0, <3>1, <3>2
  <2> QED BY <2>1, <2>2, <2>3, <2>4, <2>5, <2>6, RunSteps
<1> QED BY <1>1, <1>2

\* What a run is about to take stays so while it takes it.
LEMMA TakingStep ==
  ASSUME TypeInv, QueryInv, JournalDelay <= Lookback, TailFits, LeaseInv, Unrefused,
         SkipInv, [Next]_vars, Taking'
  PROVE  /\ \E o \in journal' : Time[o] = run'.candidate
         /\ \A o \in run'.batch : Time[o] <= run'.candidate
         /\ \A o \in journal' \cap Matching :
                \/ o \in run'.batch \/ Submitted(o)'
                \/ Time[o] > WindowStart(run'.candidate)
<1>0. run \in RunMemory
  BY DEF TypeInv, Typed
<1>1. CASE /\ pc = "read" /\ UNCHANGED <<journal, jobs>>
           /\ TakeUp(RowsRead(journal))
  <2>1. ~ EndRun
    BY DEF EndRun, GoTo, Taking
  <2>2. /\ \E o \in journal : Time[o] = run'.candidate
        /\ \A o \in run'.batch : Time[o] <= run'.candidate
        /\ \A o \in journal \cap Matching :
               \/ o \in run'.batch \/ Submitted(o)
               \/ Time[o] > WindowStart(run'.candidate)
    BY <1>1, <2>1, TakeUpTakesAll DEF LeaseInv
  <2> QED BY <1>1, <2>2, SubmittedStays
<1>2. CASE Taking /\ run'.candidate = run.candidate /\ run'.batch = run.batch
  <2>1. CASE journal' = journal
    BY <1>2, <2>1, SubmittedStays DEF SkipInv
  <2>2. ASSUME NEW o \in Op, TagObject(o)
        PROVE  journal' = journal \cup {o} /\ Time[o] > WindowStart(run.candidate)
    <3>1. PICK p \in journal : Time[p] = run.candidate
      BY <1>2 DEF SkipInv
    <3> QED BY <2>2, <3>1, LateRowInWindow DEF TagObject
  <2>3. CASE \E o \in Op : TagObject(o)
    BY <1>2, <2>2, <2>3, SubmittedStays DEF SkipInv
  <2> QED BY <2>1, <2>3, JournalSteps
<1>3. \/ /\ pc = "read" /\ UNCHANGED <<journal, jobs>>
         /\ TakeUp(RowsRead(journal))
      \/ Taking /\ run'.candidate = run.candidate /\ run'.batch = run.batch
  <2>1. CASE Remembered(run') = Remembered(run)
    <3>1. CASE ~ RunStep
      BY <2>1, <3>1, OutsideSteps DEF Remembered, Taking
    <3>2. CASE RunStep /\ ~ Taking
      <4>1. ~ EndRun
        BY DEF EndRun, GoTo, Taking
      <4>2. ~ StartRun /\ ~ StartRunBlind /\ ~ DescribeOutstanding /\ ~ DescribeAgedOut
            /\ ~ MergeReport /\ ~ ClearAlert /\ ~ DiagnoseReport
            /\ \A readable \in BOOLEAN : ~ DescribeTerminal(readable)
        BY <3>2 DEF StartRun, StartRunBlind, Begin, DescribeOutstanding, DescribeAgedOut,
             DescribeTerminal, MergeReport, ClearAlert, DiagnoseReport, GoTo, Taking
      <4>3. ~ TripBreaker /\ ~ Recover /\ ~ DisableBucket /\ ~ ReadFails /\ ~ Crash
            /\ ~ PersistSubmission /\ ~ CommitScored
        BY <3>2, <4>1
           DEF TripBreaker, Recover, DisableBucket, ReadFails, Crash, PersistSubmission,
               CommitScored, GoTo, Taking
      <4>4. ~ Escalate /\ ~ DisableLeased
        BY DEF Escalate, DisableLeased, Unrefused
      <4>5. pc \notin {"acquire", "build", "submit", "clear", "release"}
        BY <3>2 DEF Taking
      <4>6. ~ BoundRead
        BY BoundReadIs DEF TypeInv, Taking
      <4>7. ReadJournal
        BY <3>2, <4>2, <4>3, <4>4, <4>5, <4>6, StepsByPlace
      <4> QED BY <4>7 DEF ReadJournal
    <3> QED BY <2>1, <3>1, <3>2 DEF Remembered
  <2>2. ~ EndRun
    BY DEF EndRun, GoTo, Taking
  <2>3. \A records : ~ Begin(records)
    BY DEF Begin, GoTo, Taking
  <2>4. pc' # "count"
    BY DEF Taking
  <2>5. CASE SubmitJob
    BY <1>0, <2>5 DEF SubmitJob, RunMemory, Taking
  <2> QED BY <2>1, <2>2, <2>3, <2>4, <2>5, RunSteps
<1> QED BY <1>1, <1>2, <1>3

\* The stored watermark is the time of a row, and no row is skipped by it.
LEMMA SkipStep ==
  ASSUME TypeInv, QueryInv, JournalDelay <= Lookback, TailFits, PutInv, LeaseInv,
         Unrefused, SkipInv, [Next]_vars
  PROVE  SkipInv'
<1>0. journal \subseteq journal' /\ journal \subseteq Op /\ state \in StateObject
      /\ state.cp.watermark \in Nat
  BY JournalSteps DEF TagObject, TypeInv, Typed, StateObject, Checkpoints
<1>1. \/ state'.cp.watermark = state.cp.watermark
      \/ Taking /\ state'.cp.watermark = run.candidate /\ run.submitted # NoJob
         /\ UNCHANGED journal
  <2>1. CASE state' = [state EXCEPT !.cp.lease = run.candidate]
    BY <1>0, <2>1 DEF StateObject, Checkpoints
  <2>2. CASE ReleaseLease /\ state' = Released
    <3>1. Taking
      BY <2>2 DEF ReleaseLease, Taking
    <3>2. \A o \in run.batch : Time[o] <= run.candidate
      BY <3>1 DEF SkipInv
    <3> QED BY <2>2, <3>1, <3>2, ReleasedCheckpoint DEF ReleaseLease
  <2> QED BY <2>1, <2>2, CheckpointStep
<1>2. state'.cp.watermark # Epoch => \E o \in journal' : Time[o] = state'.cp.watermark
  BY <1>0, <1>1 DEF SkipInv
<1>3. NothingSkipped'
  <2>1. CASE state'.cp.watermark = state.cp.watermark /\ journal' = journal
    BY <2>1, SubmittedStays DEF SkipInv, NothingSkipped
  <2>2. CASE Taking /\ state'.cp.watermark = run.candidate /\ run.submitted # NoJob
             /\ UNCHANGED journal
    BY <2>2, SubmittedStays DEF SkipInv, NothingSkipped
  <2>3. ASSUME NEW o \in Op, TagObject(o)
        PROVE  NothingSkipped'
    <3>1. journal' = journal \cup {o} /\ state'.cp.watermark = state.cp.watermark
      BY <2>3 DEF TagObject
    <3>2. Time[o] > WindowStart(state.cp.watermark)
      <4>1. CASE state.cp.watermark = Epoch
        BY <4>1, CheckpointAssumption DEF WindowStart, Epoch
      <4>2. CASE state.cp.watermark # Epoch
        <5>1. PICK p \in journal : Time[p] = state.cp.watermark
          BY <4>2 DEF SkipInv
        <5> QED BY <2>3, <5>1, LateRowInWindow
      <4> QED BY <4>1, <4>2
    <3> QED BY <3>1, <3>2, SubmittedStays DEF SkipInv, NothingSkipped
  <2> QED BY <1>1, <2>1, <2>2, <2>3, JournalSteps
<1>4. \A o \in state'.cp.window \cup run'.cp.window : Submitted(o)'
  BY WindowsStep, SubmittedStays
<1> QED BY <1>2, <1>3, <1>4, LowsStep, WindowsStep, TakingStep DEF SkipInv

\* NothingSkipped: where the lookback covers the journal's delay and every tail
\* its allowance, no run carries the watermark past a matching row that is in no
\* job by more than the lookback, however rows arrive, reads are cut short, jobs
\* fail and rollbacks overlap (advance_checkpoint, find_row_count_boundary).
THEOREM NoneSkipped ==
  ASSUME RunsRelease, JournalDelay <= Lookback, TailFits
  PROVE  Spec => []NothingSkipped
<1> DEFINE Inv == TypeInv /\ QueryInv /\ PutInv /\ LeaseInv /\ Unrefused /\ SkipInv
<1>1. Init => Inv
  <2>1. Init => LeaseInv /\ Unrefused
    BY DEF Init, LeaseInv, Leased, Unrefused, EmptyState, EmptyCheckpoint, NoRun
  <2>2. Init => SkipInv
    BY NoRunTyped DEF Init, SkipInv, EmptyState, EmptyCheckpoint, NoRun, Lows, Taking,
       NothingSkipped, Epoch
  <2> QED BY <2>1, <2>2, TypeInit, QueryInit, PutInit
<1>2. Inv /\ [Next]_vars => Inv'
  BY TypeStep, QueryStep, PutStep, LeaseStep, UnrefusedStep, SkipStep, RunsReleaseFaults
     DEF Unrefused, DisableLeased
<1>3. Inv => NothingSkipped
  BY DEF SkipInv
<1> QED BY <1>1, <1>2, <1>3, PTL DEF Spec

-----------------------------------------------------------------------------
\* Where a run goes from where it is; it may end anywhere.
LEMMA PlaceSteps ==
  ASSUME [Next]_vars
  PROVE  \/ pc' = pc
         \/ pc' = "idle" /\ run' = NoRun
         \/ pc = "idle" /\ pc' = "describe"
         \/ pc = "describe" /\ pc' \in {"merge", "disable", "count"}
         \/ pc = "merge" /\ pc' \in {"unalert", "diagnose"}
         \/ pc = "unalert" /\ pc' = "diagnose"
         \/ pc = "diagnose" /\ pc' \in {"describe", "recover"}
         \/ pc = "recover" /\ pc' \in {"disable", "count"}
         \/ pc = "disable" /\ pc' = "mark"
         \/ pc = "count" /\ pc' = "boundary"
         \/ pc = "boundary" /\ pc' \in {"floor", "read"}
         \/ pc = "floor" /\ pc' = "read"
         \/ pc = "read" /\ pc' = "acquire"
         \/ pc = "acquire" /\ pc' = "build"
         \/ pc = "build" /\ pc' \in {"submit", "release"}
         \/ pc = "submit" /\ pc' \in {"clear", "release", "escalate"}
         \/ pc = "clear" /\ pc' = "release"
         \/ pc = "escalate" /\ pc' \in {"disableLeased", "release"}
         \/ pc = "disableLeased" /\ pc' = "release"
         \/ pc = "release" /\ run.submitted # NoJob /\ pc' \in {"persist", "mark"}
         \/ pc = "persist" /\ pc' = "mark"
<1>1. CASE ~ RunStep
  BY <1>1 DEF Next, TagObject, JobStep, JobEnds, CheckerStep, CheckerAlerts,
              CheckerReads, Reenable, vars
<1>2. CASE StartRun \/ StartRunBlind \/ DescribeOutstanding \/ DescribeAgedOut
           \/ (\E readable \in BOOLEAN : DescribeTerminal(readable))
           \/ MergeReport \/ ClearAlert \/ DiagnoseReport
  BY <1>2 DEF StartRun, StartRunBlind, Begin, DescribeOutstanding, DescribeAgedOut,
       DescribeTerminal, MergeReport, ClearAlert, DiagnoseReport, GoTo
<1>3. CASE TripBreaker \/ Recover \/ DisableBucket \/ DisableLeased \/ Escalate
  BY <1>3 DEF TripBreaker, Recover, Recovering, DisableBucket, DisableLeased, Escalate,
       EndRun, GoTo
<1>4. CASE ReadJournal \/ BoundRead \/ ReadFails \/ AcquireLease
           \/ BuildManifest \/ SubmitJob \/ SubmitFails
  BY <1>4 DEF ReadJournal, BoundRead, CountTail, FindBoundary, FindFloor, ReadFails, TakeUp,
              AcquireLease,
       BuildManifest, SubmitJob, SubmitFails, EndRun, GoTo
<1>5. CASE ClearStreak \/ ReleaseLease \/ PersistSubmission \/ CommitScored \/ Crash
  BY <1>5 DEF ClearStreak, ReleaseLease, PersistSubmission, CommitScored, Crash,
       EndRun, GoTo
<1> QED BY <1>1, <1>2, <1>3, <1>4, <1>5 DEF RunStep

\* Where a run bounds its journal read and reads.
Bounding == {"count", "boundary", "floor", "read"}

\* Until it submits, a run finds the records as it read them but for the
\* diagnoses that it writes itself, and the checkpoint until it leases.
Reading == {"describe", "merge", "unalert", "diagnose", "recover"}
Early   == Reading \cup Bounding \cup {"acquire", "build", "submit"}

Agree(a, b) ==
    a.failures = b.failures /\ a.at = b.at /\ a.low = b.low /\ a.scored = b.scored

SeenInv ==
    /\ pc \in Reading => run.cp = state.cp
    /\ pc \in Early => \A j \in DOMAIN run.records :
            j \in DOMAIN state.records /\ Agree(run.records[j], state.records[j])
    /\ \A j \in run.scoring : j \in run.terminal /\ ~ run.records[j].scored
    /\ \A j \in DOMAIN state.records :
           state.records[j].low = jobs[j].low /\ state.records[j].at = j
    /\ run.submitted # NoJob => /\ pc \in {"clear", "release", "persist", "mark"}
                               /\ jobs[run.submitted].low = run.cp.watermark
                               /\ jobs[run.submitted].ops = run.batch

\* A step that leads into the early part of a run begins it, or leaves what the
\* run has read alone.
LEMMA EarlySteps ==
  ASSUME TypeInv, [Next]_vars, pc' \in Early
  PROVE  \/ \E records \in {state.records, NoRecords} : Begin(records)
         \/ /\ pc \in Early /\ run'.records = run.records
            /\ pc' \in Reading => pc \in Reading /\ run'.cp = run.cp
<1>0. run \in RunMemory
  BY DEF TypeInv, Typed
<1>1. CASE \E records : Begin(records)
  <2>1. pc = "idle" /\ ~ UNCHANGED pc
    BY <1>1 DEF Begin, GoTo
  <2>2. RunStep /\ ~ Crash
    BY <2>1, OutsideSteps DEF Crash
  <2> QED BY <2>1, <2>2, StepsByPlace DEF StartRun, StartRunBlind
<1>2. CASE ~ \E records : Begin(records)
  <2>1. ~ EndRun
    BY DEF EndRun, GoTo, Early, Reading, Bounding
  <2>2. pc = "idle" => pc' = "idle"
    <3>1. RunStep => pc # "idle"
      BY <1>2, StepsByPlace DEF StartRun, StartRunBlind
    <3> QED BY <3>1, OutsideSteps
  <2>3. pc \in Early /\ (pc' \in Reading => pc \in Reading)
    BY <2>2, PlaceSteps DEF Early, Reading, Bounding
  <2>4. run'.records = run.records
    <3>1. CASE Remembered(run') = Remembered(run)
      BY <3>1 DEF Remembered
    <3>2. CASE run' = [run EXCEPT !.failures = Plan.failures, !.cp = RolledBack]
      BY <1>0, <3>2 DEF RunMemory
    <3>3. CASE \E rows : TakeUp(rows)
      BY <1>0, <2>1, <3>3 DEF TakeUp, RunMemory
    <3>4. CASE SubmitJob
      BY <1>0, <3>4 DEF SubmitJob, RunMemory
    <3> QED BY <1>2, <2>1, <3>1, <3>2, <3>3, <3>4, RunSteps
  <2>5. pc' \in Reading => run'.cp = run.cp
    <3>1. CASE Remembered(run') = Remembered(run)
      BY <3>1 DEF Remembered
    <3>2. CASE SubmitJob
      BY <3>2 DEF SubmitJob, GoTo, Reading
    <3> QED BY <1>2, <2>1, <3>1, <3>2, RunSteps DEF Reading
  <2> QED BY <2>3, <2>4, <2>5
<1> QED BY <1>1, <1>2

\* Which jobs a run scores, and when it forgets that.
LEMMA ScoringSteps ==
  ASSUME TypeInv, [Next]_vars
  PROVE  \/ /\ run'.scoring = run.scoring /\ run'.terminal = run.terminal
            /\ run'.records = run.records
         \/ run'.scoring = {} /\ (EndRun \/ \E records : Begin(records))
         \/ /\ pc = "describe" /\ pc' = "merge" /\ run.todo # {}
            /\ LET j == First(run.todo)
               IN  /\ Finished(j) /\ run'.terminal = run.terminal \cup {j}
                   /\ run'.scoring = IF run.records[j].scored
                                       THEN run.scoring ELSE run.scoring \cup {j}
            /\ run'.records = run.records /\ UNCHANGED <<jobs, state>>
         \/ /\ CommitScored /\ run.scoring # {} /\ UNCHANGED pc
            /\ run'.scoring = run.scoring \ {First(run.scoring)}
            /\ run'.terminal = run.terminal /\ run'.records = run.records
            /\ run'.submitted = run.submitted
<1>0. run \in RunMemory
  BY DEF TypeInv, Typed
<1>1. CASE ~ RunStep
  BY <1>1, OutsideSteps
<1>2. CASE EndRun
  BY <1>2, NoRunTyped DEF EndRun
<1>3. CASE \E records : Begin(records)
  <2>1. PICK records : Begin(records)
    BY <1>3
  <2>2. run'.scoring = {}
    BY <2>1 DEF Begin, NoRun
  <2> QED BY <2>1, <2>2
<1>4. CASE DescribeOutstanding \/ DescribeAgedOut \/ MergeReport \/ ClearAlert
           \/ DiagnoseReport
  BY <1>0, <1>4 DEF DescribeOutstanding, DescribeAgedOut, MergeReport, ClearAlert,
       DiagnoseReport, RunMemory
<1>5. CASE \E readable \in BOOLEAN : DescribeTerminal(readable)
  BY <1>0, <1>5 DEF DescribeTerminal, GoTo, RunMemory
<1>6. CASE TripBreaker \/ DisableBucket \/ BuildManifest \/ SubmitFails \/ ClearStreak
           \/ Escalate \/ DisableLeased \/ PersistSubmission
  BY <1>6 DEF TripBreaker, DisableBucket, BuildManifest, SubmitFails, ClearStreak,
       Escalate, DisableLeased, PersistSubmission
<1>7. CASE Recover \/ ReadJournal \/ BoundRead \/ ReadFails \/ AcquireLease
           \/ SubmitJob \/ ReleaseLease \/ Crash
  BY <1>0, <1>2, <1>7 DEF Recover, ReadJournal, BoundRead, CountTail, FindBoundary, FindFloor,
                          ReadFails, TakeUp,
       AcquireLease, SubmitJob, ReleaseLease, Crash, RunMemory
<1>8. CASE CommitScored
  BY <1>0, <1>2, <1>8 DEF CommitScored, RunMemory
<1>9. StartRun \/ StartRunBlind => \E records : Begin(records)
  BY DEF StartRun, StartRunBlind
<1> QED BY <1>1, <1>2, <1>3, <1>4, <1>5, <1>6, <1>7, <1>8, <1>9 DEF RunStep

LEMMA SeenStep ==
  ASSUME TypeInv, JobsInv, SeenInv, [Next]_vars
  PROVE  SeenInv'
<1>0. /\ run \in RunMemory /\ state \in StateObject
      /\ state.records \in [DOMAIN state.records -> SubmissionRecord]
  BY RecordMapsAre DEF TypeInv, Typed, StateObject
<1>1. pc' \in Reading => run'.cp = state'.cp
  <2> SUFFICES ASSUME pc' \in Reading PROVE run'.cp = state'.cp
    OBVIOUS
  <2>1. CASE \E records \in {state.records, NoRecords} : Begin(records)
    BY <2>1 DEF Begin, NoRun
  <2>2. CASE pc \in Reading /\ run'.cp = run.cp
    <3>1. ~ AcquireLease /\ ~ ReleaseLease
      BY <2>2 DEF AcquireLease, ReleaseLease, Reading
    <3> QED BY <2>2, <3>1, CheckpointStep DEF SeenInv
  <2> QED BY <2>1, <2>2, EarlySteps DEF Early
<1>2. pc' \in Early => \A j \in DOMAIN run'.records :
         j \in DOMAIN state'.records /\ Agree(run'.records[j], state'.records[j])
  <2> SUFFICES ASSUME pc' \in Early, NEW j \in DOMAIN run'.records
               PROVE  /\ j \in DOMAIN state'.records
                      /\ Agree(run'.records[j], state'.records[j])
    OBVIOUS
  <2>1. CASE \E records \in {state.records, NoRecords} : Begin(records)
    <3>1. PICK records \in {state.records, NoRecords} : Begin(records)
      BY <2>1
    <3>2. run'.records = records /\ UNCHANGED state
      BY <3>1 DEF Begin, NoRun
    <3> QED BY <3>2, NoRunTyped DEF Agree
  <2>2. CASE pc \in Early /\ run'.records = run.records
    <3>1. j \in DOMAIN state.records /\ Agree(run'.records[j], state.records[j])
      BY <2>2 DEF SeenInv
    <3>2. /\ ~ CommitScored /\ ~ DisableBucket /\ ~ DisableLeased
          /\ ~ PersistSubmission
      BY <2>2 DEF CommitScored, DisableBucket, DisableLeased, PersistSubmission,
                  Early, Reading, Bounding
    <3>3. \/ state'.records = state.records
          \/ state' = MarkedDiagnosed(run.job)
      BY <3>2, RecordsStep
    <3>4. DOMAIN state'.records = DOMAIN state.records
      BY <1>0, <3>3 DEF MarkedDiagnosed, StateObject
    <3> QED BY <3>1, <3>2, <3>4, RecordStep DEF Agree
  <2> QED BY <2>1, <2>2, EarlySteps
<1>3. \A j \in run'.scoring : j \in run'.terminal /\ ~ run'.records[j].scored
  BY ScoringSteps DEF SeenInv
<1>4. \A j \in DOMAIN state'.records :
         state'.records[j].low = jobs'[j].low /\ state'.records[j].at = j
  <2> SUFFICES ASSUME NEW j \in DOMAIN state'.records
               PROVE  state'.records[j].low = jobs'[j].low /\ state'.records[j].at = j
    OBVIOUS
  <2>1. CASE /\ j \in DOMAIN state.records
             /\ state'.records[j].at = state.records[j].at
             /\ state'.records[j].low = state.records[j].low
    BY <2>1, JobsKept DEF JobsInv, SeenInv
  <2>2. CASE /\ PersistSubmission
             /\ j = run.submitted /\ state'.records[j] = OwnRecord
    <3>1. run.submitted # NoJob
      BY <2>2 DEF PersistSubmission, TypeInv, MemoryCoherent
    <3>2. jobs'[j].low = run.cp.watermark
      BY <2>2, <3>1, JobsKept DEF JobsInv, SeenInv
    <3> QED BY <2>2, <3>2 DEF OwnRecord
  <2> QED BY <2>1, <2>2, RecordStep
<1>5. run'.submitted # NoJob =>
        /\ pc' \in {"clear", "release", "persist", "mark"}
        /\ jobs'[run'.submitted].low = run'.cp.watermark
        /\ jobs'[run'.submitted].ops = run'.batch
  <2> SUFFICES ASSUME run'.submitted # NoJob
               PROVE  /\ pc' \in {"clear", "release", "persist", "mark"}
                      /\ jobs'[run'.submitted].low = run'.cp.watermark
                      /\ jobs'[run'.submitted].ops = run'.batch
    OBVIOUS
  <2>1. CASE Remembered(run') = Remembered(run)
    <3>1. /\ run'.submitted = run.submitted /\ run'.cp = run.cp /\ run'.batch = run.batch
      BY <2>1 DEF Remembered
    <3>2. run' # NoRun
      BY DEF NoRun
    <3>3. pc' \in {"clear", "release", "persist", "mark"}
      BY <3>1, <3>2, PlaceSteps DEF SeenInv
    <3> QED BY <3>1, <3>3, JobsKept DEF JobsInv, SeenInv
  <2>2. ~ EndRun
    BY DEF EndRun, NoRun
  <2>3. ~ \E records \in {state.records, NoRecords} : Begin(records)
    BY DEF Begin, NoRun
  <2>4. CASE Recover /\ run' = [run EXCEPT !.failures = Plan.failures, !.cp = RolledBack]
    <3>1. run'.submitted = run.submitted
      BY <1>0, <2>4 DEF RunMemory
    <3> QED BY <2>4, <3>1 DEF Recover, Recovering, SeenInv
  <2>5. CASE pc = "read" /\ \E rows : TakeUp(rows)
    <3>1. run'.submitted = run.submitted
      BY <1>0, <2>2, <2>5 DEF TakeUp, RunMemory
    <3> QED BY <2>5, <3>1 DEF SeenInv
  <2>6. CASE SubmitJob
    <3>1. /\ run'.submitted = Len(jobs) + 1 /\ run'.cp = run.cp
          /\ run'.batch = run.batch /\ pc' = "clear" /\ CreateJob
      BY <1>0, <2>6, CreateJobTyped DEF SubmitJob, RunMemory, GoTo
    <3> QED BY <3>1, JobCreated
  <2> QED BY <2>1, <2>2, <2>3, <2>4, <2>5, <2>6, RunSteps
<1> QED BY <1>1, <1>2, <1>3, <1>4, <1>5 DEF SeenInv

LEMMA SeenInit == Init => SeenInv
BY NoRunTyped DEF Init, SeenInv, EmptyState, NoRun, Early, Reading, Bounding

-----------------------------------------------------------------------------
\* No job exists that its run does not know of or did not release.
TakesLand == {"write", "lostReply", "overdue", "crash", "timeout"} \cap Faults = {}

LEMMA TakesLandFaults ==
  ASSUME TakesLand
  PROVE  PutsLand /\ ~ Fault("crash") /\ ~ Fault("timeout")
BY DEF TakesLand, PutsLand, Fault

\* The run has submitted its job and not yet advanced the checkpoint over it.
Unreleased(j) == j = run.submitted /\ pc \in {"clear", "release"}

\* The stored window holds what the jobs took, as far as a read can come back.
WindowInv ==
    /\ \A o \in run.batch : Time[o] <= run.candidate
    /\ \A o \in state.cp.window : Time[o] <= state.cp.watermark
    /\ \A j \in Created : ~ Unreleased(j) =>
          \A o \in jobs[j].ops :
             /\ state.cp.watermark # Epoch
             /\ \/ o \in state.cp.window
                \/ Time[o] <= WindowStart(state.cp.watermark)

\* What a release does to a checkpoint with its batch.
LEMMA ReleasedWindow ==
  ASSUME TypeInv, \A o \in run.batch : Time[o] <= run.candidate,
         \A o \in state.cp.window : Time[o] <= state.cp.watermark
  PROVE  /\ Released.cp.watermark >= state.cp.watermark
         /\ \A o \in Released.cp.window : Time[o] <= Released.cp.watermark
         /\ \A o \in state.cp.window :
                \/ o \in Released.cp.window
                \/ Time[o] <= WindowStart(Released.cp.watermark)
         /\ run.submitted # NoJob => \A o \in run.batch :
                /\ Released.cp.watermark # Epoch
                /\ \/ o \in Released.cp.window
                   \/ Time[o] <= WindowStart(Released.cp.watermark)
<1> DEFINE refs == IF run.submitted = NoJob THEN {} ELSE run.batch
           W == state.cp.watermark
<1>0. /\ state \in StateObject /\ state.cp \in Checkpoints
      /\ W \in Nat /\ run.candidate \in Nat /\ refs \in SUBSET Op
      /\ state.cp.window \in SUBSET Op
  BY DEF TypeInv, Typed, StateObject, RunMemory, Checkpoints
<1>1. Released.cp = AdvanceCheckpoint(state.cp, refs, run.candidate)
  BY <1>0 DEF Released, StateObject
<1>2. CASE refs = {}
  <2>1. Released.cp.watermark = W /\ Released.cp.window = state.cp.window
    BY <1>0, <1>1, <1>2 DEF AdvanceCheckpoint, Checkpoints
  <2> QED BY <1>0, <1>2, <2>1
<1>3. CASE refs # {}
  <2>1. PICK o \in refs : Time[o] = HighWater(refs)
    <3> HIDE DEF refs
    <3> QED BY <1>0, <1>3, HighWaterIsATime
  <2>2. /\ HighWater(refs) \in Nat \ {0} /\ HighWater(refs) <= run.candidate
    BY <1>0, <2>1, CheckpointAssumption
  <2>3. Later(HighWater(refs), run.candidate) = run.candidate
    BY <1>0, <2>2 DEF Later
  <2> DEFINE V == Later(W, run.candidate)
  <2>4. V \in Nat /\ V >= W /\ V >= run.candidate /\ V # Epoch
    BY <1>0, <2>2 DEF Later, Epoch
  <2>5. /\ Released.cp.watermark = V
        /\ Released.cp.window = PruneWindow(state.cp.window \cup refs, WindowStart(V))
    BY <1>1, <1>3, <2>3 DEF AdvanceCheckpoint
  <2>6. WindowStart(V) \in Nat /\ \A q \in Op : Time[q] \in Nat
    BY <2>4, WindowStartMonotone, CheckpointAssumption
  <2> HIDE DEF V
  <2>7. \A q \in state.cp.window \cup refs :
           \/ q \in Released.cp.window \/ Time[q] <= WindowStart(V)
    BY <1>0, <2>5, <2>6 DEF PruneWindow
  <2>8. \A q \in state.cp.window \cup refs : Time[q] <= V
    BY <1>0, <2>4, <2>6
  <2>9. Released.cp.window \subseteq state.cp.window \cup refs
    BY <2>5 DEF PruneWindow
  <2> QED BY <1>3, <2>4, <2>5, <2>7, <2>8, <2>9
<1> QED BY <1>2, <1>3

\* What a run takes up is behind its candidate.
LEMMA BatchStep ==
  ASSUME TypeInv, \A o \in run.batch : Time[o] <= run.candidate, [Next]_vars
  PROVE  \A o \in run'.batch : Time[o] <= run'.candidate
<1>0. run \in RunMemory /\ journal \in SUBSET Op
  BY DEF TypeInv, Typed
<1>1. CASE Remembered(run') = Remembered(run)
  BY <1>1 DEF Remembered
<1>2. CASE EndRun
  BY <1>2 DEF EndRun, NoRun
<1>3. CASE \E records \in {state.records, NoRecords} : Begin(records)
  <2>1. run'.batch = {}
    BY <1>3 DEF Begin, NoRun
  <2> QED BY <2>1
<1>4. CASE run' = [run EXCEPT !.failures = Plan.failures, !.cp = RolledBack]
  <2>1. run'.batch = run.batch /\ run'.candidate = run.candidate
    BY <1>0, <1>4 DEF RunMemory
  <2> QED BY <2>1
<1>5. CASE TakeUp(RowsRead(journal))
  <2>1. PICK rows \in SUBSET journal : TakeUp(rows)
    BY <1>5 DEF RowsRead, RowsUpTo
  <2> DEFINE eligible == {o \in rows : IsEligible(o, run.cp)}
  <2>2. CASE eligible # {}
    <3>1. run'.candidate = HighWater(eligible) /\ run'.batch = eligible \cap Matching
      BY <1>0, <2>1, <2>2 DEF TakeUp, RunMemory
    <3>2. eligible \in SUBSET Op
      BY <1>0
    <3> HIDE DEF eligible
    <3> QED BY <2>2, <3>1, <3>2, HighWaterIsATime
  <2>3. CASE eligible = {}
    BY <1>2, <2>1, <2>3 DEF TakeUp
  <2> QED BY <2>2, <2>3
<1>6. CASE SubmitJob
  <2>1. run'.batch = run.batch /\ run'.candidate = run.candidate
    BY <1>0, <1>6 DEF SubmitJob, RunMemory
  <2> QED BY <2>1
<1> QED BY <1>1, <1>2, <1>3, <1>4, <1>5, <1>6, RunSteps

\* Where PUTs land, the release of a submitted job lands too.
LEMMA ReleaseLands ==
  ASSUME PutsLand, PutInv, ReleaseLease, run.submitted # NoJob
  PROVE  state' = Released /\ pc' = "persist" /\ run' = run
<1>1. fresh
  BY DEF PutInv, Stale, ReleaseLease
<1> QED BY <1>1, LandedPuts DEF ReleaseLease, Put, GoTo

LEMMA WindowStep ==
  ASSUME TypeInv, TakesLand, PutInv, SeenInv, WindowInv, [Next]_vars
  PROVE  WindowInv'
<1> USE TakesLandFaults
<1> DEFINE W == state.cp.watermark
<1>0. /\ state \in StateObject /\ state.cp \in Checkpoints /\ W \in Nat
      /\ jobs \in Seq(Job) /\ state'.cp \in Checkpoints /\ state'.cp.watermark \in Nat
  BY TypeStep DEF TypeInv, Typed, StateObject, Checkpoints
<1>1. \A o \in run'.batch : Time[o] <= run'.candidate
  BY BatchStep DEF WindowInv
<1>2. /\ state'.cp.watermark >= W
      /\ \A o \in state'.cp.window : Time[o] <= state'.cp.watermark
      /\ \A o \in state.cp.window : \/ o \in state'.cp.window
                                   \/ Time[o] <= WindowStart(state'.cp.watermark)
  <2>1. CASE state'.cp = state.cp
    BY <1>0, <2>1 DEF WindowInv
  <2>2. CASE state' = [state EXCEPT !.cp.lease = run.candidate]
    BY <1>0, <2>2 DEF StateObject, Checkpoints, WindowInv
  <2>3. CASE state' = Released
    BY <2>3, ReleasedWindow DEF WindowInv
  <2> QED BY <2>1, <2>2, <2>3, CheckpointStep
<1>3. ASSUME NEW j \in Created', ~ Unreleased(j)', NEW o \in jobs'[j].ops
      PROVE  /\ state'.cp.watermark # Epoch
             /\ \/ o \in state'.cp.window
                \/ Time[o] <= WindowStart(state'.cp.watermark)
  <2>1. j \in Created
    <3>1. CASE CreateJob
      <4>1. SubmitJob
        <5>1. jobs' # jobs
          BY <3>1, JobCreated DEF Created
        <5>2. ~ JobStep
          BY <3>1, JobCreated, JobEnded DEF JobStep
        <5> QED BY <5>1, <5>2, JobSteps DEF SubmitFails, JobStep
      <4>2. run'.submitted = Len(jobs) + 1 /\ pc' = "clear"
        BY <4>1 DEF SubmitJob, GoTo, TypeInv, Typed, RunMemory
      <4> QED BY <1>3, <3>1, <4>2, JobCreated DEF Unreleased
    <3>2. CASE ~ CreateJob
      <4>1. jobs' = jobs \/ \E i \in Created, status \in {"Complete", "Failed"} :
                                JobEnds(i, status)
        BY <3>2, JobSteps
      <4> QED BY <4>1, JobEnded DEF Created
    <3> QED BY <3>1, <3>2
  <2>2. o \in jobs[j].ops /\ o \in Op
    <3>1. o \in jobs[j].ops
      BY <1>3, <2>1, JobsKept
    <3>2. jobs[j] \in Job
      BY <1>0, <2>1, ElementOfSeq, LenProperties DEF Created
    <3> QED BY <3>1, <3>2 DEF Job
  <2>3. CASE ~ Unreleased(j)
    <3>1. W # Epoch /\ (o \in state.cp.window \/ Time[o] <= WindowStart(W))
      BY <2>1, <2>2, <2>3 DEF WindowInv
    <3>2. Time[o] \in Nat /\ WindowStart(W) <= WindowStart(state'.cp.watermark)
          /\ WindowStart(W) \in Nat /\ WindowStart(state'.cp.watermark) \in Nat
      BY <1>0, <1>2, <2>2, CheckpointAssumption, WindowStartMonotone
    <3> QED BY <1>0, <1>2, <3>1, <3>2 DEF Epoch
  <2>4. CASE Unreleased(j)
    <3>1. j = run.submitted /\ pc \in {"clear", "release"} /\ run.submitted # NoJob
      BY <1>0, <2>1, <2>4, LenProperties DEF Unreleased, Created
    <3>2. \/ run'.submitted = j /\ pc' = pc
          \/ ReleaseLease
      <4>1. CASE ~ RunStep
        BY <3>1, <4>1, OutsideSteps
      <4>2. CASE ClearStreak
        BY <1>3, <3>1, <4>2 DEF ClearStreak, GoTo, Unreleased
      <4>3. ~ Crash
        BY DEF Crash
      <4> QED BY <3>1, <4>1, <4>2, <4>3, StepsByPlace
    <3>3. ReleaseLease
      BY <1>3, <3>1, <3>2 DEF Unreleased
    <3>4. state' = Released /\ o \in run.batch
      BY <2>2, <3>1, <3>3, ReleaseLands DEF SeenInv
    <3> QED BY <3>1, <3>4, ReleasedWindow DEF WindowInv
  <2> QED BY <2>3, <2>4
<1> QED BY <1>1, <1>2, <1>3 DEF WindowInv

-----------------------------------------------------------------------------
\* The jobs that took an operation, and the failed ones whose rollback reaches it.
Takers(o)    == {k \in Created : o \in jobs[k].ops}
Reachable(o) == {f \in Created : /\ jobs[f].status = "Failed"
                                 /\ jobs[f].low # Epoch
                                 /\ Time[o] > WindowStart(jobs[f].low)}

\* A run rolls back over a failed job for as long as its record is there and
\* unscored; then it is spent.  The run that submitted commits the score itself.
Spent(f) ==
    /\ \/ f \notin DOMAIN state.records
       \/ state.records[f].scored
       \/ run.submitted # NoJob /\ f \in run.scoring
    /\ ~ (f = run.submitted /\ pc \in {"clear", "release", "persist"})

\* An operation is taken up by a run for the first time or over a failed job
\* that it scores, and each time that it is taken again one such job is spent.
TakenInv ==
    /\ pc \in Bounding => \/ run.cp = state.cp
                          \/ \E f \in run.scoring : /\ jobs[f].status = "Failed"
                                                    /\ jobs[f].low # Epoch
                                                    /\ run.cp.watermark = jobs[f].low
    /\ pc \in {"acquire", "build", "submit"} => \A o \in run.batch :
            Takers(o) = {} \/ Reachable(o) \cap run.scoring # {}
    /\ \A o \in Op : Cardinality(Takers(o))
                       <= 1 + Cardinality({f \in Reachable(o) : Spent(f)})

LEMMA CreatedFinite ==
  ASSUME TypeInv
  PROVE  \A S \in SUBSET Created : IsFiniteSet(S) /\ Cardinality(S) \in Nat
<1>1. IsFiniteSet(Created)
  BY LenProperties, FS_Interval DEF TypeInv, Typed, Created
<1> QED BY <1>1, FS_Subset, FS_CardinalityType

\* A failed job stays within the reach that it has.
LEMMA ReachableStays ==
  ASSUME TypeInv, [Next]_vars, NEW o
  PROVE  Reachable(o) \subseteq Reachable(o)'
BY JobsKept DEF Reachable, Finished

\* A run keeps the job that it submitted in mind until it ends.
LEMMA SubmittedSteps ==
  ASSUME TypeInv, [Next]_vars
  PROVE  \/ run'.submitted \in {run.submitted, NoJob}
         \/ SubmitJob /\ run'.submitted = Len(jobs) + 1
<1>0. run \in RunMemory
  BY DEF TypeInv, Typed
<1>1. CASE Remembered(run') = Remembered(run)
  BY <1>1 DEF Remembered
<1>2. CASE EndRun
  BY <1>2 DEF EndRun, NoRun
<1>3. CASE \E records \in {state.records, NoRecords} : Begin(records)
  <2>1. run'.submitted = NoJob
    BY <1>3 DEF Begin, NoRun
  <2> QED BY <2>1
<1>4. CASE run' = [run EXCEPT !.failures = Plan.failures, !.cp = RolledBack]
  BY <1>0, <1>4 DEF RunMemory
<1>5. CASE \E rows : TakeUp(rows)
  BY <1>0, <1>2, <1>5 DEF TakeUp, RunMemory
<1>6. CASE SubmitJob
  BY <1>0, <1>6 DEF SubmitJob, RunMemory
<1> QED BY <1>1, <1>2, <1>3, <1>4, <1>5, <1>6, RunSteps

\* What is spent stays spent: the run that submitted a job does commit the
\* scores, as its PUTs land or the records are gone.
LEMMA SpentStays ==
  ASSUME TypeInv, JobsInv, TakesLand, PutInv, SeenInv, [Next]_vars,
         NEW f \in Created, Spent(f)
  PROVE  Spent(f)'
<1> USE TakesLandFaults
<1>0. /\ run \in RunMemory /\ state \in StateObject /\ f # NoJob
  BY LenProperties DEF TypeInv, Typed, Created
<1>1. \/ run'.submitted \in {run.submitted, NoJob}
      \/ SubmitJob /\ run'.submitted = Len(jobs) + 1
  BY SubmittedSteps
<1>2. ~ (f = run'.submitted /\ pc' \in {"clear", "release", "persist"})
  <2> SUFFICES ASSUME f = run'.submitted, pc' \in {"clear", "release", "persist"}
               PROVE  FALSE
    OBVIOUS
  <2>1. CASE run'.submitted = run.submitted
    <3>1. pc \in {"clear", "release", "persist", "mark"}
      BY <1>0, <2>1 DEF SeenInv
    <3>2. pc = "mark"
      BY <2>1, <3>1 DEF Spent
    <3> QED BY <3>2, PlaceSteps
  <2>2. CASE SubmitJob /\ run'.submitted = Len(jobs) + 1
    BY <2>2, JobCreated DEF SubmitJob
  <2> QED BY <1>0, <1>1, <2>1, <2>2
<1>3. ~ (PersistSubmission /\ f = run.submitted)
  BY DEF PersistSubmission, Spent
<1>4. CASE \/ f \notin DOMAIN state.records
           \/ state.records[f].scored
  <2>1. f \in DOMAIN state'.records => state'.records[f].scored
    BY <1>3, <1>4, RecordStep
  <2> QED BY <1>2, <2>1 DEF Spent
<1>5. CASE /\ f \in DOMAIN state.records
           /\ run.submitted # NoJob /\ f \in run.scoring
  <2>1. pc \in {"clear", "release", "persist", "mark"}
    BY <1>5 DEF SeenInv
  <2>2. ~ EndRun /\ \A records : ~ Begin(records)
    <3>1. pc' # pc /\ pc' \in {"idle", "describe"} => RunStep
      BY OutsideSteps
    <3>2. ~ Crash
      BY DEF Crash
    <3>3. \A records : ~ Begin(records)
      BY <2>1 DEF Begin
    <3>4. CASE EndRun
      <4>1. ReleaseLease \/ CommitScored \/ ClearStreak \/ PersistSubmission
        BY <2>1, <3>1, <3>2, <3>4, StepsByPlace DEF EndRun, GoTo
      <4>2. ~ ReleaseLease
        BY <1>5, <3>4, ReleaseLands DEF EndRun, GoTo
      <4>3. ~ CommitScored
        BY <1>5, <2>1, <3>4 DEF CommitScored, EndRun, GoTo
      <4> QED BY <3>4, <4>1, <4>2, <4>3
              DEF ClearStreak, PersistSubmission, EndRun, GoTo
    <3> QED BY <3>3, <3>4
  <2>3. run'.submitted = run.submitted
    <3>1. ~ SubmitJob
      BY <2>1 DEF SubmitJob
    <3>2. CASE Remembered(run') = Remembered(run)
      BY <3>2 DEF Remembered
    <3> QED BY <2>1, <2>2, <3>1, <3>2, RunSteps DEF Recover, Recovering
  <2>4. CASE f \in run'.scoring
    BY <1>2, <1>5, <2>3, <2>4 DEF Spent
  <2>5. CASE f \notin run'.scoring
    <3>1. CommitScored /\ run.scoring # {} /\ f = First(run.scoring) /\ pc = "mark"
      BY <1>5, <2>1, <2>2, <2>5, ScoringSteps DEF CommitScored
    <3>2. fresh
      <4>1. state.records # NoRecords
        BY <1>5, NoRunTyped
      <4> QED BY <1>5, <3>1, <4>1 DEF PutInv, Stale
    <3>3. state' = MarkedScored(f)
      BY <3>1, <3>2, LandedPuts DEF CommitScored
    <3>4. f \in DOMAIN state'.records => state'.records[f].scored
      <4>1. state.records \in [DOMAIN state.records -> SubmissionRecord]
        BY <1>0, RecordMapsAre DEF StateObject
      <4>2. state'.records = [state.records EXCEPT ![f].scored = TRUE]
        BY <1>0, <1>5, <3>3 DEF MarkedScored, StateObject
      <4>3. state'.records[f] = [state.records[f] EXCEPT !.scored = TRUE]
        BY <1>5, <4>2
      <4>4. state.records[f] \in SubmissionRecord
        BY <1>5, <4>1
      <4> QED BY <4>3, <4>4 DEF SubmissionRecord
    <3> QED BY <1>2, <3>4 DEF Spent
  <2> QED BY <2>4, <2>5
<1> QED BY <1>4, <1>5 DEF Spent

\* An operation that a read finds eligible is in no job, unless the checkpoint
\* was rolled back: then it is above the window start of the failed job.
LEMMA EligibleIsFree ==
  ASSUME TypeInv, WindowInv, TakenInv, SeenInv, pc = "read",
         NEW o \in Op, IsEligible(o, run.cp)
  PROVE  \/ Takers(o) = {}
         \/ \E f \in run.scoring : /\ jobs[f].status = "Failed"
                                  /\ jobs[f].low # Epoch
                                  /\ Time[o] > WindowStart(jobs[f].low)
<1> DEFINE W == state.cp.watermark
<1>0. /\ W \in Nat /\ Time[o] \in Nat \ {0} /\ run.cp.watermark \in Nat
      /\ WindowStart(W) \in Nat /\ WindowStart(W) <= W
  <2>1. W \in Nat /\ run.cp.watermark \in Nat
    BY DEF TypeInv, Typed, StateObject, RunMemory, Checkpoints
  <2> QED BY <2>1, WindowStartMonotone, CheckpointAssumption
<1>1. CASE run.cp = state.cp
  <2> SUFFICES ASSUME NEW k \in Created, o \in jobs[k].ops PROVE FALSE
    BY DEF Takers
  <2>1. W # Epoch /\ (o \in state.cp.window \/ Time[o] <= WindowStart(W))
    BY DEF WindowInv, Unreleased
  <2>2. Time[o] <= W
    BY <1>0, <2>1 DEF WindowInv
  <2>3. LateArrival(o, state.cp)
    BY <1>0, <1>1, <2>1, <2>2 DEF IsEligible
  <2> QED BY <1>0, <2>1, <2>3 DEF LateArrival
<1>2. CASE \E f \in run.scoring : /\ jobs[f].status = "Failed"
                                 /\ jobs[f].low # Epoch
                                 /\ run.cp.watermark = jobs[f].low
  <2>1. PICK f \in run.scoring : /\ jobs[f].status = "Failed"
                                 /\ jobs[f].low # Epoch
                                 /\ run.cp.watermark = jobs[f].low
    BY <1>2
  <2>2. Time[o] > WindowStart(run.cp.watermark)
    <3>1. WindowStart(run.cp.watermark) <= run.cp.watermark
          /\ WindowStart(run.cp.watermark) \in Nat
      BY <1>0, WindowStartMonotone
    <3> QED BY <1>0, <2>1, <3>1 DEF IsEligible, LateArrival
  <2> QED BY <2>1, <2>2
<1> QED BY <1>1, <1>2 DEF TakenInv, Bounding

\* What a run has read and may submit, along its steps.
LEMMA ToTakeStep ==
  ASSUME TypeInv, JobsInv, SeenInv, WindowInv, TakenInv, [Next]_vars
  PROVE  /\ pc' \in Bounding =>
               \/ run'.cp = state'.cp
               \/ \E f \in run'.scoring : /\ jobs'[f].status = "Failed"
                                          /\ jobs'[f].low # Epoch
                                          /\ run'.cp.watermark = jobs'[f].low
         /\ pc' \in {"acquire", "build", "submit"} => \A o \in run'.batch :
               Takers(o)' = {} \/ Reachable(o)' \cap run'.scoring # {}
<1>0. /\ run \in RunMemory /\ run.cp \in Checkpoints /\ journal \in SUBSET Op
      /\ run.records \in RecordMaps
  BY DEF TypeInv, Typed, RunMemory
<1>1. \A f \in run.scoring : f \in Created /\ Finished(f)
  BY DEF SeenInv, JobsInv
<1>2. ASSUME ~ RunStep
      PROVE  /\ UNCHANGED <<run, pc>> /\ state'.cp = state.cp
             /\ \A o : Takers(o)' = Takers(o)
  <2>1. /\ UNCHANGED <<run, pc>> /\ state'.cp = state.cp
    BY <1>2, OutsideSteps
  <2>2. jobs' = jobs \/ \E i \in Created, status \in {"Complete", "Failed"} :
                            JobEnds(i, status)
    BY <1>2, JobSteps DEF RunStep
  <2>3. /\ Created' = Created
        /\ \A k \in Created : jobs'[k].ops = jobs[k].ops
    BY <2>2, JobEnded, JobsKept DEF Created
  <2> QED BY <2>1, <2>3 DEF Takers
<1>3. ASSUME pc' \in Bounding
      PROVE  \/ run'.cp = state'.cp
             \/ \E f \in run'.scoring : /\ jobs'[f].status = "Failed"
                                       /\ jobs'[f].low # Epoch
                                       /\ run'.cp.watermark = jobs'[f].low
  <2>1. CASE ~ RunStep
    <3>1. \A f \in run.scoring : jobs'[f].low = jobs[f].low
                                /\ jobs'[f].status = jobs[f].status
      BY <1>1, JobsKept
    <3> QED BY <1>2, <1>3, <2>1, <3>1 DEF TakenInv
  <2>2. CASE RunStep
    <3>1. ~ EndRun /\ \A records : ~ Begin(records)
      BY <1>3 DEF EndRun, Begin, GoTo, Bounding
    <3>2. Recover \/ BoundRead
      <4>1. ~ (ReadJournal \/ ReadFails \/ Crash)
        BY <1>3, <3>1 DEF ReadJournal, ReadFails, Crash, TakeUp, Bounding, GoTo
      <4>2. pc \in Bounding \cup {"describe", "recover"}
        BY <1>3, <3>1, PlaceSteps DEF EndRun, GoTo, Bounding
      <4> QED BY <1>3, <2>2, <4>1, <4>2, StepsByPlace
              DEF DescribeOutstanding, DescribeAgedOut, DescribeTerminal, TripBreaker,
                  Bounding, GoTo
    <3>3. CASE BoundRead
      <4>1. PICK q \in Queries : run' = [run EXCEPT !.query = q]
        BY <3>3, BoundReadIs DEF TypeInv
      <4>2. run'.cp = run.cp /\ run'.scoring = run.scoring
        BY <1>0, <4>1 DEF RunMemory
      <4>3. UNCHANGED <<jobs, state>> /\ pc \in Bounding
        BY <3>3, BoundReadIs DEF TypeInv, Bounding
      <4> QED BY <4>2, <4>3 DEF TakenInv
    <3>4. CASE Recover
      <4>3. run' = [run EXCEPT !.failures = Plan.failures, !.cp = RolledBack]
            /\ UNCHANGED <<jobs, state>>
        BY <3>1, <3>4 DEF Recover
      <4>4. run'.cp = RolledBack /\ run'.scoring = run.scoring
        BY <1>0, <4>3 DEF RunMemory
      <4>5. run.cp = state.cp /\ pc \in Early
        BY <3>4 DEF Recover, Recovering, SeenInv, Early, Reading
      <4>6. CASE ~ (AnyFailed /\ Plan.rollback # NoRollback)
        BY <4>3, <4>4, <4>5, <4>6 DEF RolledBack
      <4>7. CASE AnyFailed /\ Plan.rollback # NoRollback
        <5>1. DOMAIN Outcomes = run.scoring /\ run.scoring \subseteq DOMAIN run.records
          BY DEF Outcomes, TypeInv, MemoryCoherent
        <5>2. \A j \in DOMAIN run.records : run.records[j].low \in Nat
          BY <1>0, RecordMapsAre DEF SubmissionRecord
        <5>3. PICK f \in FailedIn(Outcomes) : run.records[f].low = Plan.rollback
                                             /\ Plan.rollback # 0
          BY <4>7, <5>1, <5>2, RollbackIsALow DEF Plan
        <5>4. f \in run.scoring /\ EffectiveFailure(jobs[f].status)
          BY <5>1, <5>3 DEF FailedIn, Outcomes
        <5>5. jobs[f].status = "Failed"
          <6>1. jobs[f] \in Job
            BY <1>1, <5>4, ElementOfSeq, LenProperties DEF Created, TypeInv, Typed
          <6> QED BY <5>4, <6>1 DEF EffectiveFailure, Job, JobStatus
        <5>6. jobs[f].low = Plan.rollback
          BY <4>5, <5>1, <5>3, <5>4 DEF SeenInv, Agree
        <5>7. RolledBack.watermark = Plan.rollback
          BY <1>0, <4>7 DEF RolledBack, RollBackTo, Checkpoints
        <5> QED BY <4>3, <4>4, <5>3, <5>4, <5>5, <5>6, <5>7 DEF Epoch
      <4> QED BY <4>6, <4>7
    <3> QED BY <3>2, <3>3, <3>4
  <2> QED BY <2>1, <2>2
<1>4. ASSUME pc' \in {"acquire", "build", "submit"}, NEW o \in run'.batch
      PROVE  Takers(o)' = {} \/ Reachable(o)' \cap run'.scoring # {}
  <2>1. ~ EndRun /\ \A records : ~ Begin(records)
    BY <1>4 DEF EndRun, Begin, GoTo
  <2>2. CASE /\ pc \in {"acquire", "build", "submit"} /\ run'.batch = run.batch
             /\ run'.scoring = run.scoring /\ Takers(o)' = Takers(o)
    BY <1>4, <2>2, ReachableStays DEF TakenInv
  <2>3. CASE ~ RunStep
    BY <1>2, <1>4, <2>2, <2>3
  <2>4. CASE AcquireLease \/ BuildManifest
    BY <1>4, <2>1, <2>2, <2>4 DEF AcquireLease, BuildManifest, Takers, Created
  <2>5. CASE ReadJournal
    <3>1. PICK rows \in SUBSET journal :
            TakeUp(rows) /\ UNCHANGED <<jobs, state>> /\ pc = "read"
      BY <2>5 DEF ReadJournal, RowsRead, RowsUpTo
    <3>2. /\ o \in rows /\ IsEligible(o, run.cp) /\ run'.scoring = run.scoring
      BY <1>0, <1>4, <2>1, <3>1, TakeUpTakes
    <3>3. o \in Op
      BY <1>0, <3>1, <3>2
    <3>4. Takers(o) = {} \/ Reachable(o) \cap run.scoring # {}
      BY <1>1, <3>1, <3>2, <3>3, EligibleIsFree DEF Reachable
    <3>5. Takers(o)' = Takers(o) /\ Reachable(o)' = Reachable(o)
      BY <3>1 DEF Takers, Reachable, Created
    <3> QED BY <3>2, <3>4, <3>5
  <2>6. RunStep => AcquireLease \/ BuildManifest \/ ReadJournal
    <3>1. \/ pc \in {"read", "acquire", "build"}
          \/ pc = "submit" /\ pc' = "submit"
      BY <1>4, <2>1, PlaceSteps DEF EndRun, GoTo
    <3>2. ~ BoundRead
      BY <1>4, BoundReadIs DEF TypeInv
    <3> QED BY <1>4, <2>1, <3>1, <3>2, StepsByPlace
            DEF ReadFails, SubmitJob, SubmitFails, Crash, GoTo
  <2> QED BY <2>3, <2>4, <2>5, <2>6
<1> QED BY <1>3, <1>4

\* Each time that an operation is taken again, a failed job is spent on it.
LEMMA TakenCount ==
  ASSUME TypeInv, JobsInv, TakesLand, PutInv, SeenInv, TakenInv, [Next]_vars,
         NEW o \in Op
  PROVE  Cardinality(Takers(o)')
            <= 1 + Cardinality({f \in Reachable(o) : Spent(f)}')
<1> USE TakesLandFaults
<1> DEFINE paid  == {f \in Reachable(o) : Spent(f)}
           payed == {f \in Reachable(o)' : Spent(f)'}
<1>1. /\ paid \in SUBSET Created /\ Takers(o) \in SUBSET Created
      /\ payed \in SUBSET Created' /\ Takers(o)' \in SUBSET Created'
  BY DEF Reachable, Takers
<1>2. /\ IsFiniteSet(paid) /\ Cardinality(paid) \in Nat
      /\ IsFiniteSet(Takers(o)) /\ Cardinality(Takers(o)) \in Nat
  BY <1>1, CreatedFinite
<1>3. /\ IsFiniteSet(payed) /\ Cardinality(payed) \in Nat
  <2>1. TypeInv'
    BY TypeStep
  <2>2. IsFiniteSet(Created')
    BY <2>1, LenProperties, FS_Interval DEF TypeInv, Typed, Created
  <2> QED BY <1>1, <2>2, FS_Subset, FS_CardinalityType
<1>4. paid \subseteq payed
  BY <1>1, ReachableStays, SpentStays
<1>5. Cardinality(Takers(o)) <= 1 + Cardinality(paid)
  BY DEF TakenInv
<1>6. CASE Takers(o)' = Takers(o)
  <2> HIDE DEF paid, payed
  <2>1. Cardinality(paid) <= Cardinality(payed)
    BY <1>3, <1>4, FS_Subset
  <2> QED BY <1>2, <1>3, <1>5, <1>6, <2>1 DEF payed
<1>7. CASE SubmitJob /\ o \in run.batch
  <2> DEFINE n == Len(jobs) + 1
  <2>1. Takers(o)' = Takers(o) \cup {n} /\ n \notin Created /\ n # NoJob
    <3>1. CreateJob
      BY <1>7 DEF SubmitJob
    <3>2. n # NoJob
      BY <3>1, CreateJobTyped
    <3>3. /\ n \notin Created /\ Created' = Created \cup {n}
          /\ jobs'[n].ops = run.batch /\ \A k \in Created : jobs'[k] = jobs[k]
      BY <3>1, JobCreated
    <3> HIDE DEF n
    <3>4. Takers(o)' = Takers(o) \cup {n}
      BY <1>7, <3>3 DEF Takers
    <3> QED BY <3>2, <3>3, <3>4
  <2>2. Cardinality(Takers(o)') = Cardinality(Takers(o)) + 1
    <3> HIDE DEF n
    <3> QED BY <1>1, <1>2, <2>1, FS_AddElement
  <2>3. CASE Takers(o) = {}
    BY <1>3, <2>2, <2>3, FS_EmptySet
  <2>4. CASE Takers(o) # {}
    <3>1. PICK f \in Reachable(o) : f \in run.scoring
      BY <1>7, <2>4 DEF TakenInv, SubmitJob
    <3>2. pc = "submit" /\ run.submitted = NoJob
      BY <1>7 DEF SubmitJob, SeenInv
    <3>3. f \in DOMAIN state.records /\ ~ state.records[f].scored
      <4>1. f \in DOMAIN run.records /\ ~ run.records[f].scored
        BY <3>1 DEF SeenInv, TypeInv, MemoryCoherent
      <4> QED BY <3>2, <4>1 DEF SeenInv, Early, Agree
    <3>4. ~ Spent(f)
      BY <3>2, <3>3 DEF Spent
    <3>5. Spent(f)'
      <4>1. run'.submitted = n /\ run'.scoring = run.scoring
        BY <1>7 DEF SubmitJob, TypeInv, Typed, RunMemory
      <4>2. f # n
        BY <2>1, <3>1 DEF Reachable
      <4> HIDE DEF n
      <4> QED BY <2>1, <3>1, <4>1, <4>2 DEF Spent
    <3>6. f \in payed /\ f \notin paid
      BY <3>1, <3>4, <3>5, ReachableStays
    <3> HIDE DEF paid, payed
    <3>7. Cardinality(paid \cup {f}) = Cardinality(paid) + 1
      BY <1>2, <3>6, FS_AddElement
    <3>8. Cardinality(paid \cup {f}) <= Cardinality(payed)
      BY <1>3, <1>4, <3>6, FS_Subset
    <3>9. Cardinality(Takers(o)') <= 1 + Cardinality(payed)
      BY <1>2, <1>3, <1>5, <2>2, <3>7, <3>8
    <3> QED BY <3>9 DEF payed
  <2> QED BY <2>3, <2>4
<1>8. \/ Takers(o)' = Takers(o)
      \/ SubmitJob /\ o \in run.batch
  <2>1. CASE jobs' = jobs
    BY <2>1 DEF Takers, Created
  <2>2. CASE SubmitFails /\ CreateJob
    <3>1. ~ Fault("timeout")
      OBVIOUS
    <3>2. jobs' = jobs
      BY <2>2, <3>1 DEF SubmitFails
    <3> QED BY <2>1, <3>2
  <2>3. CASE SubmitJob /\ o \notin run.batch
    <3>1. CreateJob
      BY <2>3 DEF SubmitJob
    <3>2. Takers(o)' = Takers(o)
      BY <2>3, <3>1, JobCreated DEF Takers
    <3> QED BY <3>2
  <2>4. CASE \E i \in Created, status \in {"Complete", "Failed"} : JobEnds(i, status)
    <3>1. /\ Created' = Created
          /\ \A k \in Created : jobs'[k].ops = jobs[k].ops
      BY <2>4, JobEnded, JobsKept
    <3> QED BY <3>1 DEF Takers
  <2> QED BY <2>1, <2>2, <2>3, <2>4, JobSteps
<1> QED BY <1>6, <1>7, <1>8

\* What the count of the takers rests on, from the first state on.
TakeInv == TypeInv /\ JobsInv /\ PutInv /\ SeenInv /\ WindowInv /\ TakenInv

LEMMA TakeInit == Init => TakeInv
<1>1. Init => JobsInv
  BY NoRunTyped DEF Init, JobsInv, EmptyState, NoRun
<1>2. Init => Created = {}
  BY DEF Init, Created
<1>3. Init => WindowInv
  BY <1>2 DEF Init, WindowInv, EmptyState, EmptyCheckpoint, NoRun
<1>4. Init => TakenInv
  <2> SUFFICES ASSUME Init PROVE TakenInv
    OBVIOUS
  <2>1. ASSUME NEW o \in Op
        PROVE  Cardinality(Takers(o)) <= 1 + Cardinality({f \in Reachable(o) : Spent(f)})
    <3>1. Takers(o) = {} /\ {f \in Reachable(o) : Spent(f)} = {}
      BY <1>2 DEF Takers, Reachable
    <3> QED BY <3>1, FS_EmptySet
  <2> QED BY <2>1 DEF Init, TakenInv, Bounding
<1> QED BY <1>1, <1>3, <1>4, TypeInit, PutInit, SeenInit DEF TakeInv

LEMMA TakeStep ==
  ASSUME TakesLand
  PROVE  TakeInv /\ [Next]_vars => TakeInv'
<1>1. ASSUME TakeInv, [Next]_vars PROVE TakenInv'
  <2>1. \A o \in Op : Cardinality(Takers(o)')
                        <= 1 + Cardinality({f \in Reachable(o) : Spent(f)}')
    BY <1>1, TakenCount DEF TakeInv
  <2> QED BY <1>1, <2>1, ToTakeStep DEF TakenInv, TakeInv
<1>2. ASSUME TakeInv, [Next]_vars PROVE JobsInv'
  BY <1>2, StoredJobsStep, JobsStep, RunJobsStep DEF JobsInv, TakeInv
<1> QED BY <1>1, <1>2, TypeStep, PutStep, SeenStep, WindowStep, TakesLandFaults DEF TakeInv

\* TakenOnce: where PUTs land and no job is created unseen, the number of jobs that
\* take an operation exceeds the number of failed jobs whose rollback reaches it
\* by one at most, with any number of jobs running at once, the bucket disabled
\* and enabled again at any time, and any read, report or submission failing
\* (is_eligible, _commit_recovery_scored).
THEOREM EachTakenOnce ==
  ASSUME TakesLand
  PROVE  Spec => []TakenOnce
<1>1. TakeInv => TakenOnce
  <2> SUFFICES ASSUME TakeInv, NEW o \in Op
               PROVE  Cardinality({k \in Created : o \in jobs[k].ops})
                        <= 1 + Cardinality({f \in Created :
                                  /\ jobs[f].status = "Failed"
                                  /\ jobs[f].low # Epoch
                                  /\ Time[o] > WindowStart(jobs[f].low)})
    BY DEF TakenOnce
  <2> DEFINE paid == {f \in Reachable(o) : Spent(f)}
  <2>1. /\ paid \subseteq Reachable(o) /\ Reachable(o) \in SUBSET Created
        /\ paid \in SUBSET Created /\ Takers(o) \in SUBSET Created
    BY DEF Reachable, Takers
  <2>2. Cardinality(Takers(o)) <= 1 + Cardinality(paid)
    BY DEF TakenInv, TakeInv
  <2> HIDE DEF paid
  <2>3. Cardinality(paid) <= Cardinality(Reachable(o))
    BY <2>1, CreatedFinite, FS_Subset DEF TakeInv
  <2>4. Cardinality(Takers(o)) <= 1 + Cardinality(Reachable(o))
    BY <2>1, <2>2, <2>3, CreatedFinite DEF TakeInv
  <2> QED BY <2>4 DEF Takers, Reachable
<1> QED BY <1>1, TakeInit, TakeStep, PTL DEF Spec
=============================================================================
