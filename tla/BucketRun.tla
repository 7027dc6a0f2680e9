----------------------------- MODULE BucketRun -----------------------------
(***************************************************************************)
(* The interval runs of one Monitored_Bucket: _process_bucket of           *)
(* src/orchestrator.py against the bucket's state object                   *)
(* (src/adapters/state_store.py), the Athena journal, S3 Batch Operations, *)
(* the report-missing checker of src/lambda_handler.py and an operator.    *)
(*                                                                         *)
(* The main function has one reserved execution, so runs follow each       *)
(* other; the checker and the operator write the state object at any time, *)
(* and a run may die anywhere.  Every conditional PUT of the run is a step *)
(* of its own: the writer holds one ETag from its first read to its last   *)
(* write, so a PUT lands exactly when nobody else wrote since ("fresh").   *)
(* PUTs of report metadata (routing, timestamps, scan results, the journal *)
(* alert) change nothing below and are left out.                           *)
(*                                                                         *)
(* What can go wrong is a fault of a kind listed in Faults, MaxFaults of   *)
(* them at most in a behaviour.                                            *)
(***************************************************************************)
EXTENDS JournalRead, JobRecovery, SubmissionRecords, Sequences

CONSTANTS Matching,      \* the operations that match a rule and whose object is kept
          JournalDelay,  \* how long after its record_timestamp a row may appear
          MaxJobs,       \* bound: jobs ever created
          Faults,        \* the kinds of fault considered
          MaxFaults      \* bound: faults in a behaviour

FaultKinds == {"write", "lostReply", "records", "describe", "aged", "report",
               "count", "read", "build", "service", "timeout", "rejected",
               "crash", "jobFails", "overdue"}

ASSUME BucketRunAssumption ==
    /\ Matching \subseteq Op
    /\ JournalDelay \in Nat
    /\ MaxJobs \in Nat \ {0}
    /\ Faults \subseteq FaultKinds
    /\ MaxFaults \in Nat

VARIABLES journal,   \* the operations whose row Athena returns
          jobs,      \* the Batch Operations jobs ever created, in order
          state,     \* the bucket's state object
          fresh,     \* whether the run's ETag is still the object's
          run,       \* what the run holds in memory
          pc,        \* the next step of the run
          checking,  \* the job the checker is about to alert on, or NoJob
          faults     \* the faults so far

vars == <<journal, jobs, state, fresh, run, pc, checking, faults>>

-----------------------------------------------------------------------------
NoJob   == 0
JobIds  == 1..MaxJobs
Created == DOMAIN jobs

JobStatus == {"Active", "Complete", "Failed"}
Finished(j) == jobs[j].status # "Active"
ActiveJobs == {j \in Created : ~ Finished(j)}

Job == [status: JobStatus, ops: SUBSET Op, low: Nat]

\* A SubmissionRecord, by job id, and the state object.
SubmissionRecord ==
    [failures: Nat, at: JobIds, low: Nat, diagnosed: BOOLEAN, scored: BOOLEAN]
IsRecordMap(f) == DOMAIN f \subseteq JobIds /\ f \in [DOMAIN f -> SubmissionRecord]

NoRecords == [j \in {} |-> NoJob]

EmptyState ==
    [cp |-> EmptyCheckpoint, records |-> NoRecords, processed |-> {},
     alerted |-> {}, disabled |-> FALSE, streak |-> 0]

\* What the bounding queries of a journal read have found.  The rows seen are
\* not held by the code: those visible when the tail was counted.
NoQuery ==
    [seen |-> {}, tail |-> 0, assumed |-> FALSE, since |-> Epoch, until |-> NoBound]

NoRun ==
    [cp |-> EmptyCheckpoint, records |-> NoRecords, todo |-> {}, job |-> NoJob,
     readable |-> FALSE, scoring |-> {}, terminal |-> {}, outstanding |-> {},
     failures |-> 0, query |-> NoQuery, candidate |-> Epoch, batch |-> {},
     submitted |-> NoJob]

Steps == {"idle", "describe", "merge", "unalert", "diagnose", "recover",
          "disable", "count", "boundary", "floor", "read", "acquire", "build",
          "submit", "clear", "escalate", "disableLeased", "release", "persist", "mark"}

\* Jobs are described and marked in the order of the map, oldest first.
First(ids) == CHOOSE j \in ids : \A k \in ids : j <= k

-----------------------------------------------------------------------------
Fault(kind) ==
    /\ kind \in Faults
    /\ faults < MaxFaults
    /\ faults' = faults + 1

NoFault == UNCHANGED faults

\* A conditional PUT that the writer sees succeed.
Put(next) ==
    /\ fresh
    /\ state' = next
    /\ NoFault
    /\ UNCHANGED fresh

Rejected == ~ fresh /\ NoFault /\ UNCHANGED <<state, fresh>>

Unsent == fresh /\ Fault("write") /\ UNCHANGED <<state, fresh>>

\* The PUT was applied, its reply lost: the writer keeps the ETag it held.
Unheard(next) == fresh /\ Fault("lostReply") /\ state' = next /\ fresh' = FALSE

\* A conditional PUT that the writer sees raise.
PutRaises(next) == Rejected \/ Unsent \/ Unheard(next)

Attempt(next) == Put(next) \/ PutRaises(next)

GoTo(step) == pc' = step

EndRun == GoTo("idle") /\ run' = NoRun

-----------------------------------------------------------------------------
\* The run reads the disable flag, the checkpoint and the records; an exception
\* on the first two skips the bucket and changes nothing.
Begin(records) ==
    /\ pc = "idle"
    /\ ~ state.disabled
    /\ run' = [NoRun EXCEPT !.cp = state.cp, !.records = records,
                            !.todo = DOMAIN records]
    /\ GoTo("describe")
    /\ fresh' = TRUE
    /\ UNCHANGED <<journal, jobs, state, checking>>

StartRun == Begin(state.records) /\ NoFault

\* The records could not be read: "skipping recovery".
StartRunBlind == Begin(NoRecords) /\ Fault("records")

\* The DescribeJob loop.  A running job, and one that cannot be described,
\* counts as outstanding, the second only until it is 14 days old.
DescribeOutstanding ==
    /\ pc = "describe"
    /\ run.todo # {}
    /\ LET j == First(run.todo)
       IN  /\ \/ ~ Finished(j) /\ NoFault
              \/ Fault("describe")
           /\ run' = [run EXCEPT !.todo = @ \ {j}, !.outstanding = @ \cup {j}]
    /\ UNCHANGED <<journal, jobs, state, fresh, pc, checking>>

DescribeAgedOut ==
    /\ pc = "describe"
    /\ run.todo # {}
    /\ Fault("aged")
    /\ run' = [run EXCEPT !.todo = @ \ {First(@)}]
    /\ UNCHANGED <<journal, jobs, state, fresh, pc, checking>>

\* A terminal job is scored once ever; its report may not be readable yet.
DescribeTerminal(readable) ==
    /\ pc = "describe"
    /\ run.todo # {}
    /\ LET j == First(run.todo)
       IN  /\ Finished(j)
           /\ run' = [run EXCEPT !.todo = @ \ {j}, !.job = j,
                                 !.readable = readable,
                                 !.terminal = @ \cup {j},
                                 !.scoring = IF run.records[j].scored
                                               THEN @ ELSE @ \cup {j}]
    /\ IF readable THEN NoFault ELSE Fault("report")
    /\ GoTo("merge")
    /\ UNCHANGED <<journal, jobs, state, fresh, checking>>

\* Completion tracking: the report's outcomes and the job id go into the state
\* object in one PUT.  A failure leaves the job unprocessed.
MergeReport ==
    /\ pc = "merge"
    /\ IF TrackingOn /\ run.readable /\ run.job \notin state.processed
         THEN LET merged == [state EXCEPT !.processed = @ \cup {run.job}]
              IN  \/ Put(merged) /\ GoTo("unalert")
                  \/ PutRaises(merged) /\ GoTo("diagnose")
         ELSE GoTo("diagnose") /\ NoFault /\ UNCHANGED <<state, fresh>>
    /\ UNCHANGED <<journal, jobs, run, checking>>

ClearAlert ==
    /\ pc = "unalert"
    /\ IF run.job \in state.alerted
         THEN Attempt([state EXCEPT !.alerted = @ \ {run.job}])
         ELSE NoFault /\ UNCHANGED <<state, fresh>>
    /\ GoTo("diagnose")
    /\ UNCHANGED <<journal, jobs, run, checking>>

\* Marking a job whose record is gone writes the object back as it is.
\* Mutant: the score is committed with the diagnosis, before the job's work is
\* submitted again.
MarkedBoth(j) ==
    IF j \in DOMAIN state.records
      THEN [state EXCEPT !.records[j].diagnosed = TRUE, !.records[j].scored = TRUE]
      ELSE state

MarkedDiagnosed(j) ==
    IF j \in DOMAIN state.records
      THEN [state EXCEPT !.records[j].diagnosed = TRUE] ELSE state
MarkedScored(j) ==
    IF j \in DOMAIN state.records
      THEN [state EXCEPT !.records[j].scored = TRUE] ELSE state

DiagnoseReport ==
    /\ pc = "diagnose"
    /\ IF run.readable /\ ~ run.records[run.job].diagnosed
         THEN Attempt(MarkedDiagnosed(run.job))
         ELSE NoFault /\ UNCHANGED <<state, fresh>>
    /\ run' = [run EXCEPT !.job = NoJob, !.readable = FALSE]
    /\ GoTo(IF run.todo = {} THEN "recover" ELSE "describe")
    /\ UNCHANGED <<journal, jobs, checking>>

-----------------------------------------------------------------------------
Recovering ==
    \/ pc = "recover"
    \/ pc = "describe" /\ run.todo = {}

Outcomes == [j \in run.scoring |-> jobs[j].status]
Plan == PlanRecovery(run.records, Outcomes)
AnyFailed == FailedIn(Outcomes) # {}

\* Mutant: an absent rollback target is applied like any other.
RolledBackAlways == IF AnyFailed THEN RollBackTo(run.cp, Plan.rollback) ELSE run.cp

RolledBack ==
    IF AnyFailed /\ Plan.rollback # NoRollback
      THEN RollBackTo(run.cp, Plan.rollback) ELSE run.cp

\* Mutant: one job more than the limit.
AboveLimit == Cardinality(run.outstanding) > MaxConcurrent
AtLimit    == Cardinality(run.outstanding) >= MaxConcurrent

TripBreaker ==
    /\ Recovering
    /\ AnyFailed /\ Plan.disable
    /\ GoTo("disable")
    /\ NoFault
    /\ UNCHANGED <<journal, jobs, state, fresh, run, checking>>

\* The rollback lives in memory: the release below writes the stored checkpoint.
Recover ==
    /\ Recovering
    /\ ~ (AnyFailed /\ Plan.disable)
    /\ IF AtLimit
         THEN EndRun
         ELSE /\ run' = [run EXCEPT !.failures = Plan.failures, !.cp = RolledBack]
              /\ GoTo("count")
    /\ NoFault
    /\ UNCHANGED <<journal, jobs, state, fresh, checking>>

\* Mutant: the disabled bucket keeps its records.
DisabledWithRecords == [state EXCEPT !.disabled = TRUE]

Disabled ==
    [state EXCEPT !.disabled = TRUE, !.records = NoRecords,
                  !.alerted = @ \ DOMAIN state.records]

\* Whether or not the flag was written, the scores are committed next.
DisableBucket ==
    /\ pc = "disable"
    /\ Attempt(Disabled)
    /\ GoTo("mark")
    /\ UNCHANGED <<journal, jobs, run, checking>>

-----------------------------------------------------------------------------
\* The journal read is four Athena queries, each over what is visible then.
\* The first counts the lookback tail; when it fails the tail is assumed to
\* fill its allowance.
CountTail ==
    /\ pc = "count"
    /\ LET w == run.cp.watermark
           Counted(n, assumed) ==
               run' = [run EXCEPT !.query = [@ EXCEPT !.seen = journal, !.tail = n,
                                                      !.assumed = assumed]]
       IN  \/ Counted(Cardinality(TailRows(journal, w)), FALSE) /\ NoFault
           \/ CountsTail(w) /\ Counted(FullTail, TRUE) /\ Fault("count")
    /\ GoTo("boundary")
    /\ UNCHANGED <<journal, jobs, state, fresh, checking>>

\* Mutant: an assumed tail is not cut, as it does not exceed its allowance.
CutsCounted(query) == query.tail > TailAllowance(query.tail)

CutsTail(query) == query.assumed \/ query.tail > TailAllowance(query.tail)

\* The second turns the budget of new rows into the upper bound.
FindBoundary ==
    /\ pc = "boundary"
    /\ LET w == run.cp.watermark
           n == NewRowBudget(run.query.tail)
       IN  run' = [run EXCEPT !.query = [@ EXCEPT !.since = WindowStart(w),
                                                  !.until = RowCountBoundary(journal, w, n)]]
    /\ GoTo(IF CutsTail(run.query) THEN "floor" ELSE "read")
    /\ NoFault
    /\ UNCHANGED <<journal, jobs, state, fresh, checking>>

\* The third raises the lower bound of a tail that may not fit.
FindFloor ==
    /\ pc = "floor"
    /\ LET w == run.cp.watermark
           n == TailAllowance(run.query.tail)
       IN  run' = [run EXCEPT !.query = [@ EXCEPT !.since = TailFloor(journal, w, n)]]
    /\ GoTo("read")
    /\ NoFault
    /\ UNCHANGED <<journal, jobs, state, fresh, checking>>

BoundRead == CountTail \/ FindBoundary \/ FindFloor

RowsRead(rows) == RowsUpTo(rows, run.query.since, run.query.until)

\* What a run makes of the rows its read returned.
TakeUp(rows) ==
    LET eligible == {o \in rows : IsEligible(o, run.cp)}
    IN  IF eligible = {}
          THEN EndRun
          ELSE /\ run' = [run EXCEPT !.candidate = HighWater(eligible),
                                     !.batch = eligible \cap Matching,
                                     !.query = NoQuery]
               /\ GoTo("acquire")

\* The fourth reads between the bounds, whatever is there by now.
ReadJournal ==
    /\ pc = "read"
    /\ TakeUp(RowsRead(journal))
    /\ NoFault
    /\ UNCHANGED <<journal, jobs, state, fresh, checking>>

\* A bound that cannot be found skips the interval, as does a failed read.
ReadFails ==
    /\ pc \in {"boundary", "floor", "read"}
    /\ Fault("read")
    /\ EndRun
    /\ UNCHANGED <<journal, jobs, state, fresh, checking>>

\* The lease replaces whatever lease the object holds.
AcquireLease ==
    /\ pc = "acquire"
    /\ LET leased == [state EXCEPT !.cp.lease = run.candidate]
       IN  \/ Put(leased) /\ GoTo("build") /\ UNCHANGED run
           \/ PutRaises(leased) /\ EndRun
    /\ UNCHANGED <<journal, jobs, checking>>

BuildManifest ==
    /\ pc = "build"
    /\ \/ run.batch # {} /\ NoFault /\ GoTo("submit")
       \/ run.batch = {} /\ NoFault /\ GoTo("release")
       \/ run.batch # {} /\ Fault("build") /\ GoTo("release")
    /\ UNCHANGED <<journal, jobs, state, fresh, run, checking>>

CreateJob ==
    /\ Len(jobs) < MaxJobs
    /\ jobs' = Append(jobs, [status |-> "Active", ops |-> run.batch,
                             low |-> run.cp.watermark])

SubmitJob ==
    /\ pc = "submit"
    /\ CreateJob
    /\ run' = [run EXCEPT !.submitted = Len(jobs) + 1]
    /\ GoTo("clear")
    /\ NoFault
    /\ UNCHANGED <<journal, state, fresh, checking>>

\* A service error creates no job; a timeout may have created one.
SubmitFails ==
    /\ pc = "submit"
    /\ \/ Fault("service")  /\ GoTo("release")  /\ UNCHANGED jobs
       \/ Fault("timeout")  /\ GoTo("release")  /\ CreateJob
       \/ Fault("rejected") /\ GoTo("escalate") /\ UNCHANGED jobs
    /\ UNCHANGED <<journal, state, fresh, run, checking>>

ClearStreak ==
    /\ pc = "clear"
    /\ Attempt([state EXCEPT !.streak = 0])
    /\ GoTo("release")
    /\ UNCHANGED <<journal, jobs, run, checking>>

\* A streak that could not be written is taken for the first.
Escalate ==
    /\ pc = "escalate"
    /\ LET After(n) == IF n >= FailureThreshold THEN "disableLeased" ELSE "release"
           counted  == [state EXCEPT !.streak = @ + 1]
       IN  \/ Put(counted) /\ GoTo(After(counted.streak))
           \/ PutRaises(counted) /\ GoTo(After(1))
    /\ UNCHANGED <<journal, jobs, run, checking>>

DisableLeased ==
    /\ pc = "disableLeased"
    /\ Attempt(Disabled)
    /\ GoTo("release")
    /\ UNCHANGED <<journal, jobs, run, checking>>

\* Mutant: a run that submitted nothing leaves its lease.
ReleasedIfSubmitted ==
    IF run.submitted = NoJob THEN state
    ELSE [state EXCEPT !.cp = AdvanceCheckpoint(@, run.batch, run.candidate)]

\* The release advances the checkpoint it reads, not the one in memory.
Released ==
    [state EXCEPT !.cp = AdvanceCheckpoint(
        @, IF run.submitted = NoJob THEN {} ELSE run.batch, run.candidate)]

ReleaseLease ==
    /\ pc = "release"
    /\ IF run.submitted = NoJob
         THEN Attempt(Released) /\ EndRun
         ELSE /\ \/ Put(Released) /\ GoTo("persist")
                 \/ PutRaises(Released) /\ GoTo("mark")
              /\ UNCHANGED run
    /\ UNCHANGED <<journal, jobs, checking>>

Recorded ==
    LET record  == [failures |-> run.failures, at |-> run.submitted,
                    low |-> run.cp.watermark,
                    diagnosed |-> FALSE, scored |-> FALSE]
        records == RecordSubmission(state.records, run.submitted, record,
                                    run.terminal, state.processed)
        removed == DOMAIN state.records \ DOMAIN records
    IN  [state EXCEPT !.records = records, !.alerted = @ \ removed]

PersistSubmission ==
    /\ pc = "persist"
    /\ Attempt(Recorded)
    /\ GoTo("mark")
    /\ UNCHANGED <<journal, jobs, run, checking>>

\* One best-effort PUT for each job scored in this run.
CommitScored ==
    /\ pc = "mark"
    /\ IF run.scoring = {}
         THEN EndRun /\ NoFault /\ UNCHANGED <<state, fresh>>
         ELSE LET j == First(run.scoring)
              IN  /\ Attempt(MarkedScored(j))
                  /\ run' = [run EXCEPT !.scoring = @ \ {j}]
                  /\ UNCHANGED pc
    /\ UNCHANGED <<journal, jobs, checking>>

Crash ==
    /\ pc # "idle"
    /\ Fault("crash")
    /\ EndRun
    /\ UNCHANGED <<journal, jobs, state, fresh, checking>>

-----------------------------------------------------------------------------
\* Rows become visible out of order by less than JournalDelay.
TagObject(o) ==
    /\ o \notin journal
    /\ \A p \in journal : Time[p] < Time[o] + JournalDelay
    /\ journal' = journal \cup {o}
    /\ UNCHANGED <<jobs, state, fresh, run, pc, checking, faults>>

JobEnds(j, status) ==
    /\ jobs[j].status = "Active"
    /\ jobs' = [jobs EXCEPT ![j].status = status]
    /\ IF status = "Failed" THEN Fault("jobFails") ELSE NoFault
    /\ UNCHANGED <<journal, state, fresh, run, pc, checking>>

\* The checker finds a finished job whose report is overdue, alerts, and then
\* records the alert under the ETag of a read of its own.
CheckerReads(j) ==
    /\ checking = NoJob
    /\ j \in DOMAIN state.records
    /\ j \notin state.alerted \cup state.processed
    /\ Finished(j)
    /\ Fault("overdue")
    /\ checking' = j
    /\ UNCHANGED <<journal, jobs, state, fresh, run, pc>>

CheckerAlerts ==
    /\ checking # NoJob
    /\ checking' = NoJob
    /\ \/ /\ state' = [state EXCEPT !.alerted = @ \cup {checking}]
          /\ fresh' = (pc = "idle")
       \/ UNCHANGED <<state, fresh>>
    /\ UNCHANGED <<journal, jobs, run, pc, faults>>

\* An operator sets "disabled": false in the state object.
Reenable ==
    /\ state.disabled
    /\ state' = [state EXCEPT !.disabled = FALSE]
    /\ fresh' = (pc = "idle")
    /\ UNCHANGED <<journal, jobs, run, pc, checking, faults>>

-----------------------------------------------------------------------------
Init ==
    /\ journal = {}
    /\ jobs = <<>>
    /\ state = EmptyState
    /\ fresh = TRUE
    /\ run = NoRun
    /\ pc = "idle"
    /\ checking = NoJob
    /\ faults = 0

RunStep ==
    \/ StartRun \/ StartRunBlind
    \/ DescribeOutstanding \/ DescribeAgedOut
    \/ \E readable \in BOOLEAN : DescribeTerminal(readable)
    \/ MergeReport \/ ClearAlert \/ DiagnoseReport
    \/ TripBreaker \/ Recover \/ DisableBucket
    \/ BoundRead \/ ReadJournal \/ ReadFails
    \/ AcquireLease \/ BuildManifest
    \/ SubmitJob \/ SubmitFails \/ ClearStreak
    \/ Escalate \/ DisableLeased
    \/ ReleaseLease \/ PersistSubmission \/ CommitScored
    \/ Crash

JobStep == \E j \in Created, status \in {"Complete", "Failed"} : JobEnds(j, status)
CheckerStep == CheckerAlerts \/ \E j \in Created : CheckerReads(j)

Next ==
    \/ RunStep
    \/ \E o \in Op : TagObject(o)
    \/ JobStep
    \/ CheckerStep
    \/ Reenable

Spec == Init /\ [][Next]_vars

-----------------------------------------------------------------------------
\* The state object and the run's memory, over a set of record maps.
StateObjects(maps) ==
    [cp: Checkpoints, records: maps, processed: SUBSET JobIds,
     alerted: SUBSET JobIds, disabled: BOOLEAN, streak: Nat]

Queries ==
    [seen: SUBSET Op, tail: Nat, assumed: BOOLEAN, since: Nat,
     until: Nat \cup {NoBound}]

RunMemories(maps) ==
    [cp: Checkpoints, records: maps, todo: SUBSET JobIds,
     job: JobIds \cup {NoJob}, readable: BOOLEAN, scoring: SUBSET JobIds,
     terminal: SUBSET JobIds, outstanding: SUBSET JobIds, failures: Nat,
     query: Queries, candidate: Nat, batch: SUBSET Op,
     submitted: JobIds \cup {NoJob}]

\* The types of the bucket's stored, remembered and external state.
TypeOK ==
    /\ journal \subseteq Op
    /\ jobs \in Seq(Job) /\ Len(jobs) <= MaxJobs
    /\ state \in StateObjects({state.records}) /\ IsRecordMap(state.records)
    /\ fresh \in BOOLEAN
    /\ run \in RunMemories({run.records}) /\ IsRecordMap(run.records)
    /\ pc \in Steps
    /\ checking \in JobIds \cup {NoJob}
    /\ faults \in Nat

Submitted(o) == \E j \in Created : o \in jobs[j].ops

\* The stored watermark never moves back: not when a run in memory rolled back
\* after a failed job, not when a batch holds late arrivals only, and not when
\* a run follows one that died anywhere (advance_checkpoint, release_lease).
WatermarkNeverRegresses ==
    [][state'.cp.watermark >= state.cp.watermark]_vars

\* No stored record carries a failure counter at the threshold: the run that
\* reaches it disables the bucket instead of submitting (plan_recovery,
\* _apply_recovery_plan), whatever order outcomes, crashes and retries come in.
CounterBelowThreshold ==
    \A j \in DOMAIN state.records : state.records[j].failures < FailureThreshold

\* A tagging operation goes into one job, and into one more at most for each
\* failed job whose rollback lets a read reach it, though every read looks behind the
\* watermark again and a run that fails to submit repeats the rollback
\* (is_eligible, the processed-operation window, _commit_recovery_scored).
TakenOnce ==
    \A o \in Op :
        Cardinality({k \in Created : o \in jobs[k].ops})
            <= 1 + Cardinality({f \in Created :
                                  /\ jobs[f].status = "Failed"
                                  /\ jobs[f].low # Epoch
                                  /\ Time[o] > WindowStart(jobs[f].low)})

\* One job at a time, or with jobs that do not fail, the runs hand an operation
\* over again only after the job that had it last, or one after that, has failed,
\* and once for each failure (plan_recovery, _apply_recovery_plan,
\* _commit_recovery_scored, _select_eligible).
Intake == INSTANCE TagIntake WITH
              visible <- journal,
              batches <- [j \in Created |-> [ops |-> jobs[j].ops,
                                             status |-> jobs[j].status]]
ImplementsIntake == Intake!Spec

\* A visible operation that should replicate is in some job, or a later read
\* still reaches it: the watermark never passes it by more than the lookback
\* (advance_checkpoint, find_row_count_boundary).
NothingSkipped ==
    \A o \in journal \cap Matching :
        Submitted(o) \/ Time[o] > WindowStart(state.cp.watermark)

\* The readmission of a failed job is spent only once it is used: when its
\* record is scored or gone, a later job holds what the job was submitted for
\* (_commit_recovery_scored).  Left out are a first job, which has no watermark
\* to roll back to, and late arrivals from below that watermark.
FailedWorkIsRetried ==
    \A j \in Created :
        /\ jobs[j].status = "Failed"
        /\ jobs[j].low # Epoch
        /\ run.submitted # j
        /\ j \in DOMAIN state.records => state.records[j].scored
        => \A o \in jobs[j].ops :
               Time[o] > jobs[j].low =>
                   \E k \in Created : k > j /\ o \in jobs[k].ops

\* At most MaxConcurrentJobsPerBucket jobs run at once (_process_bucket).
ConcurrencyBound == Cardinality(ActiveJobs) <= MaxConcurrent

\* A run that no PUT fails and that does not die ends without its lease: when
\* nothing is eligible or the limit is reached, when the manifest cannot be
\* built or its build leaves nothing, when the service fails and when a job is
\* submitted (_lease_scope).
LeaseOnlyDuringRun == pc = "idle" => state.cp.lease = NoLease

\* A record leaves the state object only when the bucket is disabled, when the
\* job has finished and its report is read and, with tracking on, merged, or
\* when the map is above its ceiling (_prune_settled_records).
UnreadReportsKept ==
    [][\A j \in DOMAIN state.records \ DOMAIN state'.records :
          \/ state'.disabled
          \/ /\ Finished(j)
             /\ state.records[j].diagnosed
             /\ TrackingOn => j \in state.processed
          \/ Cardinality(DOMAIN state.records) >= Ceiling]_vars

\* Of the rows visible when its tail was counted, a read takes fewer than the
\* cap, the tie at its upper bound left out: though the bounds come from queries
\* over a journal that grows meanwhile, whatever tail lies behind a rolled-back
\* or an ordinary watermark, and whether or not it could be counted.  Only rows
\* that appear during the queries come on top, as the read itself has no limit
\* (_count_lookback_tail, _raise_tail_floor, _read_journal_window).
ReadFitsCap ==
    pc = "read" => FitsCap(RowsRead(run.query.seen), run.query.until)

FailedBefore(j) == {i \in 1..(j - 1) : \A k \in i..(j - 1) : jobs[k].status = "Failed"}

\* The counter a record carries is the number of jobs in a row that failed just
\* before its own, since the bucket last was disabled: no failure is counted
\* twice or missed, whatever a run could not read or do (plan_recovery).
CounterCountsFailures ==
    \A j \in DOMAIN state.records :
        state.records[j].failures = Cardinality(FailedBefore(j)) % FailureThreshold

\* A failed job that brought the counter to the threshold is not put aside
\* before the bucket is disabled (_disable_bucket, _commit_recovery_scored).
BreakerNotLost ==
    \A j \in DOMAIN state.records :
        /\ state.records[j].scored
        /\ jobs[j].status = "Failed"
        => state.records[j].failures + 1 < FailureThreshold

-----------------------------------------------------------------------------
\* A scheduler starts every interval and a started run goes on; every job ends.
Fairness == WF_vars(RunStep) /\ WF_vars(JobStep)

FairSpec == Spec /\ Fairness

\* Every visible operation that should replicate gets into a job, as runs
\* follow one another and transient errors end.
EventuallySubmitted ==
    \A o \in Matching : o \in journal ~> Submitted(o)

\* A failure that brings the counter to the threshold disables the bucket.
BreakerTrips ==
    \A j \in JobIds :
        /\ j \in Created
        /\ jobs[j].status = "Failed"
        /\ j \in DOMAIN state.records
        /\ ~ state.records[j].scored
        /\ state.records[j].failures + 1 = FailureThreshold
        ~> state.disabled

\* What a failed job was submitted for gets into a later job.
FailedEventuallyRetried ==
    \A j \in JobIds, o \in Matching :
        /\ j \in Created
        /\ jobs[j].status = "Failed"
        /\ o \in jobs[j].ops
        /\ jobs[j].low \in 1..(Time[o] - 1)
        ~> \E k \in Created : k > j /\ o \in jobs[k].ops
=============================================================================
