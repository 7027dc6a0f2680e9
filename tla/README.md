# TLA+ verification of replicate-on-tag

The solution in `src/` replicates S3 objects when they are tagged. Every few
minutes a Lambda run reads the S3 Metadata journal of each Monitored_Bucket
through Athena, matches the tagging operations against the replication rules,
writes a manifest and submits an S3 Batch Operations job. It keeps all it has to
remember in one JSON state object for each bucket, written with `If-Match`. This
directory models those runs, what they store, and what may happen around them.

Paths in this file are relative to `src/` (the repository root); the Python
package is `src/src/`.

## The system

| Component | State | Operations | Interacts with | Hard about it | What makes it correct |
|---|---|---|---|---|---|
| Interval run (`orchestrator.py`, `_process_bucket`) | memory of one run | disable check, job check, recovery, journal read, lease, manifest, submission, release, record, score | every adapter; the state object | a failure or death between any two PUTs; several jobs out at once | nothing skipped, nothing taken twice, failed work retried |
| Checkpoint logic (`core/checkpoint_logic.py`, `watermark.py`) | watermark, lease, processed-operation window | `is_eligible`, `advance_checkpoint` | run, state store | rows that appear late; ties at a boundary | the window covers what the read reaches again |
| Job recovery (`core/job_recovery.py`) | none (reads records) | `plan_recovery` | run | scoring each job once over many runs | counter counts each streak once; rollback covers the failed range |
| State store (`adapters/state_store.py`) | the state object | conditional read-modify-write of each part | run, checker, operator | ETags, lost replies, ceilings | no write brings the object into a state the code cannot go on from |
| State writer (`orchestrator.py`) | the ETag of the run | one method for each PUT | state store | one stale ETag rejects every later PUT | – |
| Journal read (`adapters/athena_journal_adapter.py`, `core/row_cap_validation.py`) | none | tail count, boundary, tail floor, read: one query after another | run | the row cap, ties at its boundary, a tail that fills it, rows that appear between the queries | always some new rows, never a gap |
| Completion tracking (`core/completion_tracker.py`, `_CompletionHooks`, state store) | items, side maps, scan state, processed job ids | merge, enrich, record scan, quiescence, publish, delete | run, SNS | late reports, a full map of items, refused messages, delete after publish | no outcome lost, none reported too early or, without a fault, twice |
| Report-missing checker (`lambda_handler.py`) | alerted ids | read, examine each record, alert, write | state object, concurrently with runs | stale reads, two clocks, a death between alert and mark | no alert for a report in time, each other alert once |
| Self-reinvocation (`core/reinvocation.py`, `lambda_handler.py`) | depth in the event | decide, invoke | run | a chain without progress; chains that wait for each other | bounded, drains the backlog |
| From rows to a manifest (`core/journal_dedup.py`, `archived_filter.py`, `rule_deriver.py`, `rule_matcher.py`, `manifest_generator.py`, `delete_filter.py`, `adapters/permanent_delete_reader.py`) | none (entries of one run) | deduplicate, filter, match, give each key its slot, drop the deleted, record what was submitted | run, checkpoint | rows delivered twice or late, several versions of a key, the order of the filters | what is billed is what is recorded; each version gets its turn |
| Manifest files, report parsing, serializers, configuration, metrics, deployment | none of their own | conversions and I/O | run | – | – |

Who runs when: the main function has one reserved execution
(`deploy/template.yaml:1700`), so runs follow one another. The checker is a
function of its own and runs beside them, and an operator may edit the state
object. Batch Operations jobs run for as long as they like.

## Modules

| Module | Stands for | Notes |
|---|---|---|
| `Checkpoint` | `checkpoint_logic.py`, `watermark.py` | pure; a watermark is a natural number, an operation has a `Time` |
| `JobRecovery` | `job_recovery.py` | pure; `PlanRecovery(records, outcomes)` |
| `SubmissionRecords` | the map of submission records and its pruning | pure |
| `JournalRead` | row budget and row selection | pure; a read is a set of rows |
| `BucketRun` | the runs of one bucket against state object, journal, jobs, checker, operator | one action for each conditional PUT of the run |
| `TagIntake` | what the runs promise: an operation is handed over again only after a failure | abstract; `BucketRun` implements it |
| `CompletionTracking` | reports merged, scans, quiescence, publish and delete | own, smaller picture of the run; extends `Checkpoint` |
| `OutcomeReport` | what the reports promise: the outcomes of a job become known once and together, wait, and are told once | abstract; `CompletionTracking` implements it |
| `ManifestIntake` | how journal rows become a manifest and what is then recorded as processed | extends `JournalRead`; several rows may tell of one operation |
| `RunChain` | the scheduler, the reserved execution and the self-reinvocation around the runs of `ManifestIntake` | composes; each of its runs takes that module's steps |
| `ReportChecker` | the report-missing checker, with the PUTs of the run between its steps | extends `SubmissionRecords` |
| `MCBucketRun`, `MCCompletionTracking`, `MCManifestIntake`, `MCRunChain`, `MCReportChecker` | small instances for TLC | |
| `JournalProofs`, `RecordProofs` | lemmas about finite sets and the pure modules | TLAPS |
| `BucketRunProofs`, `BucketSafetyProofs`, `BucketSequenceProofs` | theorems about `BucketRun`: with every fault; where PUTs land; where runs keep count of the jobs | TLAPS |
| `TrackingProofs`, `IntakeProofs`, `CheckerProofs` | theorems about `CompletionTracking`, `ManifestIntake` with `RunChain`, `ReportChecker` | TLAPS |

The three views of a run overlap in the checkpoint, which all of them take from
`Checkpoint`, and in the bounds of the read, from `JournalRead`. `BucketRun` has
the faults of its PUTs, crashes and several jobs, and knows one operation for
each row; `ManifestIntake` has what happens to a row and few faults;
`CompletionTracking` has what follows a job.

A definition with the comment `Mutant:` above it is a plausible bug in the
definition that follows; the properties are tried against it.

### How BucketRun corresponds to the code

`state` is the state object: `cp` (checkpoint with lease), `records`
(submission records by job id), `processed`, `alerted`, `disabled`, `streak`
(`submission_failure_streak`). `run` is the memory of `_process_bucket`:
`_JobCheckResult`, the in-memory checkpoint, the bounds of its read, the batch;
`run.query.seen`, the rows visible when the tail was counted, is there for
`ReadFitsCap` and read by no guard. `pc` names the next PUT
or read. `fresh` says whether the ETag held by `StateWriter` is still the
object's: every writer other than the run makes it false, and so does a reply
that was lost, after which every PUT of the run is rejected, as in the code.

| Actions | Code |
|---|---|
| `StartRun`, `StartRunBlind` | `_check_bucket_disabled`, `_prepare_state_and_recovery`; blind when the records cannot be read |
| `DescribeOutstanding`, `DescribeAgedOut`, `DescribeTerminal` | the loop of `_describe_prior_jobs` |
| `MergeReport`, `ClearAlert`, `DiagnoseReport` | the PUTs for a finished job |
| `TripBreaker`, `DisableBucket`, `Recover` | `_apply_recovery_plan`, `_disable_bucket`, the job limit |
| `CountTail`, `FindBoundary`, `FindFloor` (together `BoundRead`) | the three Athena queries of `_read_journal_window` that bound the read: `_count_lookback_tail`, `find_row_count_boundary`, `_raise_tail_floor`; each sees the journal of its own moment |
| `ReadJournal`, `ReadFails` | `read_journal`, which has no LIMIT, and `_select_eligible`; a failed boundary, floor or read ends the run, a failed count does not |
| `AcquireLease`, `BuildManifest`, `SubmitJob`, `SubmitFails`, `ClearStreak`, `Escalate`, `DisableLeased`, `ReleaseLease` | `_lease_scope` and what it encloses |
| `PersistSubmission`, `CommitScored` | the record and the score of failed jobs |
| `Crash` | a Lambda timeout or death between any two of these |
| `CheckerReads`, `CheckerAlerts` | `check_report_handler`, `add_alerted_config` |
| `TagObject`, `JobEnds`, `Reenable` | journal, Batch Operations, operator |

### The other specifications

`ManifestIntake`. `cp` is the stored checkpoint and `run` the memory of one run;
the lease is taken with the read and set free by `ReleaseLease`.

| Actions and operators | Code |
|---|---|
| `BoundRead`, `ReadJournal`, `ReadFails` | `_read_journal_window`, `_select_eligible`, the start of `_leased_manifest_and_submit` |
| `ValidRows`, `Deduplicated`, `EligibleOp`, `Selected` | the steps of `select_eligible_operations`, in their order |
| `Unarchived`, `DerivedRules`, `Matches` | `filter_archived_operations`, `derive_rules`, `match` |
| `Leading`, `OnePerKey`, `Slots` | `_match_and_accumulate`, `ManifestGenerator.accumulate`: the first version in the read takes the slot of its key; an operation stands where its first row does, and rows of one instant come in any order |
| `ReadPermanentDeletes`, `Surviving`, `BuildManifest`, `BuildFails` | `_build_manifest`, `_filter_deleted_entries` |
| `SubmitJob`, `SubmittedRefs`, `ReleaseLease` | `_submit_job`, `build_submitted_refs`, `advance_checkpoint` |
| `TagObject`, `DeleteVersion` | the journal |

`RunChain`. `waiting` holds the invocations that wait for the one execution and
`current` the one that has it. `StartExecution` picks any of them, as Lambda
promises no order; `RunInterval` takes one step of `ManifestIntake`'s run;
`Reinvoke`, `ReinvokeFails` and `Finish` are the end of `handler`. `outcome` is
`RunOutcome`; its fields `stopped`, `before` and `seen` are there for the
properties, and no guard reads them.

`ReportChecker`. `check` is the memory of `check_report_handler`: the alerts it
read first, then the records (`StartCheck`, `ReadRecords`), one record at a time
(`NextRecord`, `ConfirmUnread`, `ExamineJob`), the alert (`PublishAlert`) and its
mark (`MarkAlerted`), which reads the object afresh. `SubmitJob`, `MergeReport`,
`ClearAlert`, `DiagnoseJob` and `DisableBucket` are the PUTs of the run that
touch what the checker reads; a submission that prunes or evicts records, and a
disable, discard the marks of the records that go, in the same PUT
(`DiscardSuppression`). Ages are small numbers that stop above the
thresholds; `MissingAfter` and `UnreadAfter` keep the order of the two clocks of
`completion_tracker.py`. Time does not pass within a check, which has a minute
against thresholds of hours.

`CompletionTracking` keeps the parts of the state object that completion
reports use (`items`, `enriched` for the two side maps, `scan`, `processed`)
and takes a submission with the release of its lease as one step, because
leases and ETags are `BucketRun`'s subject. Times are counted in jobs: a scan
`at` n happened after job n was created and before the next. A merge that would
bring `items` above `ItemCeiling` stores nothing (`Evicts`, `DescribeFinished`;
see `evicting_merge` below). `run.overlooked` is no memory of the run: it holds
the jobs whose record it could not read and those it gave up describing, and
only `AllClearIsTrue` looks at it.

| Actions | Code |
|---|---|
| `StartRun`, `StartRunBlind`, `DescribeOutstanding`, `DescribeAgedOut`, `DescribeFinished`, `Described` | `_describe_prior_jobs` with `on_job_terminal` and `merge_completion_report`, the job limit |
| `ReadJournal`, `ReadFails`, `Enrich`, `RecordScan` | the read with the idle scan, `store_completion_timestamps`, `record_scan_result` |
| `SubmitJob`, `SubmitFails` | lease, submission, release and record as one step |
| `Publish`, `SendReport`, `DeleteItems`, `Crash` | `_run_completion_tracking_interval` |
| `TagObject`, `JobEnds` | journal, Batch Operations |

## What TLC checks

`MaxJobs` is large enough that no passing run ever needs another job: the faults
and the operations bound the jobs by themselves.

| Run | Instance | Properties |
|---|---|---|
| `capped` (`BucketRunCapped`) | four operations, two in one instant, at most three rows read, threshold 3, three transient faults or failed jobs, one job at a time | `NothingSkipped`, `ConcurrencyBound`, `CounterCountsFailures`, `BreakerNotLost`, `ImplementsIntake`, `BreakerTrips` |
| `hostile` (`BucketRunHostile`) | three operations, a cap of two rows, threshold 2, every kind of fault, three of them | `TypeOK`, `ReadFitsCap`, `CounterBelowThreshold`, `WatermarkNeverRegresses` |
| `live` (`BucketRunLive`) | three operations, one that matches nothing, rows up to two instants late, two jobs at a time, three faults | `TakenOnce`, `FailedWorkIsRetried`, `LeaseOnlyDuringRun`, `UnreadReportsKept`, `EventuallySubmitted`, `FailedEventuallyRetried` |
| `intake` (`ManifestIntake`) | eight rows: a version tagged twice, another of its key delivered twice, an object that moves to an archive, a tag that no rule takes, a row without tags; three rules, one disabled and one without tags; a version that may be deleted; one failing call | `TypeOK`, `RefsNeverEmpty`, `ProcessedReached`, `EntriesJustified`, `ArchivedExcluded`, `EventuallyReplicated` |
| `chain` (`RunChain`) | five objects, a cap of two rows, chains of up to three runs, three scheduled triggers, two faults | `ChainTypeOK`, `ChainBounded`, `DrainedUnlessStopped`, `ChainEarned` |
| `checker` (`ReportChecker`) | three jobs, the first of which cannot be described, room for two records, both clocks, every kind of fault, one of them | `TypeOK`, `TimelyNeverAlerted`, `AlertedWasPublished`, `AlertOnce`, `OverdueIsAlerted` |
| `tracking` (`Tracking`) | three operations on two objects, one tagged twice, three jobs, room for one item, every kind of fault but a lost scan, two of them | `TypeOK`, `WholeWave`, `OutcomesKept`, `PublishedOnce`, `AllClearIsTrue`, `ImplementsReport`, `EventuallyReported` |

What they show: without crashes and lost PUTs no operation is skipped; each
failed job costs an operation at most one more submission and always gets it;
the failure counter is exactly the length of the streak; a lease does not
outlive its run and a record does not go before its report was read. With
everything allowed to fail, the watermark still never moves back, the counter
stays below the threshold, and a read takes fewer of the rows that were there
when its tail was counted than the cap, those that share its upper bound aside.
A completion outcome stays until it or a newer one was reported, whatever fails
and however full the map of items is, is reported again only after a run that met
a fault, and is reported in the end. A
manifest never names a version without an operation that calls for it, what the
window remembers was in a manifest, and a submission always leaves something to
remember: the comment at `orchestrator.py:3145` calls this the invariant that
`advance_checkpoint` depends on, and it holds across five filters. A chain of
runs ends, goes on only after progress, and stops only when nothing is left. The
checker never alerts on a report in time, never suppresses an alert it did not
send, and repeats one only when it could not record it, though marks go with
the records that are pruned, evicted or deleted beside it.

Bounds: `Op` and `Time` are three or four rows, which suffices for a late row, a
tie at the cap boundary, a row behind a failed range and one after it.
`Lookback` is 1 or 2 and `JournalDelay` at most that: the code tells its readers
(`README.md:99`) that a capped run may shorten the tail it looks back over, so
the capped instance has a delay that still fits. `Faults` names the kinds a run
may meet and `MaxFaults` how many: two suffice for a failed job whose retry fails, three for
a report unread besides. In `intake`, `JournalDelay` 1 lets a row of an earlier
instant come after a later one and `Lookback` 4 keeps a version waiting for its
key's slot within reach while newer rows move the watermark, which
`README.md:162` asks of the configuration; the row cap is no limit there, as
`capped` and `chain` have it. In `chain`, five rows need three runs of two rows
each, one chain exactly; with a fault, the next trigger's chain goes on from
where the first was cut. The run may come to a standstill there when the triggers
are used up, so deadlock is not checked. In `checker` three jobs against a
ceiling of two records make a submission prune one record and evict another while
the checker works on the third, and one fault makes an alert be repeated, kills a
check or keeps a report away. In `tracking` two objects against room for one item
make merges evict, the object tagged twice gives a late report something to come
after, and two faults suffice for a report that is lost while a message of another
is refused. `hostile` has a cap of two rows, so that a tail of one fills its
allowance and a second one, or a count that fails, cuts it.

Fairness: `WF` of the run's steps and of the jobs' ends. The schedule
(`deploy/template.yaml:1813`) starts a run every interval, a started run goes on
or dies, and a throttled invocation is retried by the scheduler; Batch
Operations jobs end. Nothing is assumed of the journal, the checker, or the
operator, and no step is assumed strongly fair. The fault budget states that
transient errors end. `ManifestIntake` has `WF` of the steps of its runs and
`ReportChecker` of the checker's steps (`deploy/template.yaml` schedules it every
five minutes), for the same reasons; `RunChain` states no liveness, because its
triggers are bounded.

`TakenOnce` counts a rollback as reaching `Lookback` below the failed job's
start, because the code drops window entries there and says so
(`core/job_recovery.py:275-282`). `CounterCountsFailures` is a claim about one job
at a time, `ImplementsIntake` about that or jobs that do not fail: with two, a
later job may fail before an earlier one.

### Where the code and its documentation part

These runs each violate one property; `PROJECT.json` quotes the sentence that
claims it.

| Run | What happens |
|---|---|
| `capped_rollback` | Two jobs fail before one run. The rollback goes to the lower start, a capped read resubmits the first range only, and both jobs are scored; the second range is never read again. |
| `stale_lease` | A run dies holding its lease. Later runs filter what the lease covers, move the watermark on, and the operations age out. |
| `deleted_shadow` | The version that comes first in the read takes its key's slot. When it has been deleted the entry is dropped, no other version takes its place, and every later run repeats this until the other version ages out. |
| `evicting_merge` | The report of a finished job is read while the map of items is at its ceiling. The loop over the evicted items rebinds `key` (`state_store.py:1655`), the PUT goes to an evicted item's key with the ETag of the state object and is refused, and neither the outcomes nor the job's id is stored; each later run tries the same until a publish has made room. |
| `reports_withheld` | The scan count covers operations taken long ago, so a newest row that matches nothing keeps every scan non-empty, and no completion report is sent. |

### Divergences beyond the runs

Met while modelling and left out of the runs to keep them few. Those that name
constants are found by TLC when these are changed in `BucketRunCapped` or
`Tracking`; the others follow from the lines they name.

- *Disable lost.* With `Faults = {"jobFails", "write"}` and
  `FailureThreshold = 2`, `BreakerNotLost` fails: when the write of the disable
  flag fails, `_prepare_state_and_recovery` still commits the scores of the
  failed jobs, and the next run submits. The docstring of `_disable_bucket`
  (`orchestrator.py:1485-1488`) says that the condition is evaluated again.
- *Disabled range.* The breaker disables a bucket whose stored watermark is
  already past the failed range; the rollback is not stored and the record is
  deleted, so re-enabling does not read the range again. The docstring of
  `disable_bucket` (`state_store.py:1366-1370`) says that it does.
- *Unmatched window.* With `RowCap = 2` and three operations at three instants,
  of which only the last matches, `EventuallySubmitted` fails without a fault:
  `advance_checkpoint` leaves the watermark alone when nothing was submitted, so
  a capped read of rows that match nothing is repeated for ever (`README.md:97`:
  "a run always makes progress").
- *Records unread.* With `Faults = {"records"}`, `ConcurrencyBound` fails:
  `orchestrator.py:3216` goes on with no records and submits beside a running
  job. In `CompletionTracking` the report of such a run says `outstanding_jobs` 0
  and not `null` (`docs/completion-reporting.md:91`), whatever runs; the same
  holds after a record whose PUT was lost. `AllClearIsTrue` exempts the jobs
  without a record that the run could read (`run.overlooked`).
- *Record aged out.* A job that cannot be described and whose record is older
  than `_UNDESCRIBABLE_JOB_MAX_AGE` is passed over (`orchestrator.py:1193-1208`)
  and counts as outstanding no more, though it may run: a report can then say 0,
  which `docs/completion-reporting.md:110` takes for the answer to "has
  everything I tagged replicated". `AllClearIsTrue` exempts such a job, too.
  Without the two exemptions the run `tracking` finds both counterexamples.
- *Rows between the count and the read.* The tail count, the boundary, the floor
  and the read are separate queries and the read has no LIMIT
  (`athena_journal_adapter.py:273-281`), so late rows that appear within its
  bounds after the count bring a read above the cap. `ReadFitsCap` is about the
  rows that were there.
- *Re-enabling.* With `FailureThreshold = 1`, `MaxConcurrent = 2`,
  `Faults = {"jobFails"}` `ConcurrencyBound` fails: `disable_bucket` deletes the
  records of running jobs.
- *Checker beside a run.* With `Faults = {"overdue"}`, `LeaseOnlyDuringRun`
  fails: the checker's PUT makes the run's ETag stale and the release of the
  lease is rejected (`lambda_handler.py:974`; the docstring at 808-810 says the
  checker never touches the lease).
- *Alert outlives its record.* With the same fault,
  `state.alerted \subseteq DOMAIN state.records` fails:
  `add_alerted_config` does not look whether the record is still there.
- *Late arrival in a failed job.* `FailedWorkIsRetried` leaves out operations at
  or below the failed job's start. They stay in the processed-operation window
  after the rollback and are not taken again.
- *Archived, with two tag states.* `ArchivedExcluded` assumes that the rows of a
  version agree on its tags. The transition to an archive has the newest tags,
  so a row of an earlier tag state has another identity
  (`core/models.py:159-187`), does not collapse with it and reaches the
  manifest.
- *Archived only.* The comment at `orchestrator.py:2010-2013` says that the
  watermark moves past archived objects; when nothing else in the window is
  submitted, `advance_checkpoint` leaves it where it is.
- *Transition above the watermark.* A row that is newer than the watermark is
  eligible although its operation is in the window (`is_eligible` looks into the
  window only at or below the watermark), so a later row of a processed
  operation, such as a lifecycle transition to a class that replicates, is
  billed again. `EntriesJustified` allows it for a row that is newer.
- *Null version.* `permanent_delete_reader.py:103-119` takes any write of the
  null version in the window for its supersession, and not only a later one.
- *Alert repeated.* `add_alerted_config` may fail after the message went out,
  and the next check sends it again; `AlertOnce` counts these.
- *Second condition suppressed.* A job alerted as "missing" is not alerted again
  when its report comes and cannot be read: the mark is per job and not per
  reason (`lambda_handler.py:879-895`).
- *Disable ends the checks.* The checker looks at records only, and disabling
  the bucket deletes them: a report pending then is never alerted
  (`OverdueIsAlerted` allows it).
- *Lost scan result.* With `Faults = {"scan", "report"}`, `WholeWave` fails,
  which the comment at `orchestrator.py:3604-3610` rules out.
- *Metadata dropped.* `\A o \in DOMAIN state.items : state.items[o].enriched`
  fails without any fault: deleting the published item of an object drops the
  side-map entries its next job's report needs.
- *Older outcome last.* An older job's report read after the newer outcome was
  published and deleted creates the item again, and it is published after the
  newer one (`state_store.py:1602-1609` compares only with an item that exists).

## What TLAPS proves

For every set of operations and timestamps, every lookback, row cap, threshold,
limit, ceiling, bound on jobs and faults, every kind of fault, every set of rules,
versions, keys and tags, every chain limit and both overdue thresholds:

| Theorem | Property | Where |
|---|---|---|
| `BucketRunProofs`: `TypeCorrect` | `Spec => []TypeOK` | |
| `WatermarkMonotone` | `Spec => WatermarkNeverRegresses` | |
| `CounterBounded` | `Spec => []CounterBelowThreshold` | |
| `ReportsKept` | `Spec => UnreadReportsKept` | |
| `ReadsFit` | `Spec => []ReadFitsCap` | |
| `BucketSafetyProofs`: `LeaseGivenBack` | `Spec => []LeaseOnlyDuringRun` | `RunsRelease` |
| `NoneSkipped` | `Spec => []NothingSkipped` | `RunsRelease`, the lookback covers the delay, `TailFits` |
| `EachTakenOnce` | `Spec => []TakenOnce` | `TakesLand` |
| `BucketSequenceProofs`: `LimitKept` | `Spec => []ConcurrencyBound` | `JobsCounted` |
| `RunsImplementIntake` | `Spec => ImplementsIntake` | `JobsCounted` |
| `CountersExact` | `Spec => []CounterCountsFailures` | `FailuresCounted` |
| `BreakerKept` | `Spec => []BreakerNotLost` | `FailuresCounted` |
| `FailedIsRetried` | `Spec /\ []Enabled => []FailedWorkIsRetried` | `RunsCount`, `NewRowsFit` |
| `IntakeProofs`: `IntakeTypeOK` | `Spec => []TypeOK` | |
| `IntakeRefsNeverEmpty` | `Spec => []RefsNeverEmpty` | |
| `IntakeProcessedReached` | `Spec => []ProcessedReached` | |
| `IntakeEntriesJustified` | `Spec => []EntriesJustified` | |
| `IntakeArchivedExcluded` | `Spec => []ArchivedExcluded` | |
| `ChainTypes` | `ChainSpec => []ChainTypeOK` | |
| `ChainsAreBounded` | `ChainSpec => []ChainBounded` | |
| `ChainsAreEarned` | `ChainSpec => ChainEarned` | |
| `ChainsDrain` | `ChainSpec => []DrainedUnlessStopped` | `PlainBacklog` |
| `TrackingProofs`: `TrackingTypeCorrect` | `Spec => []TypeOK` | |
| `OutcomesStay` | `Spec => OutcomesKept` | |
| `ReportedOnce` | `Spec => PublishedOnce` | |
| `RunsImplementReport` | `Spec => ImplementsReport` | |
| `AllClearTold` | `Spec => AllClearIsTrue` | |
| `WavesPublishedWhole` | `Spec => []WholeWave` | scans are stored |
| `CheckerProofs`: `CheckerTypeOK` | `Spec => []TypeOK` | |
| `CheckerTimelyNeverAlerted` | `Spec => []TimelyNeverAlerted` | |
| `CheckerAlertedWasPublished` | `Spec => []AlertedWasPublished` | |
| `CheckerAlertOnce` | `Spec => []AlertOnce` | |

Assumptions: those stated as `ASSUME` in the modules that declare the constants:
operations are finitely many and have positive times, the threshold is positive
and the row cap at least 2, two rows of one operation have different sequence
numbers, and the clock of a missing report is the shorter one.

A theorem with an entry under *Where* states it as its hypothesis. Each is a
condition on the constants that leaves out kinds of fault, or configurations, that
can break the property, and the run that checks the property satisfies it, so that
the theorem takes the run's instance to every value of the other constants. (A
hypothesis names all faults of the kind it is about, so it may leave out one with
which a single one of its theorems would still hold.) `Enabled`, that nothing has
disabled the bucket, is the one condition on the behaviour; the instance of `live`
meets it by a threshold that its faults cannot reach.

| Hypothesis | Leaves out | What happens with it |
|---|---|---|
| `RunsRelease` | a lost or overtaken PUT, a death, a refused manifest | `stale_lease`, *Checker beside a run*; a run that disables over a refused manifest and is overtaken by the operator keeps its lease |
| `TailFits` | a tail that does not fit the share of the cap it has | a shortened tail does not reach back by the whole lookback (`README.md:99`) |
| `TakesLand` | a lost or overtaken PUT, a death, `CreateJob` timing out | a job that the stored checkpoint does not know of; `TakesLand` allows refused manifests |
| `RunsCount` | the same, unread records and a record aged out of `DescribeJob` | *Records unread*; a failed job without a record is not retried |
| `JobsCounted` | with `RunsCount`, failing jobs and refused manifests when more than one job may run | *Re-enabling* |
| `NewRowsFit` | more rows than a read's budget above some watermark | `capped_rollback`: a capped read ends below what the failed job had |
| `Enabled` | the bucket's being disabled | *Disabled range* |
| `OneAtATime` | with `JobsCounted`, `MaxConcurrent > 1` | a later job may fail before an earlier one |
| `FailuresCounted` | with `OneAtATime`, a refused manifest | the disable over a refused manifest leaves the streak to start over |
| `PlainBacklog` | all but one row and rule for each object, of different times | `deleted_shadow`, and a version that waits for its key's slot |
| `"scan" \notin Faults` | a lost scan result, in `CompletionTracking` | *Lost scan result* |

### BucketRun

`TypeOK` is not inductive, since a step on a job indexes the records
the run read. `TypeInv` adds `MemoryCoherent`: the jobs the run still has to
describe and those it will score are among its records, the job at hand is one
of them, and a run about to record has created a job. `AttemptWrites` shows that
a PUT leaves the object as it was or as it was to be, whatever its fate, and one
lemma for each group of steps shows that they keep `TypeInv`. `StateSteps` then
lists all the ways a step changes checkpoint and records, so that the watermark
needs one lemma about `advance_checkpoint` (`AdvanceCheckpointMonotone`) and not
one for each action. `CounterInv` strengthens `CounterBelowThreshold` to what a
run carries: the records in memory and the seeded counter are below the
threshold too, which is inductive because the run that would reach the
threshold takes the disable path (`PlanRecoveryBelowThreshold`). For
`UnreadReportsKept` the run's belief that a job has finished must still be true
when it prunes, many steps after the `DescribeJob`: `JobsInv` says that records
and submissions are of jobs that exist and that each job the run holds for
terminal has finished, and `JobsStep` that a finished job stays so.
`RecordSubmissionRemoves` then gives the only reasons a record goes: it is
settled, or the eviction found more records than the ceiling.

`ReadsFit` is about sets of rows chosen by queries that the code writes in SQL
and issues one after another. `QueryInv` says what each of them has found, against
a set of rows of its own that has all the count saw: the count is of the rows seen
or stands for a tail that is to be cut (`CountFound`), the upper bound is the
boundary of some larger set (`BoundaryFound`), and the lower one the window start
or the floor of some larger set (`FloorFound`). `SmallUpToEachTime` and
`SmallFromEachTime` say that below a boundary, and above a floor, there are fewer
rows than the budget, because both are the first timestamp at which the count
reaches it; this holds of the rows seen as they are part of the set that the bound
was found over (`BoundedReadFitsCap`, `FloorFitsSeen`). Ties are why the boundary
itself may have more. `BudgetFitsCap` adds the two budgets up to the cap.

**Where PUTs land** (`BucketSafetyProofs`). `PutInv` says when an ETag may be out
of date: without lost replies and alerts of the checker only an operator who enables
a bucket that the run has just disabled takes it, and then the run can do no more
than end (`Stale`).

- *The lease.* `LeaseInv`: a lease is stored only from its acquisition to its
  release (`Leased`), the checkpoint in memory has none, and a run with a stale
  ETag is past its release. A refused manifest is out (`Unrefused`), as the run
  that disables over it releases after the object may have changed.
- *Nothing skipped.* `SkipInv`: the watermark is the time of a visible row, no
  stored or remembered `watermark_low` and no rolled-back checkpoint is above it,
  the windows hold submitted operations only, and a run from its read to its
  release has in its batch, or finds in a job, every matching row up to the
  lookback behind its candidate (`TakeUpTakesAll`, from `ReadStartsAtWindow` for
  the rows of the read). A row that appears later is above that by the delay
  (`LateRowInWindow`).
- *Taken once.* The property counts jobs against failures, so something must be
  used up by each repetition. `Spent` says that a failed job is: its record is gone
  or scored, or the run that scores it has submitted. `WindowInv` has every
  operation of every released job in the stored window or behind any read,
  `TakenInv` says that an operation in hand is free or within reach of a job the
  run scores, and bounds the takers by the spent jobs; a submission spends at
  least one, and `SpentStays` that no step gives it back.

**Where runs keep count of the jobs** (`BucketSequenceProofs`).

- *The limit.* `RecordedInv`: a job that runs is in the records, or its record is
  about to be written; the run knows all records, sorts each into running or
  finished, and goes on only with room for one more. The delicate step is the
  persist: `PersistKeepsOpen` shows that pruning and eviction take no open record
  because there are at most as many of them as the ceiling allows, for any
  headroom. `LimitInv` adds the bound itself and that nothing runs when a run is
  about to disable the bucket.
- *The intake.* `OrderInv`: with one job at a time every job but the newest is
  finished and spent. So an operation that a run submits for a second time was
  readmitted by the failure of the newest job, which no later one followed: it is
  not in hand (`SubmittedIsNotInHand`), and the submission is the intake's
  `HandOver`. With several jobs at a time, none of which fails, no operation is
  submitted a second time. Every other step is `Appear`, `End` or a stutter (`IntakeStep`).
- *The counter and the breaker.* A counter is written by one run, seeded from the
  newest record, several steps after the outcome was read. `NewestRecorded` says
  when there is no newest record (the breaker took it, with the count),
  `CounterInHand` that the run holds the count its job will carry,
  `NewestUnscored` that only a job another has followed is put aside,
  `TripStartsOver` that the failures which disable the bucket come to a multiple
  of the threshold, `ScoringBelow` that a run which goes on has not seen the last
  failure. `CarriedNext` says how the count goes on over one more job.
- *The retry.* `RetryInv`: a failed job that is spent has its work in a later job.
  From the rollback to the submission the run has that work before it and then in
  hand (`InHand`): the rollback goes down to every failed job it scores
  (`RollsBackFor`), and a read from there has all that is above (`ReadStartsBelow`,
  `ReadUnbounded`).
  `SpentBySubmission` says that the submission of the run that scores it is the
  only step that spends a failed job: a record that is dropped was scored or of a
  job found finished in a run that scores it (`Scorable`), and the marks follow the
  submission. This fails when the bucket is disabled, hence `Enabled`.

### ManifestIntake and RunChain

`IntakeInv` is `TypeOK`, the two properties about the window and the manifests,
and what relates the run's memory to the rest. `RunCoherent`: the checkpoint the
run started from is still the stored one but for the lease, its operations are
what the filters leave of its rows by that checkpoint, its entries are versions
of matching operations among them, and what it submitted is the last manifest.
`ManifestsCoherent`: each submitted manifest is of that form, and the operations
it took are behind the watermark, and in the window unless no read reaches them
any more (`RememberedBy`); only the manifest of the run that is yet to release
its lease is not remembered. `AdvanceRemembers` carries this over
`advance_checkpoint`. That an
operation is billed again only by a newer row then comes down to
`EligibleIsNewer`: an eligible row of an operation that a manifest has had is
above the watermark, and the watermark has passed all the rows of that manifest.
`RefsNeverEmpty` follows because an entry that survives the deletes has kept its
operation. `ArchivedExcluded` follows from the order of the filters: among rows
that agree on their tags the newest of the version is the newest of the
operation.

Every step of `ChainNext` is a step of `ManifestIntake`, or leaves its variables
alone but for the count of faults (`ChainStepIsIntakeStep`), so `IntakeInv` holds
along a chain. `Counted` says that a waiting invocation is as deep as the number of runs its trigger has led to, and
the executing one a run less deep, so a trigger never has two invocations at
once. `Remembers` says that what the handler keeps of the start of its run
is the checkpoint the run holds, and that a run which asks for another has moved
away from it: `SubmissionMoves`, by which a submission moves the checkpoint, is
`RefsNeverEmpty` with `advance_checkpoint`, and gives `ChainEarned`.

`DrainedUnlessStopped` needs to know that a run which met no fault leaves nothing
behind unless its read was capped. With one row, one matching rule and one key for
each operation (`PlainBacklog`) a row of the read is in the manifest or was
replicated (`PlainSelected`, `PlainSlots`); `IntakeReaches` says of every visible
row that it is in hand, replicated or still within reach, the counterpart of
`SkipInv`; and `DrainInv` carries what the invocation saw at its start to its
decision: a capped read is answered by another run, an uncapped one has taken all
of it, and the decision not to go on is taken only then.

### CompletionTracking

`TypeInv` adds to the types that records, processed ids and the jobs a run has to
describe are of jobs that exist, and that items and accepted reports are of merged
jobs (`JobsKnown`), and that a report is about stored items, those it covers
accepted by SNS (`ReportCoherent`). `ItemSteps` lists the three ways the items
change: not at all, by a merge that lands, or by the deletion of what is covered;
`OutcomesKept` holds of each, with every fault and for every ceiling, since a
merge that evicts is not among them. For `PublishedOnce`, `StoredStep` says that an
outcome that becomes stored is of a job that was not merged, and so was never
reported, and `EndStep` that a run which ends without a fault has deleted what it
covered. `OutstandingKnown` gives `AllClearIsTrue`: a running job is among those
the run still has to describe, found outstanding, or overlooked. `ScanCurrent`
gives `WholeWave`: a scan that counted nothing is later than every job, since the
run that submits stores a positive count before.

`RunsImplementReport` maps the processed ids to the jobs `learned`, the reports
SNS accepted to what was `told`, and the stored outcomes without these to what is
`untold`. A message accepted is a `Tell` of what it holds that was not told before
(`SendTells`), deleting what it covers changes nothing of the three
(`DeleteForgets`), and a merge is a `Learn` (`MergeLearns`): a row of the report is
kept out exactly when a newer outcome of its object is stored (`ResolvedExactly`),
which is `outdated` there whether that one waits or has been told and is yet to be
deleted. `OutcomeReport` lets an older outcome of an object be told after a newer
one, because the code does: once the newer one is published and deleted, nothing
tells a late report from a first one.

### ReportChecker

Each theorem has its own strengthening of `TypeOK` by what the checker holds
between two steps. `LateKnown` and `LateExamined`: a job that is past a clock is
`late` or processed, and the one at hand stays `late` although its report is
written or merged meanwhile. `Published`: a job about to be marked has been
alerted. `Guarded` and `Accounted`: a job alerted once more than it was left
unmarked is marked, processed or without a record, or just about to be marked,
and the check that is under way has read enough of this not to examine it again.

### Only model-checked

Liveness (`EventuallySubmitted`, `BreakerTrips`, `FailedEventuallyRetried`,
`EventuallyReplicated`, `EventuallyReported`, `OverdueIsAlerted`), which rests on
fairness and `ENABLED` and is out of the prover's reach. Every safety invariant and
action property of a run is the subject of a theorem, and so are the refinements of
`TagIntake` and `OutcomeReport`.

## Not modelled

- `Checkpoint`: `WindowStart` does not go below `Epoch`, as `subtract`
  (`core/watermark.py:160`) does; no row has a time at or below `Epoch`, so that
  no read tells the difference.
- `ManifestIntake` and `RunChain`: rows that appear between the queries that bound
  a read, which are one step there and four in `BucketRun`; deaths, lost PUTs and failed jobs, which `BucketRun` has;
  null versions; the reading of the replication configuration, priorities and
  destinations; tag parsing; the choice of manifest strategy and the layout of
  the files. In `BucketRun` and `CompletionTracking` the constant `Matching`
  stands for all of it, and a failing build is the fault `build`.
- `RunChain`: several buckets in one run; an invocation that waits for longer
  than its event may, or that Lambda delivers twice.
- `ReportChecker`: its journal-unavailable alert, several buckets, and an entry
  that is logged before the message fails.
- `BucketRun`: `AllTasksFailed` and `Cancelled` jobs are the status `Failed`,
  as `is_effective_failure` treats them; a merge that evicts is a merge whose PUT
  is rejected, the fault `write`; a checkpoint that cannot be read ends
  the run before it did anything; PUTs of report metadata are `CompletionTracking`'s.
- `CompletionTracking`: a read has no cap; `CreateJob` does not time out; the
  report of a job gives one outcome to all its
  objects; rows appear in the order of their timestamps; failed jobs are not
  rolled back; settled records are not pruned; the side maps have no ceiling of
  their own; a death before the publish phase is `BucketRun`'s; items left by
  release 1.0.1 and the wording of reports are left out. A report is cut into
  messages in every possible way, which includes `chunk_items_for_report`'s.
- Serialization, paging, polling, metrics, logging, configuration, deployment.

## Plan

Left for later:

1. Extend: the side-map ceilings and pruned records in `CompletionTracking`; null
   versions in `ManifestIntake`; the journal-unavailable alert.
2. Specify: the ETag chain of `StateWriter` as the refinement of an atomic store.
3. Prove: the counters and the breaker with refused manifests; `FailedWorkIsRetried` across a disabled and
   re-enabled bucket for the jobs that failed afterwards.
