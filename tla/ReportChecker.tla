--------------------------- MODULE ReportChecker ---------------------------
(***************************************************************************)
(* The report-missing checker: check_report_handler of                     *)
(* src/lambda_handler.py, a Lambda function of its own that looks every    *)
(* five minutes for finished jobs whose completion report never came, or   *)
(* was never read, and alerts once for each.  It shares the state object   *)
(* with the run of the bucket, whose PUTs fall between any two of its      *)
(* steps; of the run only these PUTs are here, and CompletionTracking and  *)
(* BucketRun have the rest.  One check ends before the next begins (it has *)
(* a minute, and starts every five), and is short against the thresholds.  *)
(***************************************************************************)
EXTENDS SubmissionRecords

CONSTANTS MaxJobs,        \* bound: jobs ever created
          Undescribable,  \* the jobs that DescribeJob always fails for
          MissingAfter,   \* _REPORT_OVERDUE_THRESHOLD
          UnreadAfter,    \* _REPORT_UNCONSUMED_THRESHOLD
          Faults,         \* the kinds of fault considered
          MaxFaults       \* bound: faults in a behaviour

FaultKinds == {"read", "describe", "publish", "mark", "clear", "crash"}

JobIds == 1..MaxJobs

ASSUME CheckerAssumption ==
    /\ MaxJobs \in Nat \ {0}
    /\ Undescribable \subseteq JobIds
    /\ MissingAfter \in Nat
    /\ UnreadAfter \in Nat
    /\ MissingAfter < UnreadAfter
    /\ Faults \subseteq FaultKinds
    /\ MaxFaults \in Nat

VARIABLES jobs,       \* the jobs of the bucket
          merging,    \* the job whose report the run has just merged, or 0
          records,    \* submission_records
          processed,  \* completion_processed_job_ids
          alerted,    \* completion_report_alerted_configs
          check,      \* what the checker holds in memory, and its next step
          alerts,     \* the alerts sent for each job
          unmarked,   \* those of them that could not be recorded
          late,       \* the jobs whose report came late, or stayed unread for long
          faults      \* the faults so far

kvars == <<jobs, merging, records, processed, alerted, check, alerts, unmarked,
           late, faults>>

store == <<merging, records, processed, alerted>>

-----------------------------------------------------------------------------
\* The invoked tasks that DescribeJob reports: some, or none.  A report may fail
\* its integrity check, or belong to a job without a summary, and is broken then.
\* Ages count from termination and from the LastModified of the report, and stop
\* above every threshold.
NoTime == 0
Ages   == 0..(UnreadAfter + 1)
Job    == [status: {"unborn", "Active", "Finished"},
           tasks: {"some", "none"},
           report: {"absent", "readable", "broken"},
           ended: Ages, written: Ages]

Unborn == [status |-> "unborn", tasks |-> "some", report |-> "absent",
           ended |-> NoTime, written |-> NoTime]

CheckRecord == [at: JobIds, diagnosed: BOOLEAN]
Idle    == [step |-> "idle", suppressed |-> {}, todo |-> {}, job |-> 0]
Steps   == {"idle", "records", "next", "confirm", "examine", "publish", "mark"}

Finished(j) == jobs[j].status = "Finished"
Terminal    == {j \in JobIds : Finished(j)}

\* A job that invoked no task is resolved without a report.
Readable(j) ==
    /\ Finished(j)
    /\ \/ jobs[j].tasks = "none"
       \/ jobs[j].tasks = "some" /\ jobs[j].report = "readable"

Fault(kind) ==
    /\ kind \in Faults
    /\ faults < MaxFaults
    /\ faults' = faults + 1

NoFault == UNCHANGED faults

-----------------------------------------------------------------------------
\* The two conditions that are worth an alert, each on its own clock.
IsReportOverdue(j)    == jobs[j].ended > MissingAfter
IsReportUnconsumed(j) == jobs[j].written > UnreadAfter

\* Mutant: an unread report is measured from the end of its job.
OverdueSinceEnd(j) ==
    IF jobs[j].report = "absent" THEN IsReportOverdue(j)
                                 ELSE jobs[j].ended > UnreadAfter

Overdue(j) ==
    IF jobs[j].report = "absent" THEN IsReportOverdue(j) ELSE IsReportUnconsumed(j)

\* A finished job that invoked a task, or may have.
Examined(j) == Finished(j) /\ jobs[j].tasks # "none"

-----------------------------------------------------------------------------
\* The alerts and the records are two reads, in this order.
StartCheck ==
    /\ check.step = "idle"
    /\ check' = [Idle EXCEPT !.step = "records", !.suppressed = alerted]
    /\ NoFault
    /\ UNCHANGED <<jobs, store, alerts, unmarked, late>>

ReadRecords ==
    /\ check.step = "records"
    /\ \/ check' = [check EXCEPT !.step = "next", !.todo = DOMAIN records] /\ NoFault
       \/ Fault("read") /\ check' = Idle
    /\ UNCHANGED <<jobs, store, alerts, unmarked, late>>

\* Records are visited in the order of the map; a suppressed one is skipped.
NextRecord ==
    /\ check.step = "next"
    /\ IF check.todo = {}
         THEN check' = Idle
         ELSE \E j \in check.todo :
                  /\ \A k \in check.todo : j <= k
                  /\ check' = [check EXCEPT
                                  !.todo = @ \ {j}, !.job = j,
                                  !.step = IF j \in check.suppressed
                                             THEN "next" ELSE "confirm"]
    /\ NoFault
    /\ UNCHANGED <<jobs, store, alerts, unmarked, late>>

Proceed(step) == check' = [check EXCEPT !.step = step]

\* Mutant: what fails for one record ends the check.
AbandonCheck == check' = Idle

\* Each record has its own try block.
AbandonRecord == Proceed("next")

\* completion_job_exists reads the state object again.
ConfirmUnread ==
    /\ check.step = "confirm"
    /\ \/ Proceed(IF check.job \in processed THEN "next" ELSE "examine") /\ NoFault
       \/ Fault("read") /\ AbandonRecord
    /\ UNCHANGED <<jobs, store, alerts, unmarked, late>>

\* DescribeJob, and the HEAD of the report.
ExamineJob ==
    /\ check.step = "examine"
    /\ check.job \notin Undescribable
    /\ \/ /\ Proceed(IF Examined(check.job) /\ Overdue(check.job)
                       THEN "publish" ELSE "next")
          /\ NoFault
       \/ Fault("describe") /\ AbandonRecord
    /\ UNCHANGED <<jobs, store, alerts, unmarked, late>>

ExamineFails ==
    /\ check.step = "examine"
    /\ check.job \in Undescribable
    /\ AbandonRecord
    /\ NoFault
    /\ UNCHANGED <<jobs, store, alerts, unmarked, late>>

\* The log entry and the SNS message.
PublishAlert ==
    /\ check.step = "publish"
    /\ alerts' = [alerts EXCEPT ![check.job] = @ + 1]
    /\ Proceed("mark")
    /\ NoFault
    /\ UNCHANGED <<jobs, store, unmarked, late>>

\* Mutant: the failure is not noticed.
PublishIgnored ==
    /\ check.step = "publish"
    /\ Fault("publish")
    /\ Proceed("mark")
    /\ UNCHANGED <<jobs, store, alerts, unmarked, late>>

PublishFails ==
    /\ check.step = "publish"
    /\ Fault("publish")
    /\ AbandonRecord
    /\ UNCHANGED <<jobs, store, alerts, unmarked, late>>

\* Mutant: the mark is kept under the name of the bucket, 0, not of the job.
MarkedBucket(j) == alerted \cup {0}

Marked(j) == alerted \cup {j}

\* add_alerted_config reads the object afresh and writes it conditionally;
\* the reply of a write may be lost.
MarkAlerted ==
    /\ check.step = "mark"
    /\ \/ /\ alerted' = Marked(check.job)
          /\ check' = [check EXCEPT !.step = "next", !.suppressed = @ \cup {check.job}]
          /\ NoFault
          /\ UNCHANGED unmarked
       \/ /\ Fault("mark")
          /\ AbandonRecord
          /\ unmarked' = [unmarked EXCEPT ![check.job] = @ + 1]
          /\ alerted' \in {alerted, Marked(check.job)}
    /\ UNCHANGED <<jobs, merging, records, processed, alerts, late>>

\* The function dies, with an alert sent and not recorded perhaps.
CheckDies ==
    /\ check.step # "idle"
    /\ Fault("crash")
    /\ check' = Idle
    /\ unmarked' = IF check.step = "mark"
                     THEN [unmarked EXCEPT ![check.job] = @ + 1] ELSE unmarked
    /\ UNCHANGED <<jobs, store, alerts, late>>

CheckStep ==
    \/ StartCheck \/ ReadRecords \/ NextRecord \/ ConfirmUnread \/ ExamineJob
    \/ ExamineFails \/ PublishAlert \/ PublishFails \/ MarkAlerted

-----------------------------------------------------------------------------
\* Mutant: the marks of all earlier records go.
DiscardAllSuppression(remaining) == alerted \ DOMAIN records

\* A record that goes takes its mark with it.
DiscardSuppression(remaining) == alerted \ (DOMAIN records \ DOMAIN remaining)

\* The PUTs of the run.  A submission records its job, and prunes and evicts
\* records of others.
SubmitJob(j) ==
    /\ merging = 0
    /\ jobs[j].status = "unborn"
    /\ \A k \in JobIds : k < j => jobs[k].status # "unborn"
    /\ jobs' = [jobs EXCEPT ![j].status = "Active"]
    /\ records' = RecordSubmission(records, j, [at |-> j, diagnosed |-> FALSE],
                                   Terminal, processed)
    /\ alerted' = DiscardSuppression(records')
    /\ UNCHANGED <<merging, processed, check, alerts, unmarked, late, faults>>

MergeReport(j) ==
    /\ merging = 0
    /\ j \in DOMAIN records \ processed
    /\ Readable(j)
    /\ processed' = processed \cup {j}
    /\ merging' = j
    /\ UNCHANGED <<jobs, records, alerted, check, alerts, unmarked, late, faults>>

\* Right after the merge or never: a run that cannot write it, or dies, leaves
\* the mark of a processed job to go with its record.
ClearAlert ==
    /\ merging # 0
    /\ \/ alerted' = alerted \ {merging} /\ NoFault
       \/ merging \in alerted /\ Fault("clear") /\ UNCHANGED alerted
    /\ merging' = 0
    /\ UNCHANGED <<jobs, records, processed, check, alerts, unmarked, late>>

DiagnoseJob(j) ==
    /\ merging = 0
    /\ j \in DOMAIN records
    /\ ~ records[j].diagnosed
    /\ Readable(j)
    /\ records' = [records EXCEPT ![j].diagnosed = TRUE]
    /\ UNCHANGED <<jobs, merging, processed, alerted, check, alerts, unmarked, late, faults>>

DisableBucket ==
    /\ merging = 0
    /\ records # [j \in {} |-> 0]
    /\ records' = [j \in {} |-> 0]
    /\ alerted' = DiscardSuppression(records')
    /\ UNCHANGED <<jobs, merging, processed, check, alerts, unmarked, late, faults>>

-----------------------------------------------------------------------------
\* Nobody learns what becomes of a job that cannot be described.
FinishJob(j) ==
    /\ jobs[j].status = "Active"
    /\ j \notin Undescribable
    /\ \E tasks \in {"some", "none"} :
           jobs' = [jobs EXCEPT ![j].status = "Finished", ![j].tasks = tasks]
    /\ UNCHANGED <<store, check, alerts, unmarked, late, faults>>

\* S3 writes no report for a job that invoked no task.
WriteReport(j) ==
    /\ Examined(j)
    /\ jobs[j].report = "absent"
    /\ \E report \in {"readable", "broken"} : jobs' = [jobs EXCEPT ![j].report = report]
    /\ UNCHANGED <<store, check, alerts, unmarked, late, faults>>

Older(age) == IF age <= UnreadAfter THEN age + 1 ELSE age

\* A while passes between two checks.
Tick ==
    /\ check.step = "idle"
    /\ jobs' = [j \in JobIds |->
                  [jobs[j] EXCEPT
                     !.ended   = IF Finished(j) THEN Older(@) ELSE @,
                     !.written = IF jobs[j].report # "absent" THEN Older(@) ELSE @]]
    /\ late' = late \cup {j \in JobIds :
                  \/ jobs'[j].report = "absent" /\ jobs'[j].ended > MissingAfter
                  \/ j \notin processed /\ jobs'[j].written > UnreadAfter}
    /\ UNCHANGED <<store, check, alerts, unmarked, faults>>

-----------------------------------------------------------------------------
Init ==
    /\ jobs = [j \in JobIds |-> Unborn]
    /\ merging = 0
    /\ records = [j \in {} |-> 0]
    /\ processed = {}
    /\ alerted = {}
    /\ check = Idle
    /\ alerts = [j \in JobIds |-> 0]
    /\ unmarked = [j \in JobIds |-> 0]
    /\ late = {}
    /\ faults = 0

RunPut ==
    \/ \E j \in JobIds : SubmitJob(j) \/ MergeReport(j) \/ DiagnoseJob(j)
    \/ ClearAlert
    \/ DisableBucket

Environment ==
    \/ \E j \in JobIds : FinishJob(j) \/ WriteReport(j)
    \/ Tick

Next == CheckStep \/ CheckDies \/ RunPut \/ Environment

Spec == Init /\ [][Next]_kvars

-----------------------------------------------------------------------------
\* The types of the stored, remembered and counted things.
TypeOK ==
    /\ jobs \in [JobIds -> Job]
    /\ merging \in JobIds \cup {0}
    /\ DOMAIN records \subseteq JobIds
    /\ records \in [DOMAIN records -> CheckRecord]
    /\ processed \subseteq JobIds
    /\ alerted \subseteq JobIds
    /\ check \in [step: Steps, suppressed: SUBSET JobIds,
                  todo: SUBSET JobIds, job: JobIds \cup {0}]
    /\ alerts \in [JobIds -> Nat]
    /\ unmarked \in [JobIds -> Nat]
    /\ late \subseteq JobIds
    /\ faults \in Nat

\* A job whose report came in time and was read in time is never alerted,
\* however long the job itself took and whatever the run writes meanwhile
\* (is_report_overdue, is_report_unconsumed_overdue: "not a job timestamp").
TimelyNeverAlerted == \A j \in JobIds : alerts[j] > 0 => j \in late

\* A job is not suppressed unless an alert was sent for it: what stops the
\* checker between the two steps repeats an alert and never swallows one
\* (_publish_report_missing_alert before add_alerted_config).
AlertedWasPublished == \A j \in alerted : alerts[j] > 0

\* A job is alerted once, and once more only for each time that its alert could
\* not be recorded: its suppression survives the alerts and the merges of other
\* jobs, and where a mark goes with a record that is pruned, evicted or deleted,
\* no check under way still has the one without the other
\* (check_report_handler, _discard_alert_suppression).
AlertOnce == \A j \in JobIds : alerts[j] <= 1 + unmarked[j]

\* Checks keep starting, and a started one goes on.
FairSpec == Spec /\ WF_kvars(CheckStep)

\* A job that is overdue gets its alert, although other jobs cannot be described
\* and steps fail now and then, unless its report comes or is read, or its
\* record is dropped (the per-record isolation of check_report_handler).
OverdueIsAlerted ==
    \A j \in JobIds \ Undescribable :
        Examined(j) /\ Overdue(j) ~>
            \/ alerts[j] > 0
            \/ j \in processed
            \/ j \notin DOMAIN records
            \/ ~ Overdue(j)
=============================================================================
