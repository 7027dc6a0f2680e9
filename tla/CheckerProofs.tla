--------------------------- MODULE CheckerProofs ---------------------------
(***************************************************************************)
(* What holds of ReportChecker for every value of its constants: any       *)
(* number of jobs and faults, any thresholds, any jobs that cannot be      *)
(* described.                                                              *)
(***************************************************************************)
EXTENDS ReportChecker, RecordProofs

\* What a submission makes of the records is a map of records.
LEMMA SubmissionTyped ==
  ASSUME DOMAIN records \subseteq JobIds,
         records \in [DOMAIN records -> CheckRecord],
         NEW j \in JobIds, NEW terminal, NEW read
  PROVE  LET next == RecordSubmission(records, j, [at |-> j, diagnosed |-> FALSE],
                                      terminal, read)
         IN  /\ DOMAIN next \subseteq DOMAIN records \cup {j}
             /\ next \in [DOMAIN next -> CheckRecord]
<1> DEFINE new  == [at |-> j, diagnosed |-> FALSE]
           next == RecordSubmission(records, j, new, terminal, read)
<1>1. new \in CheckRecord
  BY DEF CheckRecord
<1> HIDE DEF new
<1>2. /\ next = [k \in DOMAIN next |-> next[k]]
      /\ DOMAIN next \subseteq DOMAIN records \cup {j}
      /\ \A k \in DOMAIN next : next[k] = IF k = j THEN new ELSE records[k]
  BY RecordSubmissionKeeps
<1> HIDE DEF next
<1>3. \A k \in DOMAIN next : next[k] \in CheckRecord
  BY <1>1, <1>2
<1>4. next \in [DOMAIN next -> CheckRecord]
  BY <1>2, <1>3
<1> QED BY <1>2, <1>4 DEF next, new

\* The types of what the jobs and the run change, and of the rest.
RunTyped ==
    /\ jobs \in [JobIds -> Job]
    /\ merging \in JobIds \cup {0}
    /\ DOMAIN records \subseteq JobIds
    /\ records \in [DOMAIN records -> CheckRecord]
    /\ processed \subseteq JobIds
    /\ late \subseteq JobIds

CheckTyped ==
    /\ alerted \subseteq JobIds
    /\ check \in [step: Steps, suppressed: SUBSET JobIds,
                  todo: SUBSET JobIds, job: JobIds \cup {0}]
    /\ alerts \in [JobIds -> Nat]
    /\ unmarked \in [JobIds -> Nat]
    /\ faults \in Nat

\* The record that the checker is at is of a job, and none of those that it has
\* still to visit.
Placed ==
    check.step \in {"confirm", "examine", "publish", "mark"} =>
        check.job \in JobIds /\ check.job \notin check.todo

TypeInv == RunTyped /\ CheckTyped /\ Placed

\* Every step keeps the types.
LEMMA CheckerTypeStep ==
  ASSUME TypeInv, [Next]_kvars
  PROVE  TypeInv'
<1> USE DEF TypeInv
<1>1. ASSUME UNCHANGED <<jobs, merging, records, processed, late>>
      PROVE  RunTyped'
  BY <1>1 DEF RunTyped
<1>2. CASE CheckStep \/ CheckDies
  <2>1. RunTyped'
    <3>1. UNCHANGED <<jobs, merging, records, processed, late>>
      BY <1>2 DEF CheckStep, CheckDies, StartCheck, ReadRecords, NextRecord,
                  ConfirmUnread, ExamineJob, ExamineFails, PublishAlert,
                  PublishFails, MarkAlerted, store
    <3> QED BY <1>1, <3>1
  <2>2. DOMAIN records \subseteq JobIds
    BY DEF RunTyped
  <2>3. CheckTyped' /\ Placed'
    <3> USE DEF store, Fault, NoFault, Proceed, AbandonRecord
    <3> DEFINE Checks == [step: Steps, suppressed: SUBSET JobIds,
                          todo: SUBSET JobIds, job: JobIds \cup {0}]
    <3>0. /\ check \in Checks /\ alerted \subseteq JobIds
          /\ alerts \in [JobIds -> Nat] /\ unmarked \in [JobIds -> Nat]
          /\ faults \in Nat
      BY DEF CheckTyped
    <3>1. faults' \in Nat
      <4>1. faults' = faults \/ faults' = faults + 1
        BY <1>2, Zenon
           DEF CheckStep, CheckDies, StartCheck, ReadRecords, NextRecord,
               ConfirmUnread, ExamineJob, ExamineFails, PublishAlert,
               PublishFails, MarkAlerted
      <4> QED BY <3>0, <4>1
    <3>2. CASE StartCheck
      <4>1. /\ UNCHANGED <<alerted, alerts, unmarked>>
            /\ check' = [step |-> "records", suppressed |-> alerted,
                         todo |-> {}, job |-> 0]
        BY <3>2 DEF StartCheck, Idle
      <4>2. check' \in Checks
        BY <3>0, <4>1 DEF Steps
      <4> QED BY <3>0, <3>1, <4>1, <4>2 DEF CheckTyped, Placed
    <3>3. CASE ReadRecords
      <4>0. alerted' = alerted /\ alerts' = alerts /\ unmarked' = unmarked
        BY <3>3 DEF ReadRecords
      <4>1. \/ check' = Idle
            \/ check' = [check EXCEPT !.step = "next", !.todo = DOMAIN records]
        BY <3>3 DEF ReadRecords
      <4>2. check' \in Checks /\ check'.step \in {"idle", "next"}
        <5>1. CASE check' = Idle
          BY <5>1 DEF Steps, Idle
        <5>2. CASE check' = [check EXCEPT !.step = "next", !.todo = DOMAIN records]
          BY <2>2, <3>0, <5>2 DEF Steps
        <5> QED BY <4>1, <5>1, <5>2
      <4>3. Placed'
        BY <4>2 DEF Placed
      <4> QED BY <3>0, <3>1, <4>0, <4>2, <4>3 DEF CheckTyped
    <3>4. CASE NextRecord
      <4>1. UNCHANGED <<alerted, alerts, unmarked>>
        BY <3>4 DEF NextRecord
      <4>2. CASE check.todo = {}
        <5>1. check' = Idle
          BY <3>4, <4>2 DEF NextRecord
        <5>2. check' \in Checks /\ check'.step = "idle"
          BY <5>1 DEF Idle, Steps
        <5> QED BY <3>0, <3>1, <4>1, <5>2 DEF CheckTyped, Placed
      <4>3. CASE check.todo # {}
        <5>1. PICK j \in check.todo :
                check' = [check EXCEPT !.todo = @ \ {j}, !.job = j,
                                       !.step = IF j \in check.suppressed
                                                  THEN "next" ELSE "confirm"]
          BY <3>4, <4>3 DEF NextRecord
        <5>2. j \in JobIds
          BY <3>0
        <5>3. check' \in Checks /\ check'.job = j /\ check'.todo = check.todo \ {j}
          BY <3>0, <5>1, <5>2 DEF Steps
        <5> QED BY <3>0, <3>1, <4>1, <5>2, <5>3 DEF CheckTyped, Placed
      <4> QED BY <4>2, <4>3
    <3>5. ASSUME NEW next \in Steps, check' = [check EXCEPT !.step = next],
                 check.job \in JobIds /\ check.job \notin check.todo
          PROVE  check' \in Checks /\ Placed'
      BY <3>0, <3>5 DEF Placed
    <3>6. CASE ConfirmUnread \/ ExamineJob \/ ExamineFails \/ PublishFails
      <4>1. UNCHANGED <<alerted, alerts, unmarked>>
        BY <3>6 DEF ConfirmUnread, ExamineJob, ExamineFails, PublishFails
      <4>2. check.job \in JobIds /\ check.job \notin check.todo
        BY <3>6 DEF ConfirmUnread, ExamineJob, ExamineFails, PublishFails, Placed
      <4>3. \E next \in Steps : check' = [check EXCEPT !.step = next]
        BY <3>6 DEF ConfirmUnread, ExamineJob, ExamineFails, PublishFails, Steps
      <4> QED BY <3>0, <3>1, <3>5, <4>1, <4>2, <4>3 DEF CheckTyped
    <3>7. CASE PublishAlert
      <4>1. check.job \in JobIds /\ check.job \notin check.todo
        BY <3>7 DEF PublishAlert, Placed
      <4>2. /\ alerts' \in [JobIds -> Nat] /\ UNCHANGED <<alerted, unmarked>>
            /\ check' = [check EXCEPT !.step = "mark"]
        BY <3>0, <3>7, <4>1 DEF PublishAlert
      <4> QED BY <3>0, <3>1, <3>5, <4>1, <4>2 DEF CheckTyped, Steps
    <3>8. CASE MarkAlerted
      <4>1. check.job \in JobIds /\ check.job \notin check.todo
        BY <3>8 DEF MarkAlerted, Placed
      <4>2. /\ unmarked' \in [JobIds -> Nat] /\ alerted' \subseteq JobIds
            /\ UNCHANGED alerts
        BY <3>0, <3>8, <4>1 DEF MarkAlerted, Marked
      <4>3. \/ check' = [check EXCEPT !.step = "next"]
            \/ check' = [check EXCEPT !.step = "next",
                                      !.suppressed = @ \cup {check.job}]
        BY <3>8 DEF MarkAlerted
      <4>4. check' \in Checks /\ check'.step = "next"
        <5>1. CASE check' = [check EXCEPT !.step = "next"]
          BY <3>0, <5>1 DEF Steps
        <5>2. CASE check' = [check EXCEPT !.step = "next",
                                          !.suppressed = @ \cup {check.job}]
          BY <3>0, <4>1, <5>2 DEF Steps
        <5> QED BY <4>3, <5>1, <5>2
      <4>5. Placed'
        BY <4>4 DEF Placed
      <4> QED BY <3>0, <3>1, <4>2, <4>4, <4>5 DEF CheckTyped
    <3>9. CASE CheckDies
      <4>1. check.step = "mark" => check.job \in JobIds
        BY DEF Placed
      <4>2. /\ unmarked' \in [JobIds -> Nat] /\ UNCHANGED <<alerted, alerts>>
            /\ check' = Idle
        BY <3>0, <3>9, <4>1 DEF CheckDies
      <4>3. check' \in Checks /\ check'.step = "idle"
        BY <4>2 DEF Idle, Steps
      <4> QED BY <3>0, <3>1, <4>2, <4>3 DEF CheckTyped, Placed
    <3> QED BY <1>2, <3>2, <3>3, <3>4, <3>6, <3>7, <3>8, <3>9 DEF CheckStep
  <2> QED BY <2>1, <2>3
<1>3. CASE RunPut \/ Environment
  <2>1. (CheckTyped /\ Placed)'
    <3>1. check' = check /\ alerts' = alerts /\ unmarked' = unmarked
      BY <1>3, Zenon
         DEF RunPut, Environment, SubmitJob, MergeReport, ClearAlert, DiscardSuppression,
             DiagnoseJob, DisableBucket, FinishJob, WriteReport, Tick
    <3>2. alerted' \subseteq alerted /\ (faults' = faults \/ faults' = faults + 1)
      BY <1>3, Zenon
         DEF RunPut, Environment, SubmitJob, MergeReport, ClearAlert, DiscardSuppression,
             DiagnoseJob, DisableBucket, FinishJob, WriteReport, Tick,
             store, Fault, NoFault
    <3> QED BY <3>1, <3>2 DEF CheckTyped, Placed
  <2>2. RunTyped'
    <3>1. ASSUME NEW j \in JobIds, SubmitJob(j) PROVE RunTyped'
      <4>1. jobs' \in [JobIds -> Job]
        BY <3>1 DEF SubmitJob, Job, RunTyped
      <4>2. /\ DOMAIN records' \subseteq JobIds
            /\ records' \in [DOMAIN records' -> CheckRecord]
        BY <3>1, SubmissionTyped DEF SubmitJob, RunTyped
      <4> QED BY <3>1, <4>1, <4>2 DEF SubmitJob, RunTyped
    <3>2. ASSUME NEW j \in JobIds, MergeReport(j) PROVE RunTyped'
      BY <3>2 DEF MergeReport, RunTyped
    <3>3. ASSUME NEW j \in JobIds, DiagnoseJob(j) PROVE RunTyped'
      <4>1. /\ DOMAIN records' = DOMAIN records
            /\ records' \in [DOMAIN records' -> CheckRecord]
        BY <3>3 DEF DiagnoseJob, RunTyped, CheckRecord
      <4> QED BY <3>3, <4>1 DEF DiagnoseJob, RunTyped
    <3>4. CASE ClearAlert
      BY <3>4 DEF ClearAlert, RunTyped
    <3>5. CASE DisableBucket
      BY <3>5 DEF DisableBucket, RunTyped
    <3>6. ASSUME NEW j \in JobIds, FinishJob(j) \/ WriteReport(j)
          PROVE  RunTyped'
      <4>1. jobs' \in [JobIds -> Job]
        BY <3>6 DEF FinishJob, WriteReport, Job, RunTyped
      <4> QED BY <3>6, <4>1 DEF FinishJob, WriteReport, RunTyped, store
    <3>7. CASE Tick
      <4>1. \A a \in Ages : Older(a) \in Ages
        BY CheckerAssumption DEF Older, Ages
      <4>2. jobs' \in [JobIds -> Job]
        <5>1. ASSUME NEW j \in JobIds
              PROVE  [jobs[j] EXCEPT
                        !.ended   = IF Finished(j) THEN Older(@) ELSE @,
                        !.written = IF jobs[j].report # "absent" THEN Older(@) ELSE @]
                     \in Job
          <6>1. jobs[j] \in Job
            BY DEF RunTyped
          <6>2. \A ended, written \in Ages :
                   [jobs[j] EXCEPT !.ended = ended, !.written = written] \in Job
            BY <6>1 DEF Job
          <6>3. jobs[j].ended \in Ages /\ jobs[j].written \in Ages
            BY <6>1 DEF Job
          <6> QED BY <4>1, <6>2, <6>3
        <5> QED BY <3>7, <5>1 DEF Tick
      <4> QED BY <3>7, <4>2 DEF Tick, RunTyped, store
    <3> QED BY <1>3, <3>1, <3>2, <3>3, <3>4, <3>5, <3>6, <3>7
            DEF RunPut, Environment
  <2> QED BY <2>1, <2>2
<1>4. CASE UNCHANGED kvars
  BY <1>4 DEF kvars, RunTyped, CheckTyped, Placed
<1> QED BY <1>2, <1>3, <1>4 DEF Next

LEMMA CheckerTypeInv == Spec => []TypeInv
<1>1. Init => TypeInv
  <2> SUFFICES ASSUME Init PROVE TypeInv
    OBVIOUS
  <2>1. jobs \in [JobIds -> Job]
    BY CheckerAssumption DEF Init, Unborn, Job, Ages, NoTime
  <2>2. RunTyped
    BY <2>1 DEF Init, RunTyped
  <2>3. check = Idle /\ alerted = {} /\ faults = 0
        /\ alerts = [j \in JobIds |-> 0] /\ unmarked = [j \in JobIds |-> 0]
    BY DEF Init
  <2>4. CheckTyped
    BY <2>3 DEF CheckTyped, Idle, Steps
  <2> QED BY <2>2, <2>3, <2>4 DEF TypeInv, Placed, Idle
<1>2. TypeInv /\ [Next]_kvars => TypeInv'
  BY CheckerTypeStep
<1> QED BY <1>1, <1>2, PTL DEF Spec

\* Every variable keeps its type (the state object of src/adapters/state_store.py
\* and the locals of check_report_handler).
THEOREM CheckerTypeOK == Spec => []TypeOK
<1>1. TypeInv => TypeOK
  BY DEF TypeInv, RunTyped, CheckTyped, TypeOK
<1> QED BY <1>1, CheckerTypeInv, PTL

-----------------------------------------------------------------------------
\* Of the steps of the run and of S3, none moves the checker or sends an alert,
\* none adds a mark, and no job is taken back from the processed ones.
LEMMA OthersLeaveTheCheck ==
  ASSUME TypeInv, RunPut \/ Environment
  PROVE  /\ check' = check /\ alerts' = alerts /\ unmarked' = unmarked
         /\ alerted' \subseteq alerted
         /\ processed \subseteq processed' /\ late \subseteq late'
  BY Zenon
     DEF RunPut, Environment, SubmitJob, DiscardSuppression, MergeReport, ClearAlert,
         DiagnoseJob,
         DisableBucket, FinishJob, WriteReport, Tick, store, TypeInv

\* Where the checker is after a step that it takes from one record to the next.
LEMMA StepsBetweenRecords ==
  ASSUME TypeInv, StartCheck \/ ReadRecords \/ NextRecord \/ CheckDies
  PROVE  check'.step \in {"idle", "records", "next", "confirm"}
<1>1. check \in [step: Steps, suppressed: SUBSET JobIds,
                 todo: SUBSET JobIds, job: JobIds \cup {0}]
  BY DEF TypeInv, CheckTyped
<1>2. Idle.step = "idle"
  BY DEF Idle
<1>3. CASE StartCheck
  BY <1>3 DEF StartCheck, Idle
<1>4. CASE ReadRecords
  <2>1. CASE check' = Idle
    BY <1>2, <2>1
  <2>2. CASE check' = [check EXCEPT !.step = "next", !.todo = DOMAIN records]
    BY <1>1, <2>2
  <2> QED BY <1>4, <2>1, <2>2 DEF ReadRecords
<1>5. CASE NextRecord
  <2>1. CASE check.todo = {}
    BY <1>2, <1>5, <2>1 DEF NextRecord
  <2>2. CASE check.todo # {}
    <3>1. PICK j \in check.todo :
            check' = [check EXCEPT !.todo = @ \ {j}, !.job = j,
                                   !.step = IF j \in check.suppressed
                                              THEN "next" ELSE "confirm"]
      BY <1>5, <2>2 DEF NextRecord
    <3> QED BY <1>1, <3>1
  <2> QED BY <2>1, <2>2
<1>6. CASE CheckDies
  BY <1>2, <1>6 DEF CheckDies
<1> QED BY <1>3, <1>4, <1>5, <1>6

\* Whoever is suppressed was alerted: an alert is sent before it is marked.
Published ==
    /\ AlertedWasPublished
    /\ check.step = "mark" => alerts[check.job] > 0

\* A job is not suppressed unless an alert was sent for it
\* (_publish_report_missing_alert before add_alerted_config).
THEOREM CheckerAlertedWasPublished == Spec => []AlertedWasPublished
<1>1. Init => Published
  BY DEF Init, Published, AlertedWasPublished, Idle
<1>2. TypeInv /\ Published /\ [Next]_kvars => Published'
  <2> SUFFICES ASSUME TypeInv, Published, [Next]_kvars PROVE Published'
    OBVIOUS
  <2>1. /\ alerted \subseteq JobIds /\ alerts \in [JobIds -> Nat]
        /\ \A j \in alerted : alerts[j] > 0
        /\ check \in [step: Steps, suppressed: SUBSET JobIds,
                      todo: SUBSET JobIds, job: JobIds \cup {0}]
    BY DEF TypeInv, CheckTyped, Published, AlertedWasPublished
  <2> USE DEF Proceed, AbandonRecord, store
  <2>2. CASE StartCheck \/ ReadRecords \/ NextRecord \/ CheckDies
    <3>1. alerted' = alerted /\ alerts' = alerts
      BY <2>2 DEF StartCheck, ReadRecords, NextRecord, CheckDies
    <3>2. check'.step # "mark"
      BY <2>2, StepsBetweenRecords
    <3> QED BY <2>1, <3>1, <3>2 DEF Published, AlertedWasPublished
  <2>4. CASE ConfirmUnread \/ ExamineJob \/ ExamineFails \/ PublishFails
    <3>1. alerted' = alerted /\ alerts' = alerts
      BY <2>4 DEF ConfirmUnread, ExamineJob, ExamineFails, PublishFails
    <3>2. check'.step # "mark"
      BY <2>1, <2>4 DEF ConfirmUnread, ExamineJob, ExamineFails, PublishFails
    <3> QED BY <2>1, <3>1, <3>2 DEF Published, AlertedWasPublished
  <2>5. CASE PublishAlert
    <3>1. check.job \in JobIds
      BY <2>5 DEF PublishAlert, TypeInv, Placed
    <3>2. /\ alerted' = alerted /\ check'.job = check.job
          /\ alerts'[check.job] > 0 /\ \A j \in JobIds : alerts'[j] >= alerts[j]
      BY <2>1, <2>5, <3>1 DEF PublishAlert
    <3>3. alerts' \in [JobIds -> Nat]
      BY <2>1, <2>5, <3>1 DEF PublishAlert
    <3>4. \A j \in alerted : alerts'[j] > 0
      BY <2>1, <3>2, <3>3
    <3> QED BY <3>2, <3>4 DEF Published, AlertedWasPublished
  <2>6. CASE MarkAlerted
    <3>1. alerts[check.job] > 0 /\ alerts' = alerts
      BY <2>6 DEF MarkAlerted, Published
    <3>2. alerted' \subseteq alerted \cup {check.job}
      BY <2>6 DEF MarkAlerted, Marked
    <3>3. check'.step # "mark"
      BY <2>1, <2>6 DEF MarkAlerted
    <3> QED BY <2>1, <3>1, <3>2, <3>3 DEF Published, AlertedWasPublished
  <2>7. CASE RunPut \/ Environment
    <3>1. check' = check /\ alerts' = alerts /\ alerted' \subseteq alerted
      BY <2>7, OthersLeaveTheCheck
    <3> QED BY <3>1 DEF Published, AlertedWasPublished
  <2>8. CASE UNCHANGED kvars
    BY <2>8 DEF kvars, Published, AlertedWasPublished
  <2> QED BY <2>2, <2>4, <2>5, <2>6, <2>7, <2>8 DEF Next, CheckStep
<1>3. Published => AlertedWasPublished
  BY DEF Published
<1> QED BY <1>1, <1>2, <1>3, CheckerTypeInv, PTL DEF Spec

-----------------------------------------------------------------------------
\* What is overdue is late, or was processed late; the checker examines a job
\* that it found unprocessed, and no time passes until it has alerted.
LateKnown ==
    \A j \in JobIds :
        /\ jobs[j].report = "absent" => jobs[j].written = 0
        /\ jobs[j].report = "absent" /\ jobs[j].ended > MissingAfter => j \in late
        /\ jobs[j].written > UnreadAfter => j \in late \cup processed

LateExamined ==
    /\ check.step = "examine" /\ jobs[check.job].written > UnreadAfter
           => check.job \in late
    /\ check.step = "publish" => check.job \in late

Timely == LateKnown /\ LateExamined /\ TimelyNeverAlerted

\* A job whose report came in time and was read in time is never alerted
\* (is_report_overdue, is_report_unconsumed_overdue, check_report_handler).
THEOREM CheckerTimelyNeverAlerted == Spec => []TimelyNeverAlerted
<1>1. Init => Timely
  <2> SUFFICES ASSUME Init PROVE Timely
    OBVIOUS
  <2>1. \A j \in JobIds : jobs[j] = Unborn /\ alerts[j] = 0
    BY DEF Init
  <2> QED BY <2>1, CheckerAssumption
          DEF Init, Timely, LateKnown, LateExamined, TimelyNeverAlerted,
              Unborn, NoTime, Idle
<1>2. TypeInv /\ Timely /\ [Next]_kvars => Timely'
  <2> SUFFICES ASSUME TypeInv, Timely, [Next]_kvars PROVE Timely'
    OBVIOUS
  <2>1. /\ alerts \in [JobIds -> Nat] /\ jobs \in [JobIds -> Job]
        /\ check \in [step: Steps, suppressed: SUBSET JobIds,
                      todo: SUBSET JobIds, job: JobIds \cup {0}]
        /\ check.step \in {"confirm", "examine", "publish", "mark"} =>
             check.job \in JobIds
    BY DEF TypeInv, CheckTyped, RunTyped, Placed
  <2> USE DEF Proceed, AbandonRecord, store
  <2>2. ASSUME jobs' = jobs, processed' = processed, late' = late
        PROVE  LateKnown'
    BY <2>2 DEF Timely, LateKnown
  <2>3. ASSUME alerts' = alerts, late \subseteq late'
        PROVE  TimelyNeverAlerted'
    BY <2>3 DEF Timely, TimelyNeverAlerted
  <2>4. CASE CheckStep \/ CheckDies
    <3>1. jobs' = jobs /\ processed' = processed /\ late' = late
      BY <2>4 DEF CheckStep, CheckDies, StartCheck, ReadRecords, NextRecord,
                  ConfirmUnread, ExamineJob, ExamineFails, PublishAlert,
                  PublishFails, MarkAlerted
    <3>2. LateKnown'
      BY <2>2, <3>1
    <3>3. CASE PublishAlert
      <4>1. check.job \in late /\ check.job \in JobIds
        BY <2>1, <3>3 DEF PublishAlert, Timely, LateExamined
      <4>2. /\ \A j \in JobIds : j # check.job => alerts'[j] = alerts[j]
            /\ check'.step = "mark"
        BY <2>1, <3>3 DEF PublishAlert
      <4>3. TimelyNeverAlerted'
        BY <3>1, <4>1, <4>2 DEF Timely, TimelyNeverAlerted
      <4> QED BY <3>2, <4>2, <4>3 DEF Timely, LateExamined
    <3>4. CASE ~ PublishAlert
      <4>1. alerts' = alerts
        BY <2>4, <3>4
           DEF CheckStep, CheckDies, StartCheck, ReadRecords, NextRecord,
               ConfirmUnread, ExamineJob, ExamineFails, PublishFails, MarkAlerted
      <4>2. LateExamined'
        <5>1. CASE StartCheck \/ ReadRecords \/ NextRecord \/ CheckDies
          <6>1. check'.step \notin {"examine", "publish"}
            BY <5>1, StepsBetweenRecords
          <6> QED BY <6>1 DEF LateExamined
        <5>3. CASE ConfirmUnread
          <6>1. check' = [check EXCEPT !.step = "next"] \/
                (check.job \notin processed /\ check' = [check EXCEPT !.step = "examine"])
            BY <5>3 DEF ConfirmUnread
          <6>2. check.job \in JobIds
            BY <2>1, <5>3 DEF ConfirmUnread
          <6> QED BY <2>1, <3>1, <6>1, <6>2 DEF LateExamined, Timely, LateKnown
        <5>4. CASE ExamineJob
          <6>1. check' = [check EXCEPT !.step = "next"] \/
                (Overdue(check.job) /\ check' = [check EXCEPT !.step = "publish"])
            BY <5>4 DEF ExamineJob
          <6>2. check.job \in JobIds /\ check.step = "examine"
            BY <2>1, <5>4 DEF ExamineJob
          <6>3. Overdue(check.job) => check.job \in late
            BY <6>2 DEF Overdue, IsReportOverdue, IsReportUnconsumed, Timely,
                        LateKnown, LateExamined
          <6> QED BY <2>1, <3>1, <6>1, <6>3 DEF LateExamined
        <5>5. CASE ExamineFails \/ PublishFails
          <6>1. check'.step = "next"
            BY <2>1, <5>5 DEF ExamineFails, PublishFails
          <6> QED BY <6>1 DEF LateExamined
        <5>6. CASE MarkAlerted
          <6>1. check'.step = "next"
            BY <2>1, <5>6 DEF MarkAlerted
          <6> QED BY <6>1 DEF LateExamined
        <5> QED BY <2>4, <3>4, <5>1, <5>3, <5>4, <5>5, <5>6 DEF CheckStep
      <4> QED BY <2>3, <3>1, <3>2, <4>1, <4>2 DEF Timely
    <3> QED BY <3>3, <3>4
  <2>5. CASE RunPut \/ Environment
    <3>1. /\ check' = check /\ alerts' = alerts
          /\ processed \subseteq processed' /\ late \subseteq late'
      BY <2>5, OthersLeaveTheCheck
    <3>2. TimelyNeverAlerted'
      BY <2>3, <3>1
    <3>3. ASSUME jobs' = jobs PROVE Timely'
      BY <3>1, <3>2, <3>3 DEF Timely, LateKnown, LateExamined
    <3>4. CASE RunPut \/ \E j \in JobIds : FinishJob(j)
      <4>1. \A j \in JobIds : /\ jobs'[j].report = jobs[j].report
                              /\ jobs'[j].written = jobs[j].written
                              /\ jobs'[j].ended = jobs[j].ended
        <5>1. CASE jobs' = jobs
          BY <5>1
        <5>2. ASSUME NEW k \in JobIds, SubmitJob(k) \/ FinishJob(k)
              PROVE  \A j \in JobIds : /\ jobs'[j].report = jobs[j].report
                                       /\ jobs'[j].written = jobs[j].written
                                       /\ jobs'[j].ended = jobs[j].ended
          <6>1. \/ jobs' = [jobs EXCEPT ![k].status = "Active"]
                \/ \E tasks \in {"some", "none"} :
                       jobs' = [jobs EXCEPT ![k].status = "Finished",
                                            ![k].tasks = tasks]
            BY <5>2 DEF SubmitJob, FinishJob
          <6>2. CASE jobs' = [jobs EXCEPT ![k].status = "Active"]
            BY <2>1, <6>2 DEF Job
          <6>3. ASSUME NEW tasks, jobs' = [jobs EXCEPT ![k].status = "Finished",
                                                       ![k].tasks = tasks]
                PROVE  \A j \in JobIds : /\ jobs'[j].report = jobs[j].report
                                         /\ jobs'[j].written = jobs[j].written
                                         /\ jobs'[j].ended = jobs[j].ended
            BY <2>1, <6>3 DEF Job
          <6> QED BY <6>1, <6>2, <6>3
        <5> QED BY <3>4, <5>1, <5>2
                DEF RunPut, MergeReport, ClearAlert, DiagnoseJob, DisableBucket
      <4> QED BY <2>1, <3>1, <3>2, <4>1 DEF Timely, LateKnown, LateExamined
    <3>5. ASSUME NEW k \in JobIds, WriteReport(k) PROVE Timely'
      <4>1. /\ \A j \in JobIds : /\ jobs'[j].written = jobs[j].written
                                 /\ jobs'[j].ended = jobs[j].ended
                                 /\ j # k => jobs'[j].report = jobs[j].report
            /\ jobs'[k].report # "absent"
        BY <2>1, <3>5 DEF WriteReport, Job
      <4> QED BY <2>1, <3>1, <3>2, <4>1 DEF Timely, LateKnown, LateExamined
    <3>6. CASE Tick
      <4>1. \A j \in JobIds : /\ jobs'[j].report = jobs[j].report
                              /\ jobs[j].report = "absent" =>
                                     jobs'[j].written = jobs[j].written
        <5>1. ASSUME NEW j \in JobIds
              PROVE  /\ jobs'[j].report = jobs[j].report
                     /\ jobs[j].report = "absent" => jobs'[j].written = jobs[j].written
          <6>1. jobs[j] \in Job
            BY <2>1
          <6>2. \E ended, written :
                   /\ jobs'[j] = [jobs[j] EXCEPT !.ended = ended, !.written = written]
                   /\ jobs[j].report = "absent" => written = jobs[j].written
            BY <3>6, <6>1 DEF Tick, Job
          <6> QED BY <6>1, <6>2 DEF Job
        <5> QED BY <5>1
      <4>2. \A j \in JobIds :
              \/ jobs'[j].report = "absent" /\ jobs'[j].ended > MissingAfter
              \/ j \notin processed /\ jobs'[j].written > UnreadAfter
              => j \in late'
        BY <3>6 DEF Tick
      <4>3. LateKnown'
        BY <3>1, <4>1, <4>2 DEF Timely, LateKnown
      <4>4. check'.step = "idle"
        BY <3>1, <3>6 DEF Tick
      <4> QED BY <3>2, <4>3, <4>4 DEF Timely, LateExamined
    <3> QED BY <2>5, <3>4, <3>5, <3>6 DEF Environment
  <2>6. CASE UNCHANGED kvars
    BY <2>6 DEF kvars, Timely, LateKnown, LateExamined, TimelyNeverAlerted
  <2> QED BY <2>4, <2>5, <2>6 DEF Next
<1>3. Timely => TimelyNeverAlerted
  BY DEF Timely
<1> QED BY <1>1, <1>2, <1>3, CheckerTypeInv, PTL DEF Spec

-----------------------------------------------------------------------------
\* All alerts for j so far could not be recorded: another is to be sent.
Unrecorded(j) == alerts[j] <= unmarked[j]

\* Nothing is to be sent for j any more: it is suppressed, its report is read,
\* or it has no record.
Closed(j) == j \in alerted \/ j \in processed \/ j \notin DOMAIN records

\* Only jobs that were submitted have records, are checked or alerted for.
Submitted(j) == jobs[j].status # "unborn"

Known ==
    /\ \A j \in DOMAIN records : Submitted(j)
    /\ \A j \in check.todo : Submitted(j)
    /\ check.step \in {"confirm", "examine", "publish", "mark"} => Submitted(check.job)
    /\ \A j \in JobIds : alerts[j] > 0 => Submitted(j)
    /\ merging # 0 => merging \in processed

\* What the checker holds of an alerted job keeps it from alerting again.
Guarded ==
    /\ check.step = "records" => alerted \subseteq check.suppressed
    /\ check.step \notin {"idle", "records"} =>
           \A j \in check.todo \ check.suppressed : Unrecorded(j) \/ j \in processed
    /\ check.step = "confirm" => Unrecorded(check.job) \/ check.job \in processed
    /\ check.step \in {"examine", "publish"} => Unrecorded(check.job)

Accounted ==
    \A j \in JobIds :
        \/ Unrecorded(j)
        \/ /\ alerts[j] <= 1 + unmarked[j]
           /\ Closed(j) \/ (check.step = "mark" /\ check.job = j)

OnceInv == Known /\ Guarded /\ Accounted

\* The steps of the checker preserve the three.
LEMMA CheckStepKeepsOnce ==
  ASSUME TypeInv, OnceInv, CheckStep \/ CheckDies
  PROVE  OnceInv'
<1> USE DEF Proceed, AbandonRecord, store
<1>1. /\ alerts \in [JobIds -> Nat] /\ unmarked \in [JobIds -> Nat]
      /\ check \in [step: Steps, suppressed: SUBSET JobIds,
                    todo: SUBSET JobIds, job: JobIds \cup {0}]
      /\ check.step \in {"confirm", "examine", "publish", "mark"} =>
           check.job \in JobIds /\ check.job \notin check.todo
      /\ DOMAIN records \subseteq JobIds
  BY DEF TypeInv, CheckTyped, RunTyped, Placed
<1>2. jobs' = jobs /\ processed' = processed /\ records' = records /\ merging' = merging
  BY DEF CheckStep, CheckDies, StartCheck, ReadRecords, NextRecord,
         ConfirmUnread, ExamineJob, ExamineFails, PublishAlert,
         PublishFails, MarkAlerted
<1>3. CASE StartCheck
  <2>1. /\ alerted' = alerted /\ alerts' = alerts /\ unmarked' = unmarked
        /\ check'.step = "records" /\ check'.suppressed = alerted
        /\ check'.todo = {} /\ check.step = "idle"
    BY <1>3 DEF StartCheck, Idle
  <2>2. Known'
    BY <1>2, <2>1 DEF OnceInv, Known, Submitted
  <2>3. Guarded'
    BY <2>1 DEF Guarded
  <2>4. Accounted'
    BY <1>2, <2>1 DEF OnceInv, Accounted, Unrecorded, Closed
  <2> QED BY <2>2, <2>3, <2>4 DEF OnceInv
<1>4. ASSUME check' = Idle, alerted' = alerted, alerts' = alerts, unmarked' = unmarked,
             check.step # "mark"
      PROVE  OnceInv'
  <2>1. check'.step = "idle" /\ check'.todo = {}
    BY <1>4 DEF Idle
  <2>2. Known'
    BY <1>2, <1>4, <2>1 DEF OnceInv, Known, Submitted
  <2>3. Guarded'
    BY <2>1 DEF Guarded
  <2>4. Accounted'
    BY <1>2, <1>4 DEF OnceInv, Accounted, Unrecorded, Closed
  <2> QED BY <2>2, <2>3, <2>4 DEF OnceInv
<1>5. CASE ReadRecords
  <2>1. alerted' = alerted /\ alerts' = alerts /\ unmarked' = unmarked
        /\ check.step = "records"
    BY <1>5 DEF ReadRecords
  <2>2. CASE check' = Idle
    BY <1>4, <2>1, <2>2
  <2>3. CASE check' = [check EXCEPT !.step = "next", !.todo = DOMAIN records]
    <3>1. /\ check'.step = "next" /\ check'.todo = DOMAIN records
          /\ check'.suppressed = check.suppressed
      BY <1>1, <2>3
    <3>2. Known'
      BY <1>2, <2>1, <3>1 DEF OnceInv, Known, Submitted
    <3>3. \A j \in DOMAIN records \ check.suppressed :
            Unrecorded(j) \/ j \in processed
      BY <1>1, <2>1 DEF OnceInv, Guarded, Accounted, Closed
    <3>4. Guarded'
      BY <1>2, <2>1, <3>1, <3>3 DEF Guarded, Unrecorded
    <3>5. Accounted'
      BY <1>2, <2>1 DEF OnceInv, Accounted, Unrecorded, Closed
    <3> QED BY <3>2, <3>4, <3>5 DEF OnceInv
  <2> QED BY <1>5, <2>2, <2>3 DEF ReadRecords
<1>6. CASE NextRecord
  <2>1. alerted' = alerted /\ alerts' = alerts /\ unmarked' = unmarked
        /\ check.step = "next"
    BY <1>6 DEF NextRecord
  <2>2. CASE check.todo = {}
    BY <1>4, <1>6, <2>1, <2>2 DEF NextRecord
  <2>3. CASE check.todo # {}
    <3>1. PICK j \in check.todo :
            check' = [check EXCEPT !.todo = @ \ {j}, !.job = j,
                                   !.step = IF j \in check.suppressed
                                              THEN "next" ELSE "confirm"]
      BY <1>6, <2>3 DEF NextRecord
    <3>2. /\ check'.step = IF j \in check.suppressed THEN "next" ELSE "confirm"
          /\ check'.job = j /\ check'.todo = check.todo \ {j}
          /\ check'.suppressed = check.suppressed
      BY <1>1, <3>1
    <3>3. Known'
      BY <1>2, <2>1, <3>2 DEF OnceInv, Known, Submitted
    <3>4. \A k \in check.todo \ check.suppressed : Unrecorded(k) \/ k \in processed
      BY <2>1 DEF OnceInv, Guarded
    <3>5. Guarded'
      BY <1>2, <2>1, <3>2, <3>4 DEF Guarded, Unrecorded
    <3>6. Accounted'
      BY <1>2, <2>1 DEF OnceInv, Accounted, Unrecorded, Closed
    <3> QED BY <3>3, <3>5, <3>6 DEF OnceInv
  <2> QED BY <2>2, <2>3
<1>7. ASSUME check' = [check EXCEPT !.step = "next"],
             check.step \in {"confirm", "examine", "publish"},
             alerted' = alerted, alerts' = alerts, unmarked' = unmarked
      PROVE  OnceInv'
  <2>1. /\ check'.step = "next" /\ check'.todo = check.todo
        /\ check'.suppressed = check.suppressed
    BY <1>1, <1>7
  <2>2. Known'
    BY <1>2, <1>7, <2>1 DEF OnceInv, Known, Submitted
  <2>3. Guarded'
    BY <1>2, <1>7, <2>1 DEF OnceInv, Guarded, Unrecorded
  <2>4. Accounted'
    BY <1>2, <1>7, <2>1 DEF OnceInv, Accounted, Unrecorded, Closed
  <2> QED BY <2>2, <2>3, <2>4 DEF OnceInv
<1>8. CASE ConfirmUnread
  <2>1. alerted' = alerted /\ alerts' = alerts /\ unmarked' = unmarked
        /\ check.step = "confirm"
    BY <1>8 DEF ConfirmUnread
  <2>2. CASE check' = [check EXCEPT !.step = "next"]
    BY <1>7, <2>1, <2>2
  <2>3. CASE check.job \notin processed /\ check' = [check EXCEPT !.step = "examine"]
    <3>1. /\ check'.step = "examine" /\ check'.todo = check.todo
          /\ check'.suppressed = check.suppressed /\ check'.job = check.job
      BY <1>1, <2>3
    <3>2. Known'
      BY <1>2, <2>1, <3>1 DEF OnceInv, Known, Submitted
    <3>3. Unrecorded(check.job)
      BY <2>1, <2>3 DEF OnceInv, Guarded
    <3>4. Guarded'
      BY <1>2, <2>1, <3>1, <3>3 DEF OnceInv, Guarded, Unrecorded
    <3>5. Accounted'
      BY <1>2, <2>1, <3>1 DEF OnceInv, Accounted, Unrecorded, Closed
    <3> QED BY <3>2, <3>4, <3>5 DEF OnceInv
  <2> QED BY <1>8, <2>2, <2>3 DEF ConfirmUnread
<1>9. CASE ExamineJob
  <2>1. alerted' = alerted /\ alerts' = alerts /\ unmarked' = unmarked
        /\ check.step = "examine"
    BY <1>9 DEF ExamineJob
  <2>2. CASE check' = [check EXCEPT !.step = "next"]
    BY <1>7, <2>1, <2>2
  <2>3. CASE check' = [check EXCEPT !.step = "publish"]
    <3>1. /\ check'.step = "publish" /\ check'.todo = check.todo
          /\ check'.suppressed = check.suppressed /\ check'.job = check.job
      BY <1>1, <2>3
    <3>2. Known'
      BY <1>2, <2>1, <3>1 DEF OnceInv, Known, Submitted
    <3>3. Guarded'
      BY <1>2, <2>1, <3>1 DEF OnceInv, Guarded, Unrecorded
    <3>4. Accounted'
      BY <1>2, <2>1, <3>1 DEF OnceInv, Accounted, Unrecorded, Closed
    <3> QED BY <3>2, <3>3, <3>4 DEF OnceInv
  <2> QED BY <1>9, <2>2, <2>3 DEF ExamineJob
<1>10. CASE ExamineFails \/ PublishFails
  BY <1>7, <1>10 DEF ExamineFails, PublishFails
<1>11. CASE PublishAlert
  <2>1. /\ alerted' = alerted /\ unmarked' = unmarked /\ check.step = "publish"
        /\ check.job \in JobIds /\ check.job \notin check.todo
        /\ check'.step = "mark" /\ check'.todo = check.todo
        /\ check'.suppressed = check.suppressed /\ check'.job = check.job
    BY <1>1, <1>11 DEF PublishAlert
  <2>2. /\ alerts'[check.job] = alerts[check.job] + 1
        /\ \A j \in JobIds \ {check.job} : alerts'[j] = alerts[j]
    BY <1>1, <1>11, <2>1 DEF PublishAlert
  <2>3. Unrecorded(check.job) /\ Submitted(check.job)
    BY <2>1 DEF OnceInv, Guarded, Known
  <2>4. Known'
    BY <1>2, <2>1, <2>2, <2>3 DEF OnceInv, Known, Submitted
  <2>5. Guarded'
    BY <1>1, <1>2, <2>1, <2>2 DEF OnceInv, Guarded, Unrecorded
  <2>6. alerts'[check.job] <= 1 + unmarked'[check.job]
    BY <1>1, <2>1, <2>2, <2>3 DEF Unrecorded
  <2>7. Accounted'
    BY <1>2, <2>1, <2>2, <2>6 DEF OnceInv, Accounted, Unrecorded, Closed
  <2> QED BY <2>4, <2>5, <2>7 DEF OnceInv
<1>12. CASE MarkAlerted
  <2>1. /\ alerts' = alerts /\ check.step = "mark"
        /\ check.job \in JobIds /\ check.job \notin check.todo
    BY <1>1, <1>12 DEF MarkAlerted
  <2>2. alerts[check.job] <= 1 + unmarked[check.job]
    BY <1>1, <2>1 DEF OnceInv, Accounted, Unrecorded
  <2>3. CASE /\ alerted' = alerted \cup {check.job}
             /\ check' = [check EXCEPT !.step = "next",
                                       !.suppressed = @ \cup {check.job}]
             /\ unmarked' = unmarked
    <3>1. /\ check'.step = "next" /\ check'.todo = check.todo
          /\ check'.suppressed = check.suppressed \cup {check.job}
      BY <1>1, <2>3
    <3>2. Known'
      BY <1>2, <2>1, <3>1 DEF OnceInv, Known, Submitted
    <3>3. Guarded'
      BY <1>2, <2>1, <2>3, <3>1 DEF OnceInv, Guarded, Unrecorded
    <3>4. Accounted'
      BY <1>2, <2>1, <2>3, <2>2 DEF OnceInv, Accounted, Unrecorded, Closed
    <3> QED BY <3>2, <3>3, <3>4 DEF OnceInv
  <2>4. CASE /\ alerted \subseteq alerted'
             /\ check' = [check EXCEPT !.step = "next"]
             /\ unmarked' = [unmarked EXCEPT ![check.job] = @ + 1]
    <3>1. /\ check'.step = "next" /\ check'.todo = check.todo
          /\ check'.suppressed = check.suppressed
      BY <1>1, <2>4
    <3>2. /\ unmarked'[check.job] = unmarked[check.job] + 1
          /\ \A j \in JobIds \ {check.job} : unmarked'[j] = unmarked[j]
      BY <1>1, <2>1, <2>4
    <3>3. Known'
      BY <1>2, <2>1, <3>1 DEF OnceInv, Known, Submitted
    <3>4. Guarded'
      BY <1>1, <1>2, <2>1, <3>1, <3>2 DEF OnceInv, Guarded, Unrecorded
    <3>5. alerts'[check.job] <= unmarked'[check.job]
      BY <1>1, <2>1, <2>2, <3>2
    <3>6. Accounted'
      BY <1>2, <2>1, <2>4, <3>2, <3>5 DEF OnceInv, Accounted, Unrecorded, Closed
    <3> QED BY <3>3, <3>4, <3>6 DEF OnceInv
  <2>5. \/ /\ alerted' = alerted \cup {check.job}
           /\ check' = [check EXCEPT !.step = "next",
                                     !.suppressed = @ \cup {check.job}]
           /\ unmarked' = unmarked
        \/ /\ alerted \subseteq alerted'
           /\ check' = [check EXCEPT !.step = "next"]
           /\ unmarked' = [unmarked EXCEPT ![check.job] = @ + 1]
    BY <1>12, Zenon DEF MarkAlerted, Marked
  <2> QED BY <2>3, <2>4, <2>5
<1>13. CASE CheckDies
  <2>1. alerted' = alerted /\ alerts' = alerts /\ check' = Idle
    BY <1>13 DEF CheckDies
  <2>2. CASE check.step # "mark"
    BY <1>4, <1>13, <2>1, <2>2 DEF CheckDies
  <2>3. CASE check.step = "mark"
    <3>1. check'.step = "idle" /\ check'.todo = {} /\ check.job \in JobIds
      BY <1>1, <2>1, <2>3 DEF Idle
    <3>2. /\ unmarked'[check.job] = unmarked[check.job] + 1
          /\ \A j \in JobIds \ {check.job} : unmarked'[j] = unmarked[j]
      BY <1>1, <1>13, <2>3, <3>1 DEF CheckDies
    <3>3. Known'
      BY <1>2, <2>1, <3>1 DEF OnceInv, Known, Submitted
    <3>4. Guarded'
      BY <3>1 DEF Guarded
    <3>5. alerts'[check.job] <= unmarked'[check.job]
      BY <1>1, <2>1, <3>1, <3>2 DEF OnceInv, Accounted, Unrecorded
    <3>6. Accounted'
      BY <1>2, <2>1, <3>2, <3>5 DEF OnceInv, Accounted, Unrecorded, Closed
    <3> QED BY <3>3, <3>4, <3>6 DEF OnceInv
  <2> QED BY <2>2, <2>3
<1> QED BY <1>3, <1>5, <1>6, <1>8, <1>9, <1>10, <1>11, <1>12, <1>13 DEF CheckStep

\* So do the PUTs of the run and what S3 does.
LEMMA OthersKeepOnce ==
  ASSUME TypeInv, OnceInv, RunPut \/ Environment
  PROVE  OnceInv'
<1>1. /\ check' = check /\ alerts' = alerts /\ unmarked' = unmarked
      /\ alerted' \subseteq alerted /\ processed \subseteq processed'
  BY OthersLeaveTheCheck
<1>2. jobs \in [JobIds -> Job] /\ DOMAIN records \subseteq JobIds
      /\ alerts \in [JobIds -> Nat] /\ unmarked \in [JobIds -> Nat]
  BY DEF TypeInv, RunTyped, CheckTyped
<1>3. Guarded'
  BY <1>1 DEF OnceInv, Guarded, Unrecorded
<1>4. \A j \in JobIds : Submitted(j) => jobs'[j].status # "unborn"
  <2>1. CASE jobs' = jobs
    BY <2>1 DEF Submitted
  <2>2. ASSUME NEW k \in JobIds, SubmitJob(k) \/ FinishJob(k) \/ WriteReport(k)
        PROVE  \A j \in JobIds : Submitted(j) => jobs'[j].status # "unborn"
    <3>1. CASE SubmitJob(k)
      BY <1>2, <3>1 DEF SubmitJob, Submitted, Job
    <3>2. CASE FinishJob(k)
      <4>1. PICK tasks \in {"some", "none"} :
              jobs' = [jobs EXCEPT ![k].status = "Finished", ![k].tasks = tasks]
        BY <3>2 DEF FinishJob
      <4> QED BY <1>2, <4>1 DEF Submitted, Job
    <3>3. CASE WriteReport(k)
      BY <1>2, <3>3 DEF WriteReport, Submitted, Job
    <3> QED BY <2>2, <3>1, <3>2, <3>3
  <2>3. CASE Tick
    BY <1>2, <2>3 DEF Tick, Submitted, Job
  <2> QED BY <2>1, <2>2, <2>3
          DEF RunPut, Environment, MergeReport, ClearAlert, DiagnoseJob, DisableBucket
<1>5. \A j \in DOMAIN records' : j \in DOMAIN records \/ SubmitJob(j)
  <2>1. CASE records' = records
    BY <2>1
  <2>2. ASSUME NEW k \in JobIds, SubmitJob(k)
        PROVE  DOMAIN records' \subseteq DOMAIN records \cup {k}
    BY <2>2, SubmissionTyped DEF SubmitJob, TypeInv, RunTyped
  <2>3. ASSUME NEW k \in JobIds, DiagnoseJob(k)
        PROVE  DOMAIN records' = DOMAIN records
    BY <2>3 DEF DiagnoseJob
  <2>4. CASE DisableBucket
    BY <2>4 DEF DisableBucket
  <2> QED BY <2>1, <2>2, <2>3, <2>4, Zenon
          DEF RunPut, Environment, MergeReport, ClearAlert, FinishJob, WriteReport,
              Tick, store
<1>6. \A j : SubmitJob(j) => /\ j \in JobIds => jobs[j].status = "unborn"
                             /\ j \in JobIds => jobs'[j].status = "Active"
  BY <1>2 DEF SubmitJob, Job
<1>7. DOMAIN records' \subseteq JobIds /\ check.todo \subseteq JobIds
      /\ (check.step \in {"confirm", "examine", "publish", "mark"} =>
            check.job \in JobIds)
  <2>1. TypeInv'
    BY CheckerTypeStep DEF Next
  <2> QED BY <2>1 DEF TypeInv, RunTyped, CheckTyped, Placed
<1>8. merging' # 0 => merging' \in processed'
  <2>1. merging # 0 => merging \in processed
    BY DEF OnceInv, Known
  <2> QED BY <1>1, <2>1, Zenon
          DEF RunPut, Environment, SubmitJob, DiscardSuppression, MergeReport, ClearAlert,
         DiagnoseJob,
              DisableBucket, FinishJob, WriteReport, Tick, store
<1>9. Known'
  BY <1>1, <1>4, <1>5, <1>6, <1>7, <1>8 DEF OnceInv, Known, Submitted
<1>10. \A j \in JobIds : ~ Unrecorded(j) /\ Closed(j) => Closed(j)'
  <2>1. SUFFICES ASSUME NEW j \in JobIds, ~ Unrecorded(j), Closed(j)
                 PROVE  Closed(j)'
    OBVIOUS
  <2>2. alerts[j] > 0
    BY <1>2, <2>1 DEF Unrecorded
  <2>3. Submitted(j)
    BY <2>2 DEF OnceInv, Known
  <2>4. CASE j \in processed
    BY <1>1, <2>4 DEF Closed
  <2>5. CASE j \notin DOMAIN records
    BY <1>5, <1>6, <2>3, <2>5 DEF Closed, Submitted
  <2>6. CASE j \in alerted
    <3>1. CASE alerted' = alerted
      BY <2>6, <3>1 DEF Closed
    <3>2. CASE ClearAlert
      <4>1. merging \in processed
        BY <3>2 DEF ClearAlert, OnceInv, Known
      <4>2. j = merging \/ j \in alerted'
        BY <2>6, <3>2 DEF ClearAlert
      <4> QED BY <1>1, <4>1, <4>2 DEF Closed
    <3>3. CASE DisableBucket
      BY <3>3 DEF DisableBucket, DiscardSuppression, Closed
    <3>4. ASSUME NEW k \in JobIds, SubmitJob(k) PROVE Closed(j)'
      <4>1. alerted' = alerted \ (DOMAIN records \ DOMAIN records')
        BY <3>4 DEF SubmitJob, DiscardSuppression
      <4> QED BY <2>6, <4>1 DEF Closed
    <3> QED BY <3>1, <3>2, <3>3, <3>4, Zenon
            DEF RunPut, Environment, MergeReport, DiagnoseJob,
                FinishJob, WriteReport, Tick, store
  <2> QED BY <2>1, <2>4, <2>5, <2>6 DEF Closed
<1>11. Accounted'
  BY <1>1, <1>10 DEF OnceInv, Accounted, Unrecorded
<1> QED BY <1>3, <1>9, <1>11 DEF OnceInv

\* A job is alerted once, and once more for each time that its alert could not
\* be recorded (check_report_handler, add_alerted_config, clear_alerted_config,
\* disable_bucket).
THEOREM CheckerAlertOnce == Spec => []AlertOnce
<1>1. Init => OnceInv
  <2> SUFFICES ASSUME Init PROVE OnceInv
    OBVIOUS
  <2>1. /\ \A j \in JobIds : alerts[j] = 0 /\ unmarked[j] = 0
        /\ check.step = "idle" /\ check.todo = {} /\ DOMAIN records = {} /\ merging = 0
    BY DEF Init, Idle
  <2> QED BY <2>1 DEF OnceInv, Known, Guarded, Accounted, Unrecorded
<1>2. TypeInv /\ OnceInv /\ [Next]_kvars => OnceInv'
  <2>1. ASSUME OnceInv, UNCHANGED kvars PROVE OnceInv'
    BY <2>1 DEF kvars, OnceInv, Known, Guarded, Accounted, Unrecorded, Closed,
                Submitted
  <2> QED BY <2>1, CheckStepKeepsOnce, OthersKeepOnce DEF Next
<1>3. TypeInv /\ OnceInv => AlertOnce
  BY DEF TypeInv, CheckTyped, OnceInv, Accounted, Unrecorded, AlertOnce
<1> QED BY <1>1, <1>2, <1>3, CheckerTypeInv, PTL DEF Spec
=============================================================================
