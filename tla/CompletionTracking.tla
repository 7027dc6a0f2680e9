------------------------- MODULE CompletionTracking -------------------------
(***************************************************************************)
(* Completion tracking of one Monitored_Bucket: a run merges the reports   *)
(* of finished jobs into completion_items, records what its scan of the    *)
(* journal found, submits, and at its end publishes the items that are     *)
(* quiescent and deletes what was published (src/orchestrator.py,          *)
(* src/core/completion_tracker.py, src/adapters/state_store.py).           *)
(*                                                                         *)
(* Leases, rollbacks and the ETag chain are BucketRun's: here a submission *)
(* with the release of its lease is one step, and a PUT that fails is a    *)
(* fault.  Times are counted in jobs: a scan at n happened after job n was *)
(* created and before job n + 1 was.                                       *)
(***************************************************************************)
EXTENDS Checkpoint, Functions, Sequences

CONSTANTS Object,         \* the object versions, keys of completion_items
          ObjectOf,       \* the object version an operation tagged
          Matching,       \* the operations that match a rule
          MaxConcurrent,  \* MaxConcurrentJobsPerBucket
          ItemCeiling,    \* COMPLETION_SIDE_MAP_CEILING
          MaxJobs,        \* bound: jobs ever created
          Faults,         \* the kinds of fault considered
          MaxFaults       \* bound: faults in a behaviour

FaultKinds == {"records", "record", "describe", "aged", "report", "merge",
               "read", "enrich", "scan", "build", "items", "refused", "delete",
               "lostReply", "crash"}

ASSUME CompletionAssumption ==
    /\ IsFiniteSet(Object)
    /\ ObjectOf \in [Op -> Object]
    /\ Matching \subseteq Op
    /\ MaxConcurrent \in Nat \ {0}
    /\ ItemCeiling \in Nat \ {0}
    /\ MaxJobs \in Nat \ {0}
    /\ Faults \subseteq FaultKinds
    /\ MaxFaults \in Nat

VARIABLES journal,   \* the operations whose row Athena returns
          jobs,      \* the Batch Operations jobs ever created, in order
          state,     \* the bucket's state object
          run,       \* what the run holds in memory
          pc,        \* the next step of the run
          sent,      \* the reports SNS ever accepted, as [object, job]
          faults     \* the faults so far

vars == <<journal, jobs, state, run, pc, sent, faults>>

-----------------------------------------------------------------------------
JobIds == 1..MaxJobs
Created == DOMAIN jobs

Outcomes == {"COMPLETE", "FAILED"}
Job == [objects: SUBSET Object, status: {"Active"} \cup Outcomes]
\* Mutant: a job whose status was read counts as ended.
FinishedWhateverStatus(j) == TRUE
Finished(j) == jobs[j].status # "Active"

\* A TrackedObject, with the job whose report resolved it last.
Item == [job: JobIds, outcome: Outcomes, enriched: BOOLEAN]
NoItems == [o \in {} |-> {}]

\* ScanState; a bucket that was never scanned is not quiescent.
NeverScanned == [at |-> 0, count |-> 1]

EmptyState == [cp |-> EmptyCheckpoint, records |-> {}, processed |-> {},
               items |-> NoItems, enriched |-> {}, scan |-> NeverScanned]

\* overlooked is no part of the run's memory: the jobs it cannot count.
NoRun == [todo |-> {}, outstanding |-> {}, overlooked |-> {}, batch |-> {},
          candidate |-> Epoch, pending |-> {}, covered |-> {}]

Steps == {"idle", "describe", "read", "enrich", "scan", "submit", "publish",
          "send", "delete"}

Fault(kind) ==
    /\ kind \in Faults
    /\ faults < MaxFaults
    /\ faults' = faults + 1

NoFault == UNCHANGED faults

GoTo(step) == pc' = step
EndRun == GoTo("idle") /\ run' = NoRun

\* A PUT that either lands or is lost to the run.
Write(next, kind) ==
    \/ state' = next /\ NoFault
    \/ Fault(kind) /\ UNCHANGED state

-----------------------------------------------------------------------------
\* The rows a run reads, and those of them it may take.
Window   == {o \in journal : Time[o] > WindowStart(state.cp.watermark)}
Eligible == {o \in Window : IsEligible(o, state.cp)}
Tagged(ops) == {ObjectOf[o] : o \in ops}

\* The preflight count is a query of its own over the window, and covers what
\* was taken from it before.
PreflightCount == Cardinality(Tagged(Window \cap Matching))

\* A scan after the job that found nothing: the job's wave is over.
\* Mutant: the scan's count is not looked at.
QuiescentUncounted(j) == state.scan.at >= j
\* Mutant: the scan must be later than the first job after j.
QuiescentLater(j) == state.scan.at > j /\ state.scan.count = 0
Quiescent(j) == state.scan.at >= j /\ state.scan.count = 0

Publishable == {o \in DOMAIN state.items : Quiescent(state.items[o].job)}

\* A row of a report replaces an older job's outcome, never a newer one's.
\* Mutant: a report that comes late replaces a newer one.
Overwrites(items, o, j) == TRUE
Supersedes(items, o, j) == o \in DOMAIN items => items[o].job <= j

\* What the report of job j makes of the items.
Resolved(items, j) ==
    [o \in DOMAIN items \cup jobs[j].objects |->
        IF o \in jobs[j].objects /\ Supersedes(items, o, j)
          THEN [job      |-> j,
                outcome  |-> jobs[j].status,
                enriched |-> IF o \in DOMAIN items THEN items[o].enriched
                             ELSE o \in state.enriched]
          ELSE items[o]]

\* Above the ceiling a merge evicts the oldest items, its report's own never.
Evicts(j) ==
    LET ids == DOMAIN Resolved(state.items, j)
    IN  Cardinality(ids) > ItemCeiling /\ ids # jobs[j].objects

\* Mutant: the job is not recorded as merged.
MergedOnly(j) == [state EXCEPT !.items = Resolved(@, j)]

\* One PUT holds the outcomes and the processed job id.
Merged(j) == [state EXCEPT !.items     = Resolved(@, j),
                           !.processed = @ \cup {j}]

\* Mutant: what was not accepted goes too.
DeletedAll == [state EXCEPT !.items    = Restrict(@, DOMAIN @ \ Publishable),
                            !.enriched = @ \ Publishable]
\* The published items go, with the side maps' entries of their objects.
Deleted == [state EXCEPT !.items    = Restrict(@, DOMAIN @ \ run.covered),
                         !.enriched = @ \ run.covered]

-----------------------------------------------------------------------------
Begin(records) ==
    /\ pc = "idle"
    /\ run' = [NoRun EXCEPT !.todo = records, !.overlooked = Created \ records]
    /\ GoTo("describe")
    /\ UNCHANGED <<journal, jobs, state, sent>>

StartRun == Begin(state.records) /\ NoFault

\* The records cannot be read and the run goes on without them.
StartRunBlind == Begin({}) /\ Fault("records")

\* Mutant: a job that cannot be described does not count as outstanding.
DescribeSkipped(j) ==
    /\ pc = "describe"
    /\ j \in run.todo
    /\ \/ /\ ~ Finished(j)
          /\ NoFault
          /\ run' = [run EXCEPT !.todo = @ \ {j}, !.outstanding = @ \cup {j}]
       \/ Fault("describe") /\ run' = [run EXCEPT !.todo = @ \ {j}]
    /\ UNCHANGED <<journal, jobs, state, pc, sent>>

DescribeOutstanding(j) ==
    /\ pc = "describe"
    /\ j \in run.todo
    /\ \/ ~ Finished(j) /\ NoFault
       \/ Fault("describe")
    /\ run' = [run EXCEPT !.todo = @ \ {j}, !.outstanding = @ \cup {j}]
    /\ UNCHANGED <<journal, jobs, state, pc, sent>>

\* A job that cannot be described and whose record is two weeks old, running or
\* not, is passed over and counts no more.
DescribeAgedOut(j) ==
    /\ pc = "describe"
    /\ j \in run.todo
    /\ Fault("aged")
    /\ run' = [run EXCEPT !.todo = @ \ {j}, !.overlooked = @ \cup {j}]
    /\ UNCHANGED <<journal, jobs, state, pc, sent>>

\* A finished job is merged once, when its report is ready and the PUT lands.
\* The PUT of a merge that evicts goes to the key of an evicted item, where the
\* ETag of the state object matches nothing: it is refused, and nothing merged.
DescribeFinished(j) ==
    /\ pc = "describe"
    /\ j \in run.todo
    /\ Finished(j)
    /\ run' = [run EXCEPT !.todo = @ \ {j}]
    /\ \/ j \in state.processed /\ NoFault /\ UNCHANGED state
       \/ j \notin state.processed /\ ~ Evicts(j) /\ Write(Merged(j), "merge")
       \/ j \notin state.processed /\ Evicts(j) /\ NoFault /\ UNCHANGED state
       \/ j \notin state.processed /\ Fault("report") /\ UNCHANGED state
    /\ UNCHANGED <<journal, jobs, pc, sent>>

\* At the limit the bucket's work is deferred; its items are still published.
Described ==
    /\ pc = "describe"
    /\ run.todo = {}
    /\ GoTo(IF Cardinality(run.outstanding) >= MaxConcurrent THEN "publish" ELSE "read")
    /\ NoFault
    /\ UNCHANGED <<journal, jobs, state, run, sent>>

Scanned(n) == [state EXCEPT !.scan = [at |-> Len(jobs), count |-> n]]

\* With nothing to take the scan is idle, and recorded as such.
ReadJournal ==
    /\ pc = "read"
    /\ IF Eligible = {}
         THEN /\ Write(Scanned(0), "scan")
              /\ GoTo("publish")
              /\ UNCHANGED run
         ELSE /\ run' = [run EXCEPT !.batch = Eligible \cap Matching,
                                    !.candidate = HighWater(Eligible)]
              /\ GoTo("enrich")
              /\ NoFault
              /\ UNCHANGED state
    /\ UNCHANGED <<journal, jobs, sent>>

ReadFails ==
    /\ pc = "read"
    /\ Fault("read")
    /\ GoTo("publish")
    /\ UNCHANGED <<journal, jobs, state, run, sent>>

\* When and why the matched objects were tagged, for the report to come.
Enrich ==
    /\ pc = "enrich"
    /\ IF run.batch = {}
         THEN NoFault /\ UNCHANGED state
         ELSE Write([state EXCEPT !.enriched = @ \cup Tagged(run.batch)], "enrich")
    /\ GoTo("scan")
    /\ UNCHANGED <<journal, jobs, run, sent>>

\* The preflight count is recorded before a manifest is built.
RecordScan ==
    /\ pc = "scan"
    /\ \/ /\ Write(Scanned(PreflightCount), "scan")
          /\ GoTo(IF run.batch = {} THEN "publish" ELSE "submit")
       \/ Fault("build") /\ GoTo("publish") /\ UNCHANGED state
    /\ UNCHANGED <<journal, jobs, run, sent>>

\* The job, the checkpoint behind it, and the job's record.
SubmitJob ==
    /\ pc = "submit"
    /\ Len(jobs) < MaxJobs
    /\ jobs' = Append(jobs, [objects |-> Tagged(run.batch), status |-> "Active"])
    /\ LET cp == AdvanceCheckpoint(state.cp, run.batch, run.candidate)
           j  == Len(jobs) + 1
       IN  /\ \/ state' = [state EXCEPT !.cp = cp, !.records = @ \cup {j}] /\ NoFault
              \/ state' = [state EXCEPT !.cp = cp] /\ Fault("record")
           /\ run' = [run EXCEPT !.outstanding = @ \cup {j}]
    /\ GoTo("publish")
    /\ UNCHANGED <<journal, sent>>

SubmitFails ==
    /\ pc = "submit"
    /\ Fault("build")
    /\ GoTo("publish")
    /\ UNCHANGED <<journal, jobs, state, run, sent>>

-----------------------------------------------------------------------------
\* The publish phase reads the items and the scan anew, if it can.
Publish ==
    /\ pc = "publish"
    /\ \/ Publishable = {} /\ NoFault /\ EndRun
       \/ /\ Publishable # {}
          /\ run' = [run EXCEPT !.pending = Publishable]
          /\ GoTo("send")
          /\ NoFault
       \/ Fault("items") /\ EndRun
    /\ UNCHANGED <<journal, jobs, state, sent>>

\* A report is cut into messages; one that SNS refuses leaves its items.
SendReport(objects) ==
    /\ pc = "send"
    /\ objects # {}
    /\ \/ /\ sent' = sent \cup {[object |-> o, job |-> state.items[o].job] : o \in objects}
          /\ run' = [run EXCEPT !.pending = @ \ objects, !.covered = @ \cup objects]
          /\ NoFault
       \/ /\ Fault("refused")
          /\ run' = [run EXCEPT !.pending = @ \ objects]
          /\ UNCHANGED sent
    /\ GoTo(IF run.pending = objects THEN "delete" ELSE "send")
    /\ UNCHANGED <<journal, jobs, state>>

DeleteItems ==
    /\ pc = "delete"
    /\ IF run.covered = {}
         THEN NoFault /\ UNCHANGED state
         ELSE \/ Write(Deleted, "delete")
              \/ state' = Deleted /\ Fault("lostReply")
    /\ EndRun
    /\ UNCHANGED <<journal, jobs, sent>>

\* The process may die while it publishes; before that it is BucketRun's.
Crash ==
    /\ pc \in {"publish", "send", "delete"}
    /\ Fault("crash")
    /\ EndRun
    /\ UNCHANGED <<journal, jobs, state, sent>>

-----------------------------------------------------------------------------
\* Rows appear in the order of their timestamps here.
TagObject(o) ==
    /\ o \notin journal
    /\ \A p \in journal : Time[p] <= Time[o]
    /\ journal' = journal \cup {o}
    /\ UNCHANGED <<jobs, state, run, pc, sent, faults>>

\* A job ends and its report says one thing of all its objects.
JobEnds(j, outcome) ==
    /\ ~ Finished(j)
    /\ jobs' = [jobs EXCEPT ![j].status = outcome]
    /\ UNCHANGED <<journal, state, run, pc, sent, faults>>

-----------------------------------------------------------------------------
Init ==
    /\ journal = {}
    /\ jobs = <<>>
    /\ state = EmptyState
    /\ run = NoRun
    /\ pc = "idle"
    /\ sent = {}
    /\ faults = 0

RunStep ==
    \/ StartRun \/ StartRunBlind
    \/ \E j \in run.todo :
           DescribeOutstanding(j) \/ DescribeAgedOut(j) \/ DescribeFinished(j)
    \/ Described \/ ReadJournal \/ ReadFails \/ Enrich \/ RecordScan
    \/ SubmitJob \/ SubmitFails
    \/ Publish
    \/ \E objects \in SUBSET run.pending : SendReport(objects)
    \/ DeleteItems
    \/ Crash

JobStep == \E j \in Created, outcome \in Outcomes : JobEnds(j, outcome)

Next ==
    \/ RunStep
    \/ \E o \in Op : TagObject(o)
    \/ JobStep

Spec == Init /\ [][Next]_vars

-----------------------------------------------------------------------------
\* The types of what is stored, remembered and reported.
TypeOK ==
    /\ journal \subseteq Op
    /\ jobs \in Seq(Job) /\ Len(jobs) <= MaxJobs
    /\ state \in [cp: Checkpoints, records: SUBSET JobIds, processed: SUBSET JobIds,
                  items: {state.items}, enriched: SUBSET Object,
                  scan: [at: 0..MaxJobs, count: Nat]]
    /\ DOMAIN state.items \subseteq Object
    /\ state.items \in [DOMAIN state.items -> Item]
    /\ run \in [todo: SUBSET JobIds, outstanding: SUBSET JobIds,
                overlooked: SUBSET JobIds, batch: SUBSET Op, candidate: Nat,
                pending: SUBSET Object, covered: SUBSET Object]
    /\ pc \in Steps
    /\ sent \subseteq [object: Object, job: JobIds]
    /\ faults \in Nat

\* The outcomes that are stored, and whether a report of one was accepted.
Stored == {[object |-> o, job |-> state.items[o].job] : o \in DOMAIN state.items}

Reported(o, j) == \E s \in sent : s.object = o /\ s.job >= j

\* An outcome leaves the state object only after a report of it, or of a newer
\* one, was accepted, or for a newer outcome of its object, whichever reports
\* come late, are refused, or are followed by a failure or the death of the run,
\* and however full the map is (merge_completion_report,
\* delete_completion_items).
OutcomesKept ==
    [][\A o \in DOMAIN state.items :
          \/ o \in DOMAIN state'.items /\ state'.items[o].job >= state.items[o].job
          \/ Reported(o, state.items[o].job)]_vars

\* An outcome that was reported and is gone never comes back, and one stays
\* behind its report, to be reported again, only where the run met a fault or
\* died (completion_job_exists, delete_completion_items).
PublishedOnce ==
    [][/\ \A s \in sent : s \in Stored' => s \in Stored
       /\ pc # "idle" /\ pc' = "idle" /\ faults' = faults
            => run.covered \cap DOMAIN state'.items = {}]_vars

\* A report that counts no outstanding job goes out only when every job has
\* ended, but for those without a record that the run could read, and those it
\* could not describe for two weeks (_describe_prior_jobs,
\* build_completion_report).
AllClearIsTrue ==
    [][run'.covered # run.covered /\ run.outstanding = {}
          => \A j \in Created \ run.overlooked : Finished(j)]_vars

\* The items of a bucket are quiescent together or not at all
\* (_run_completion_tracking_interval on the count it does not report).
WholeWave == pc = "publish" => Publishable \in {{}, DOMAIN state.items}

\* A finished job whose report is read is merged by the run that reads it,
\* unless a call fails (the docstring of merge_completion_report).
MergeLands ==
    [][\A j \in run.todo \ run'.todo :
          Finished(j) /\ faults' = faults => j \in state'.processed]_vars

-----------------------------------------------------------------------------
Untold == Stored \ sent

Report == INSTANCE OutcomeReport WITH
    Job <- JobIds,
    learned <- state.processed, untold <- Untold, told <- sent

\* However reports come late, are cut, refused or sent again, and whatever a run
\* could not read, store or delete, merging and publishing are the learning and
\* the telling of OutcomeReport (merge_completion_report,
\* _run_completion_tracking_interval, delete_completion_items).
ImplementsReport == Report!Spec

-----------------------------------------------------------------------------
\* A scheduler starts every interval and a started run goes on; every job ends.
FairSpec == Spec /\ WF_vars(RunStep) /\ WF_vars(JobStep)

\* Every object of every job that has a record is reported on in the end, though
\* the map of items is full as often as not (_run_completion_tracking_interval).
EventuallyReported ==
    \A j \in JobIds, o \in Object :
        j \in state.records /\ o \in jobs[j].objects ~> Reported(o, j)
=============================================================================
