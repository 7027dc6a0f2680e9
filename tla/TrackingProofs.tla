--------------------------- MODULE TrackingProofs ---------------------------
(***************************************************************************)
(* What holds of CompletionTracking for every value of its constants: any  *)
(* objects, operations and ceiling, any bound on jobs and faults.          *)
(***************************************************************************)
EXTENDS CompletionTracking, JournalProofs, SequenceTheorems

\* The maps of tracked objects as a set, and TypeOK over it.
ItemMaps == UNION {[ids -> Item] : ids \in SUBSET Object}

StateObject ==
    [cp: Checkpoints, records: SUBSET JobIds, processed: SUBSET JobIds,
     items: ItemMaps, enriched: SUBSET Object, scan: [at: 0..MaxJobs, count: Nat]]

RunMemory ==
    [todo: SUBSET JobIds, outstanding: SUBSET JobIds, overlooked: SUBSET JobIds,
     batch: SUBSET Op, candidate: Nat, pending: SUBSET Object, covered: SUBSET Object]

Typed ==
    /\ journal \subseteq Op
    /\ jobs \in Seq(Job) /\ Len(jobs) <= MaxJobs
    /\ state \in StateObject
    /\ run \in RunMemory
    /\ pc \in Steps
    /\ sent \subseteq [object: Object, job: JobIds]
    /\ faults \in Nat

\* Only jobs that exist are recorded, described and merged, and what is stored or
\* was reported is the outcome of a merged job.
JobsKnown ==
    /\ state.records \subseteq Created
    /\ state.processed \subseteq Created
    /\ run.todo \subseteq Created
    /\ \A o \in DOMAIN state.items : state.items[o].job \in state.processed
    /\ \A s \in sent : s.job \in state.processed

\* A report is about items that are stored, and what it covers was accepted.
ReportCoherent ==
    /\ run.pending \cup run.covered \subseteq DOMAIN state.items
    /\ run.pending \cup run.covered # {} => pc \in {"send", "delete"}
    /\ \A o \in run.covered : [object |-> o, job |-> state.items[o].job] \in sent

TypeInv == Typed /\ JobsKnown /\ ReportCoherent

USE DEF JobIds

-----------------------------------------------------------------------------
\* An item map is a function from object versions to items.
LEMMA ItemMapsAre ==
  ASSUME NEW f
  PROVE  f \in ItemMaps <=> DOMAIN f \subseteq Object /\ f \in [DOMAIN f -> Item]
BY DEF ItemMaps

\* The job ids in use are those of the sequence of jobs.
LEMMA CreatedAre ==
  ASSUME Typed
  PROVE  /\ Created = 1..Len(jobs) /\ Len(jobs) \in 0..MaxJobs
         /\ Created \subseteq JobIds
         /\ \A j \in Created : jobs[j] \in Job
<1>1. jobs \in Seq(Job) /\ Len(jobs) <= MaxJobs /\ MaxJobs \in Nat
  BY CompletionAssumption DEF Typed
<1>2. Len(jobs) \in Nat /\ DOMAIN jobs = 1..Len(jobs)
  BY <1>1, LenProperties
<1>3. \A j \in Created : jobs[j] \in Job
  BY <1>1, <1>2, ElementOfSeq DEF Created
<1> QED BY <1>1, <1>2, <1>3 DEF Created

\* The objects a finite set of operations tagged are a finite set.
LEMMA TaggedFinite ==
  ASSUME NEW ops \in SUBSET Op
  PROVE  Tagged(ops) \subseteq Object /\ IsFiniteSet(Tagged(ops))
<1>1. IsFiniteSet(ops) /\ ops \subseteq DOMAIN ObjectOf /\ ObjectOf \in [Op -> Object]
  BY CheckpointAssumption, CompletionAssumption, FS_Subset
<1> QED BY <1>1, ImageFinite DEF Tagged

\* The memory of a run that has not read anything.
LEMMA NoRunTyped ==
  /\ NoRun \in RunMemory
  /\ NoRun.todo = {} /\ NoRun.outstanding = {} /\ NoRun.overlooked = {}
  /\ NoRun.batch = {}
  /\ NoRun.pending = {} /\ NoRun.covered = {}
BY DEF NoRun, RunMemory, Epoch

\* The empty state object and an idle run satisfy the type invariant.
LEMMA TypeInit == Init => TypeInv
<1>1. EmptyCheckpoint \in Checkpoints
  BY DEF EmptyCheckpoint, Checkpoints, Epoch, NoLease
<1>2. NoItems \in ItemMaps /\ DOMAIN NoItems = {}
  BY ItemMapsAre DEF NoItems
<1>3. EmptyState \in StateObject
  BY <1>1, <1>2, CompletionAssumption DEF EmptyState, StateObject, NeverScanned
<1>4. <<>> \in Seq(Job) /\ Len(<<>>) <= MaxJobs
  BY CompletionAssumption
<1> QED BY <1>2, <1>3, <1>4, NoRunTyped
        DEF Init, TypeInv, Typed, JobsKnown, ReportCoherent, Steps, EmptyState

-----------------------------------------------------------------------------
\* The report of a finished job is merged into a map of items: each of its own
\* objects then has an outcome at least as new, and no other item changes
\* (merge_completion_report).
LEMMA ResolvedTyped ==
  ASSUME TypeInv, NEW j \in Created, Finished(j)
  PROVE  LET next == Resolved(state.items, j)
         IN  /\ next \in ItemMaps
             /\ DOMAIN next = DOMAIN state.items \cup jobs[j].objects
             /\ \A o \in DOMAIN state.items :
                    next[o].job >= state.items[o].job
             /\ \A o \in DOMAIN next :
                    \/ next[o].job = j
                    \/ o \in DOMAIN state.items /\ next[o] = state.items[o]
<1> DEFINE items == state.items
           next  == Resolved(items, j)
           ids   == DOMAIN items \cup jobs[j].objects
<1>1. /\ items \in ItemMaps /\ state.processed \subseteq JobIds
      /\ state.enriched \subseteq Object
  BY DEF TypeInv, Typed, StateObject
<1>2. /\ DOMAIN items \subseteq Object
      /\ \A o \in DOMAIN items : items[o] \in Item
  BY <1>1, ItemMapsAre
<1>3. jobs[j] \in Job /\ j \in JobIds /\ j \in Nat
  BY CreatedAre DEF TypeInv
<1>4. jobs[j].objects \subseteq Object /\ jobs[j].status \in Outcomes
  BY <1>3 DEF Job, Finished
<1>6. \A o \in DOMAIN items : items[o].job \in Nat
  BY <1>2 DEF Item
<1>7. DOMAIN next = ids
  BY DEF Resolved
<1>8. ASSUME NEW o \in ids
      PROVE  /\ next[o] \in Item
             /\ o \in DOMAIN items => next[o].job >= items[o].job
             /\ \/ next[o].job = j
                \/ o \in DOMAIN items /\ next[o] = items[o]
  <2> DEFINE new == [job      |-> j,
                     outcome  |-> jobs[j].status,
                     enriched |-> IF o \in DOMAIN items THEN items[o].enriched
                                  ELSE o \in state.enriched]
  <2>1. CASE o \in jobs[j].objects /\ Supersedes(items, o, j)
    <3>1. next[o] = new
      BY <2>1 DEF Resolved
    <3>2. new.enriched \in BOOLEAN
      <4>1. CASE o \in DOMAIN items
        BY <1>2, <4>1 DEF Item
      <4>2. CASE o \notin DOMAIN items
        BY <4>2
      <4> QED BY <4>1, <4>2
    <3>3. new \in Item
      BY <1>3, <1>4, <3>2 DEF Item
    <3>4. o \in DOMAIN items => j >= items[o].job
      BY <1>3, <1>6, <2>1 DEF Supersedes
    <3>5. new.job = j
      OBVIOUS
    <3> HIDE DEF new, next
    <3> QED BY <3>1, <3>3, <3>4, <3>5
  <2>2. CASE ~ (o \in jobs[j].objects /\ Supersedes(items, o, j))
    <3>1. next[o] = items[o] /\ o \in DOMAIN items
      BY <2>2 DEF Resolved, Supersedes
    <3> QED BY <1>2, <1>6, <3>1
  <2> QED BY <2>1, <2>2
<1>9. next = [o \in ids |-> next[o]]
  BY DEF Resolved
<1> HIDE DEF next
<1>10. next \in ItemMaps
  <2>1. ids \subseteq Object /\ next \in [ids -> Item]
    BY <1>2, <1>4, <1>8, <1>9
  <2> QED BY <1>7, <2>1, ItemMapsAre
<1> QED BY <1>7, <1>8, <1>10 DEF next

\* The state object of a merge holds the resolved items.
LEMMA MergedTyped ==
  ASSUME TypeInv, NEW j \in Created, Finished(j)
  PROVE  /\ Merged(j) \in StateObject
         /\ Merged(j).items = Resolved(state.items, j)
         /\ Merged(j).processed = state.processed \cup {j}
         /\ Merged(j).records = state.records
         /\ Merged(j).cp = state.cp /\ Merged(j).scan = state.scan
<1> DEFINE next == Resolved(state.items, j)
<1>1. next \in ItemMaps
  BY ResolvedTyped
<1>2. state \in StateObject /\ j \in JobIds
  BY CreatedAre DEF TypeInv, Typed
<1>3. Merged(j) = [state EXCEPT !.items = next, !.processed = @ \cup {j}]
  <2>1. state.items = state.items
    OBVIOUS
  <2> QED BY DEF Merged
<1> HIDE DEF next
<1>4. /\ Merged(j) \in StateObject
      /\ Merged(j).items = next
      /\ Merged(j).processed = state.processed \cup {j}
      /\ Merged(j).records = state.records
      /\ Merged(j).cp = state.cp /\ Merged(j).scan = state.scan
  BY <1>1, <1>2, <1>3 DEF StateObject
<1> QED BY <1>4 DEF next

\* Deleting what was published leaves the other items as they are.
LEMMA DeletedTyped ==
  ASSUME TypeInv
  PROVE  /\ Deleted \in StateObject
         /\ Deleted.items = [o \in DOMAIN state.items \ run.covered |-> state.items[o]]
         /\ Deleted.processed = state.processed
         /\ Deleted.records = state.records
         /\ Deleted.cp = state.cp /\ Deleted.scan = state.scan
<1> DEFINE left == [o \in DOMAIN state.items \ run.covered |-> state.items[o]]
<1>1. state \in StateObject /\ state.items \in ItemMaps
  BY DEF TypeInv, Typed, StateObject
<1>2. left \in ItemMaps
  BY <1>1, ItemMapsAre
<1>3. Deleted = [state EXCEPT !.items = left, !.enriched = @ \ run.covered]
  BY DEF Deleted, Restrict
<1> HIDE DEF left
<1>4. /\ Deleted \in StateObject /\ Deleted.items = left
      /\ Deleted.processed = state.processed
      /\ Deleted.records = state.records
      /\ Deleted.cp = state.cp /\ Deleted.scan = state.scan
  BY <1>1, <1>2, <1>3 DEF StateObject
<1> QED BY <1>4 DEF left

-----------------------------------------------------------------------------
\* One lemma for each group of steps: they keep the type invariant.
LEMMA BeginType ==
  ASSUME TypeInv, StartRun \/ StartRunBlind PROVE TypeInv'
<1> USE NoRunTyped DEF TypeInv, Typed
<1>1. PICK records \in SUBSET Created :
        /\ records \subseteq JobIds
        /\ Begin(records) /\ (NoFault \/ Fault("records"))
  BY DEF StartRun, StartRunBlind, StateObject, JobsKnown
<1>2. /\ run' = [NoRun EXCEPT !.todo = records, !.overlooked = Created \ records]
      /\ Created \ records \subseteq JobIds
  BY <1>1, CreatedAre DEF Begin
<1>3. run' \in RunMemory /\ run'.todo = records /\ run'.pending = {} /\ run'.covered = {}
  BY <1>1, <1>2 DEF RunMemory, NoRun
<1>4. faults' \in Nat
  BY <1>1 DEF Fault, NoFault
<1> QED BY <1>1, <1>3, <1>4 DEF Begin, GoTo, Steps, JobsKnown, ReportCoherent, Created

\* A job that runs, or cannot be described, only becomes outstanding, or is
\* overlooked.
LEMMA OutstandingType ==
  ASSUME TypeInv, NEW j \in run.todo, DescribeOutstanding(j) \/ DescribeAgedOut(j)
  PROVE  TypeInv'
<1>1. /\ \/ run' = [run EXCEPT !.todo = @ \ {j}, !.outstanding = @ \cup {j}]
         \/ run' = [run EXCEPT !.todo = @ \ {j}, !.overlooked = @ \cup {j}]
      /\ UNCHANGED <<journal, jobs, state, pc, sent>> /\ faults' \in Nat
  BY DEF DescribeOutstanding, DescribeAgedOut, NoFault, Fault, TypeInv, Typed
<1>2. run \in RunMemory
  BY DEF TypeInv, Typed
<1>3. /\ run' \in RunMemory /\ run'.todo \subseteq run.todo
      /\ run'.pending = run.pending /\ run'.covered = run.covered
  <2>1. CASE run' = [run EXCEPT !.todo = @ \ {j}, !.outstanding = @ \cup {j}]
    BY <1>2, <2>1 DEF RunMemory
  <2>2. CASE run' = [run EXCEPT !.todo = @ \ {j}, !.overlooked = @ \cup {j}]
    BY <1>2, <2>2 DEF RunMemory
  <2> QED BY <1>1, <2>1, <2>2
<1> QED BY <1>1, <1>3 DEF TypeInv, Typed, JobsKnown, ReportCoherent, Created

\* A finished job is merged, or left for a later run.
LEMMA FinishedType ==
  ASSUME TypeInv, NEW j \in run.todo, DescribeFinished(j) PROVE TypeInv'
<1>0. /\ j \in Created /\ Finished(j) /\ run \in RunMemory /\ state \in StateObject
      /\ pc = "describe" /\ run.pending = {} /\ run.covered = {}
  BY DEF DescribeFinished, TypeInv, Typed, JobsKnown, ReportCoherent
<1>1. /\ run' = [run EXCEPT !.todo = @ \ {j}]
      /\ UNCHANGED <<journal, jobs, pc, sent>> /\ faults' \in Nat
  BY DEF DescribeFinished, Write, NoFault, Fault, TypeInv, Typed
<1>2. /\ run' \in RunMemory /\ run'.todo \subseteq run.todo
      /\ run'.pending = {} /\ run'.covered = {}
  BY <1>0, <1>1 DEF RunMemory
<1>3. CASE UNCHANGED state
  BY <1>0, <1>1, <1>2, <1>3 DEF TypeInv, Typed, JobsKnown, ReportCoherent, Created
<1>4. CASE state' = Merged(j)
  <2> DEFINE next == Resolved(state.items, j)
  <2>1. /\ state' \in StateObject
        /\ state'.items = next
        /\ state'.processed = state.processed \cup {j}
        /\ state'.records = state.records
    BY <1>0, <1>4, MergedTyped
  <2>2. \A o \in DOMAIN next : \/ next[o].job = j
                               \/ o \in DOMAIN state.items /\ next[o] = state.items[o]
    BY <1>0, ResolvedTyped
  <2> HIDE DEF next
  <2>3. \A o \in DOMAIN state'.items : state'.items[o].job \in state'.processed
    BY <2>1, <2>2 DEF TypeInv, JobsKnown
  <2> QED BY <1>0, <1>1, <1>2, <2>1, <2>3
          DEF TypeInv, Typed, JobsKnown, ReportCoherent, Created
<1> QED BY <1>3, <1>4 DEF DescribeFinished, Write

\* What the run reads and what it stores on the way to a submission.
LEMMA ReadType ==
  ASSUME TypeInv, Described \/ ReadJournal \/ ReadFails \/ Enrich \/ RecordScan
  PROVE  TypeInv'
<1>0. /\ run \in RunMemory /\ state \in StateObject /\ journal \subseteq Op
      /\ Len(jobs) \in 0..MaxJobs
  BY CreatedAre DEF TypeInv, Typed
<1>1. UNCHANGED <<journal, jobs, sent>> /\ faults' \in Nat
  BY DEF Described, ReadJournal, ReadFails, Enrich, RecordScan, Write, NoFault,
         Fault, TypeInv, Typed
<1>2. pc' \in Steps /\ pc \notin {"send", "delete"}
  BY DEF Described, ReadJournal, ReadFails, Enrich, RecordScan, GoTo, Steps
<1>3. /\ run' \in RunMemory /\ run'.todo = run.todo
      /\ run'.pending = run.pending /\ run'.covered = run.covered
  <2>1. CASE run' = run
    BY <1>0, <2>1
  <2>2. CASE ReadJournal /\ Eligible # {}
    <3>1. Eligible \in SUBSET Op
      BY <1>0 DEF Eligible, Window
    <3>2. HighWater(Eligible) \in Nat
      BY <2>2, <3>1, HighWaterIsATime
    <3> DEFINE next == [run EXCEPT !.batch = Eligible \cap Matching,
                                   !.candidate = HighWater(Eligible)]
    <3>3. run' = next
      BY <2>2 DEF ReadJournal
    <3>4. /\ next \in RunMemory /\ next.todo = run.todo
          /\ next.pending = run.pending /\ next.covered = run.covered
      BY <1>0, <3>1, <3>2 DEF RunMemory
    <3> QED BY <3>3, <3>4
  <2> QED BY <2>1, <2>2 DEF Described, ReadJournal, ReadFails, Enrich, RecordScan
<1>4. /\ state' \in StateObject
      /\ state'.items = state.items /\ state'.processed = state.processed
      /\ state'.records = state.records
  <2>1. ASSUME NEW n \in Nat
        PROVE  /\ Scanned(n) \in StateObject
               /\ Scanned(n).items = state.items
               /\ Scanned(n).processed = state.processed
               /\ Scanned(n).records = state.records
    BY <1>0, <2>1 DEF Scanned, StateObject
  <2>2. PreflightCount \in Nat
    BY <1>0, TaggedFinite, FS_CardinalityType DEF PreflightCount, Window
  <2> DEFINE enriched == [state EXCEPT !.enriched = @ \cup Tagged(run.batch)]
  <2>3. /\ enriched \in StateObject /\ enriched.items = state.items
        /\ enriched.processed = state.processed /\ enriched.records = state.records
    BY <1>0, TaggedFinite DEF StateObject, RunMemory
  <2>4. state' \in {state, Scanned(0), Scanned(PreflightCount), enriched}
    BY DEF Described, ReadJournal, ReadFails, Enrich, RecordScan, Write
  <2> HIDE DEF enriched
  <2> QED BY <1>0, <2>1, <2>2, <2>3, <2>4
<1> QED BY <1>1, <1>2, <1>3, <1>4 DEF TypeInv, Typed, JobsKnown, ReportCoherent, Created

\* A job appended to the sequence has the next id and changes no other.
LEMMA AppendedJob ==
  ASSUME TypeInv, SubmitJob
  PROVE  /\ jobs' \in Seq(Job) /\ Len(jobs') = Len(jobs) + 1 /\ Len(jobs') <= MaxJobs
         /\ Created' = Created \cup {Len(jobs) + 1}
         /\ \A j \in Created : jobs'[j] = jobs[j]
<1> DEFINE job == [objects |-> Tagged(run.batch), status |-> "Active"]
<1>1. job \in Job
  BY TaggedFinite DEF TypeInv, Typed, RunMemory, Job
<1>2. /\ jobs \in Seq(Job) /\ Len(jobs) \in Nat /\ Len(jobs) < MaxJobs /\ MaxJobs \in Nat
      /\ jobs' = Append(jobs, job) /\ Created = 1..Len(jobs)
  BY CreatedAre, CompletionAssumption DEF SubmitJob, TypeInv, Typed
<1> HIDE DEF job
<1>3. /\ jobs' \in Seq(Job) /\ Len(jobs') = Len(jobs) + 1
      /\ \A j \in 1..Len(jobs) : jobs'[j] = jobs[j]
  BY <1>1, <1>2, AppendProperties
<1>4. Created' = 1..(Len(jobs) + 1)
  BY <1>3, LenProperties DEF Created
<1> QED BY <1>2, <1>3, <1>4

\* A submission adds a job, its record and an advanced checkpoint.
LEMMA SubmitType ==
  ASSUME TypeInv, SubmitJob \/ SubmitFails PROVE TypeInv'
<1>0. run \in RunMemory /\ state \in StateObject /\ pc = "submit"
  BY DEF TypeInv, Typed, SubmitJob, SubmitFails
<1>1. CASE SubmitFails
  BY <1>1 DEF SubmitFails, Fault, GoTo, Steps, TypeInv, Typed, JobsKnown,
              ReportCoherent, Created
<1>2. CASE SubmitJob
  <2> DEFINE j  == Len(jobs) + 1
             cp == AdvanceCheckpoint(state.cp, run.batch, run.candidate)
  <2>1. j \in JobIds
    BY <1>2, CreatedAre, CompletionAssumption DEF SubmitJob, TypeInv
  <2>2. cp \in Checkpoints
    BY <1>0, AdvanceCheckpointMonotone DEF StateObject, RunMemory
  <2>3. /\ state' \in {[state EXCEPT !.cp = cp, !.records = @ \cup {j}],
                       [state EXCEPT !.cp = cp]}
        /\ run' = [run EXCEPT !.outstanding = @ \cup {j}]
        /\ pc' = "publish" /\ faults' \in Nat /\ UNCHANGED <<journal, sent>>
    BY <1>2 DEF SubmitJob, NoFault, Fault, GoTo, TypeInv, Typed
  <2> HIDE DEF j, cp
  <2>4. /\ state' \in StateObject
        /\ state'.items = state.items /\ state'.processed = state.processed
        /\ state'.records \subseteq state.records \cup {j}
    <3>1. CASE state' = [state EXCEPT !.cp = cp]
      BY <1>0, <2>2, <3>1 DEF StateObject
    <3>2. CASE state' = [state EXCEPT !.cp = cp, !.records = @ \cup {j}]
      BY <1>0, <2>1, <2>2, <3>2 DEF StateObject
    <3> QED BY <2>3, <3>1, <3>2
  <2>5. /\ run' \in RunMemory /\ run'.todo = run.todo
        /\ run'.pending = run.pending /\ run'.covered = run.covered
    BY <1>0, <2>1, <2>3 DEF RunMemory
  <2>6. Created' = Created \cup {j} /\ jobs' \in Seq(Job) /\ Len(jobs') <= MaxJobs
    BY <1>2, AppendedJob DEF j
  <2> QED BY <1>0, <2>3, <2>4, <2>5, <2>6
          DEF TypeInv, Typed, JobsKnown, ReportCoherent, Steps
<1> QED BY <1>1, <1>2

\* A message accepted covers items that are stored; one refused, none.
LEMMA SendType ==
  ASSUME TypeInv, NEW objects \in SUBSET run.pending, SendReport(objects)
  PROVE  TypeInv'
<1>0. run \in RunMemory /\ state \in StateObject /\ state.items \in ItemMaps
  BY DEF TypeInv, Typed, StateObject
<1>1. pc' \in {"send", "delete"} /\ UNCHANGED <<journal, jobs, state>> /\ faults' \in Nat
  BY DEF SendReport, GoTo, Fault, NoFault, TypeInv, Typed
<1>2. objects \subseteq DOMAIN state.items
  BY DEF TypeInv, ReportCoherent
<1>3. CASE /\ sent' = sent \cup {[object |-> o, job |-> state.items[o].job] : o \in objects}
           /\ run' = [run EXCEPT !.pending = @ \ objects, !.covered = @ \cup objects]
  <2>1. /\ run' \in RunMemory /\ run'.todo = run.todo
        /\ run'.pending = run.pending \ objects
        /\ run'.covered = run.covered \cup objects
    BY <1>0, <1>3 DEF RunMemory
  <2>2. \A o \in objects : o \in Object /\ state.items[o].job \in JobIds
    BY <1>0, <1>2, ItemMapsAre DEF Item
  <2>3. sent' \subseteq [object: Object, job: JobIds]
    BY <1>3, <2>2 DEF TypeInv, Typed
  <2>4. \A o \in run'.covered : [object |-> o, job |-> state.items[o].job] \in sent'
    BY <1>3, <2>1 DEF TypeInv, ReportCoherent
  <2>5. \A s \in sent' : s.job \in state.processed
    BY <1>2, <1>3 DEF TypeInv, JobsKnown
  <2> QED BY <1>1, <1>2, <2>1, <2>3, <2>4, <2>5
          DEF TypeInv, Typed, JobsKnown, ReportCoherent, Steps, Created
<1>4. CASE run' = [run EXCEPT !.pending = @ \ objects] /\ UNCHANGED sent
  <2>1. /\ run' \in RunMemory /\ run'.todo = run.todo
        /\ run'.pending = run.pending \ objects
        /\ run'.covered = run.covered
    BY <1>0, <1>4 DEF RunMemory
  <2> QED BY <1>1, <1>4, <2>1
          DEF TypeInv, Typed, JobsKnown, ReportCoherent, Steps, Created
<1> QED BY <1>3, <1>4 DEF SendReport

\* The publish phase takes up what is quiescent, and ends by deleting it.
LEMMA PublishType ==
  ASSUME TypeInv, Publish \/ DeleteItems \/ Crash PROVE TypeInv'
<1>0. run \in RunMemory /\ state \in StateObject /\ state.items \in ItemMaps
  BY DEF TypeInv, Typed, StateObject
<1>1. UNCHANGED <<journal, jobs, sent>> /\ faults' \in Nat
  BY DEF Publish, DeleteItems, Crash, Write, EndRun, Fault, NoFault, TypeInv, Typed
<1>2. CASE UNCHANGED state /\ EndRun
  BY <1>1, <1>2, NoRunTyped
     DEF EndRun, GoTo, TypeInv, Typed, JobsKnown, ReportCoherent, Steps, Created
<1>3. CASE Publish /\ ~ EndRun
  <2>1. /\ run' = [run EXCEPT !.pending = Publishable] /\ pc' = "send"
        /\ pc = "publish" /\ UNCHANGED state
    BY <1>3 DEF Publish, GoTo
  <2>2. Publishable \subseteq DOMAIN state.items /\ DOMAIN state.items \subseteq Object
    BY <1>0, ItemMapsAre DEF Publishable
  <2>3. /\ run' \in RunMemory /\ run'.todo = run.todo
        /\ run'.pending = Publishable /\ run'.covered = run.covered
    BY <1>0, <2>1, <2>2 DEF RunMemory
  <2> QED BY <1>1, <2>1, <2>2, <2>3
          DEF TypeInv, Typed, JobsKnown, ReportCoherent, Steps, Created
<1>4. CASE DeleteItems /\ state' = Deleted
  <2>1. /\ state' \in StateObject
        /\ state'.items = [o \in DOMAIN state.items \ run.covered |-> state.items[o]]
        /\ state'.processed = state.processed /\ state'.records = state.records
    BY <1>4, DeletedTyped
  <2>2. EndRun
    BY <1>4 DEF DeleteItems
  <2> QED BY <1>1, <2>1, <2>2, NoRunTyped
          DEF EndRun, GoTo, TypeInv, Typed, JobsKnown, ReportCoherent, Steps, Created
<1>5. DeleteItems => EndRun /\ (UNCHANGED state \/ state' = Deleted)
  BY DEF DeleteItems, Write
<1>6. Crash \/ Publish => UNCHANGED state /\ (Crash => EndRun)
  BY DEF Crash, Publish
<1> QED BY <1>2, <1>3, <1>4, <1>5, <1>6

\* A job that ends keeps its objects, and no other job changes.
LEMMA EndedJob ==
  ASSUME TypeInv, NEW i \in Created, NEW outcome \in Outcomes, JobEnds(i, outcome)
  PROVE  /\ jobs' \in Seq(Job) /\ Len(jobs') = Len(jobs) /\ Created' = Created
         /\ Finished(i)' /\ jobs'[i].objects = jobs[i].objects
         /\ \A j \in Created \ {i} : jobs'[j] = jobs[j]
<1>1. jobs \in Seq(Job) /\ jobs[i] \in Job /\ Created = 1..Len(jobs)
  BY CreatedAre DEF TypeInv, Typed
<1>2. jobs' = [jobs EXCEPT ![i] = [jobs[i] EXCEPT !.status = outcome]]
  BY DEF JobEnds
<1>3. /\ [jobs[i] EXCEPT !.status = outcome] \in Job
      /\ [jobs[i] EXCEPT !.status = outcome].status = outcome
      /\ [jobs[i] EXCEPT !.status = outcome].objects = jobs[i].objects
  BY <1>1 DEF Job
<1>4. jobs' \in Seq(Job) /\ Len(jobs') = Len(jobs)
  BY <1>1, <1>2, <1>3, ExceptSeq
<1>5. /\ DOMAIN jobs' = DOMAIN jobs
      /\ jobs'[i] = [jobs[i] EXCEPT !.status = outcome]
      /\ \A j \in Created \ {i} : jobs'[j] = jobs[j]
  BY <1>2 DEF Created
<1> QED BY <1>3, <1>4, <1>5 DEF Created, Finished, Outcomes

\* Tagging and the end of a job leave the run and the state object alone.
LEMMA EnvironmentType ==
  ASSUME TypeInv, (\E o \in Op : TagObject(o)) \/ JobStep PROVE TypeInv'
<1>1. CASE \E o \in Op : TagObject(o)
  BY <1>1 DEF TagObject, TypeInv, Typed, JobsKnown, ReportCoherent, Created
<1>2. CASE JobStep
  <2>1. PICK j \in Created, outcome \in Outcomes : JobEnds(j, outcome)
    BY <1>2 DEF JobStep
  <2>2. jobs' \in Seq(Job) /\ Len(jobs') = Len(jobs) /\ Created' = Created
    BY <2>1, EndedJob
  <2> QED BY <2>1, <2>2 DEF JobEnds, TypeInv, Typed, JobsKnown, ReportCoherent
<1> QED BY <1>1, <1>2

\* Every step keeps the type invariant.
LEMMA TypeStep == TypeInv /\ [Next]_vars => TypeInv'
<1> SUFFICES ASSUME TypeInv, [Next]_vars PROVE TypeInv'
  OBVIOUS
<1>1. CASE RunStep
  BY <1>1, BeginType, OutstandingType, FinishedType, ReadType, SubmitType, SendType,
     PublishType DEF RunStep
<1>2. CASE (\E o \in Op : TagObject(o)) \/ JobStep
  BY <1>2, EnvironmentType
<1>3. CASE UNCHANGED vars
  BY <1>3 DEF vars, TypeInv, Typed, JobsKnown, ReportCoherent, Created
<1> QED BY <1>1, <1>2, <1>3 DEF Next

\* TypeOK: whatever reports come late, are refused or are lost, the stored
\* items, side maps and scan stay what a later run can read back.
THEOREM TrackingTypeCorrect == Spec => []TypeOK
<1>1. TypeInv => TypeOK
  <2>1. SUFFICES ASSUME TypeInv PROVE TypeOK
    OBVIOUS
  <2>2. /\ DOMAIN state.items \subseteq Object
        /\ state.items \in [DOMAIN state.items -> Item]
    BY <2>1, ItemMapsAre DEF TypeInv, Typed, StateObject
  <2> QED BY <2>1, <2>2 DEF TypeInv, Typed, StateObject, RunMemory, TypeOK
<1> QED BY <1>1, TypeInit, TypeStep, PTL DEF Spec

-----------------------------------------------------------------------------
\* The ways a step may change the items: it merges the report of one finished
\* job that was not merged before, or it deletes what the run has published.
LEMMA ItemSteps ==
  ASSUME TypeInv, [Next]_vars
  PROVE  \/ state'.items = state.items /\ state'.processed = state.processed
         \/ /\ jobs' = jobs /\ sent' = sent
            /\ run.covered = {} /\ run'.covered = {}
            /\ \E j \in Created \ state.processed : Finished(j) /\ state' = Merged(j)
         \/ /\ jobs' = jobs /\ sent' = sent /\ run' = NoRun
            /\ state' = Deleted
<1> DEFINE Same == state'.items = state.items /\ state'.processed = state.processed
<1>0. state \in StateObject /\ run \in RunMemory
  BY DEF TypeInv, Typed
<1>1. ASSUME NEW j \in run.todo, DescribeFinished(j), ~ Same
      PROVE  /\ jobs' = jobs /\ sent' = sent /\ run.covered = {} /\ run'.covered = {}
             /\ j \in Created \ state.processed /\ Finished(j)
             /\ state' = Merged(j)
  <2>1. /\ jobs' = jobs /\ sent' = sent /\ run.covered = {} /\ j \in Created
        /\ Finished(j) /\ run' = [run EXCEPT !.todo = @ \ {j}]
    BY <1>1 DEF DescribeFinished, TypeInv, JobsKnown, ReportCoherent
  <2>2. run'.covered = {}
    BY <1>0, <2>1 DEF RunMemory
  <2> QED BY <1>1, <2>1, <2>2 DEF DescribeFinished, Write
<1>2. CASE SubmitJob
  <2> DEFINE j  == Len(jobs) + 1
             cp == AdvanceCheckpoint(state.cp, run.batch, run.candidate)
  <2>1. state' \in {[state EXCEPT !.cp = cp, !.records = @ \cup {j}],
                    [state EXCEPT !.cp = cp]}
    BY <1>2 DEF SubmitJob
  <2> HIDE DEF j, cp
  <2> QED BY <1>0, <2>1 DEF StateObject
<1>3. CASE ReadJournal \/ Enrich \/ RecordScan
  <2>1. \/ state' = state
        \/ \E n : state' = Scanned(n)
        \/ state' = [state EXCEPT !.enriched = @ \cup Tagged(run.batch)]
    BY <1>3 DEF ReadJournal, Enrich, RecordScan, Write
  <2> QED BY <1>0, <2>1 DEF StateObject, Scanned
<1>4. CASE DeleteItems
  BY <1>4 DEF DeleteItems, Write, EndRun
<1>5. CASE StartRun \/ StartRunBlind \/ Described \/ ReadFails \/ SubmitFails
           \/ Publish \/ Crash
           \/ (\E j \in run.todo : DescribeOutstanding(j) \/ DescribeAgedOut(j))
           \/ \E objects \in SUBSET run.pending : SendReport(objects)
  <2>1. state' = state
    BY <1>5 DEF StartRun, StartRunBlind, Begin, Described, ReadFails, SubmitFails,
                Publish, Crash, DescribeOutstanding, DescribeAgedOut, SendReport
  <2> QED BY <2>1
<1>6. CASE (\E o \in Op : TagObject(o)) \/ JobStep \/ UNCHANGED vars
  BY <1>6 DEF TagObject, JobStep, JobEnds, vars
<1>7. ASSUME NEW j \in run.todo, DescribeFinished(j)
      PROVE  \/ Same
             \/ /\ jobs' = jobs /\ sent' = sent /\ run.covered = {} /\ run'.covered = {}
                /\ \E i \in Created \ state.processed : Finished(i) /\ state' = Merged(i)
  BY <1>1, <1>7
<1> QED BY <1>2, <1>3, <1>4, <1>5, <1>6, <1>7 DEF Next, RunStep

\* No step forgets a job or changes its objects, and a finished job stays so.
LEMMA TrackedJobsStep ==
  ASSUME TypeInv, [Next]_vars
  PROVE  /\ Created \subseteq Created'
         /\ \A j \in Created : /\ jobs'[j].objects = jobs[j].objects
                               /\ Finished(j) => Finished(j)'
<1>1. CASE jobs' = jobs
  BY <1>1 DEF Created, Finished
<1>2. CASE SubmitJob
  BY <1>2, AppendedJob DEF Finished
<1>3. CASE JobStep
  <2>1. PICK i \in Created, outcome \in Outcomes : JobEnds(i, outcome)
    BY <1>3 DEF JobStep
  <2> QED BY <2>1, EndedJob DEF Finished
<1>4. jobs' = jobs \/ SubmitJob \/ JobStep
  BY DEF Next, RunStep, StartRun, StartRunBlind, Begin, DescribeOutstanding,
         DescribeAgedOut, DescribeFinished, Described, ReadJournal, ReadFails, Enrich, RecordScan,
         SubmitFails, Publish, SendReport, DeleteItems, Crash, TagObject, vars
<1> QED BY <1>1, <1>2, <1>3, <1>4

-----------------------------------------------------------------------------
\* OutcomesKept: with every fault considered, and however many items are stored,
\* an outcome is dropped only when it was reported.
THEOREM OutcomesStay == Spec => OutcomesKept
<1> DEFINE Kept ==
      \A o \in DOMAIN state.items :
          \/ o \in DOMAIN state'.items /\ state'.items[o].job >= state.items[o].job
          \/ Reported(o, state.items[o].job)
<1>1. TypeInv /\ [Next]_vars => Kept
  <2>1. SUFFICES ASSUME TypeInv, [Next]_vars, NEW o \in DOMAIN state.items
                 PROVE  \/ /\ o \in DOMAIN state'.items
                           /\ state'.items[o].job >= state.items[o].job
                        \/ Reported(o, state.items[o].job)
    OBVIOUS
  <2>2. state.items[o].job \in Nat
    BY <2>1, ItemMapsAre DEF TypeInv, Typed, StateObject, Item
  <2>3. CASE state'.items = state.items
    BY <2>1, <2>2, <2>3
  <2>4. CASE state' = Deleted
    <3>1. state'.items = [x \in DOMAIN state.items \ run.covered |-> state.items[x]]
      BY <2>1, <2>4, DeletedTyped
    <3>2. CASE o \in run.covered
      <4> DEFINE report == [object |-> o, job |-> state.items[o].job]
      <4>1. report \in sent
        BY <2>1, <3>2 DEF TypeInv, ReportCoherent
      <4>2. report.object = o /\ report.job >= state.items[o].job
        BY <2>2
      <4> QED BY <4>1, <4>2 DEF Reported
    <3>3. CASE o \notin run.covered
      BY <2>1, <2>2, <3>1, <3>3
    <3> QED BY <3>2, <3>3
  <2>5. ASSUME NEW j \in Created, Finished(j), state' = Merged(j)
        PROVE  o \in DOMAIN state'.items /\ state'.items[o].job >= state.items[o].job
    BY <2>1, <2>5, MergedTyped, ResolvedTyped
  <2> QED BY <2>1, <2>3, <2>4, <2>5, ItemSteps
<1> QED BY <1>1, TypeInit, TypeStep, PTL DEF Spec, OutcomesKept

-----------------------------------------------------------------------------
\* An outcome that becomes stored is one of a job that was not merged before.
LEMMA StoredStep ==
  ASSUME TypeInv, [Next]_vars, NEW s \in Stored', s \notin Stored
  PROVE  s.job \notin state.processed
<1>1. CASE state'.items = state.items
  BY <1>1 DEF Stored
<1>2. CASE state' = Deleted
  BY <1>2, DeletedTyped DEF Stored
<1>3. ASSUME NEW j \in Created \ state.processed, Finished(j), state' = Merged(j)
      PROVE  s.job \notin state.processed
  <2> DEFINE next == Resolved(state.items, j)
  <2>1. state'.items = next
    BY <1>3, MergedTyped
  <2>2. \A o \in DOMAIN next : \/ next[o].job = j
                               \/ o \in DOMAIN state.items /\ next[o] = state.items[o]
    BY <1>3, ResolvedTyped
  <2> HIDE DEF next
  <2>3. PICK o \in DOMAIN next : s = [object |-> o, job |-> next[o].job]
    BY <2>1 DEF Stored
  <2> QED BY <1>3, <2>2, <2>3 DEF Stored
<1> QED BY <1>1, <1>2, <1>3, ItemSteps

\* A run that ends without a fault has deleted what it covered.
LEMMA EndStep ==
  ASSUME TypeInv, [Next]_vars, pc # "idle", pc' = "idle", faults' = faults
  PROVE  run.covered \cap DOMAIN state'.items = {}
<1>0. \A kind : ~ Fault(kind)
  BY DEF Fault, TypeInv, Typed
<1>1. CASE DeleteItems
  <2>1. run.covered = {} \/ state' = Deleted
    BY <1>0, <1>1 DEF DeleteItems, Write
  <2> QED BY <2>1, DeletedTyped
<1>2. CASE Publish
  BY <1>2 DEF Publish, TypeInv, ReportCoherent
<1>3. CASE \E j \in run.todo : \/ DescribeOutstanding(j) \/ DescribeAgedOut(j)
                               \/ DescribeFinished(j)
  BY <1>3 DEF DescribeOutstanding, DescribeAgedOut, DescribeFinished
<1>4. CASE \E objects \in SUBSET run.pending : SendReport(objects)
  BY <1>4 DEF SendReport, GoTo
<1>5. CASE \/ StartRun \/ StartRunBlind \/ Described \/ ReadJournal \/ ReadFails
           \/ Enrich \/ RecordScan \/ SubmitJob \/ SubmitFails \/ Crash
  BY <1>0, <1>5 DEF StartRun, StartRunBlind, Begin, Described, ReadJournal, ReadFails,
       Enrich, RecordScan, SubmitJob, SubmitFails, Crash, GoTo
<1>6. CASE ~ RunStep
  BY <1>6 DEF Next, TagObject, JobStep, JobEnds, vars
<1> QED BY <1>1, <1>2, <1>3, <1>4, <1>5, <1>6 DEF RunStep

\* PublishedOnce: with every fault considered, an outcome that was reported and
\* deleted is never stored again, and only a fault leaves one behind its report.
THEOREM ReportedOnce == Spec => PublishedOnce
<1> DEFINE Once == /\ \A s \in sent : s \in Stored' => s \in Stored
                   /\ pc # "idle" /\ pc' = "idle" /\ faults' = faults
                        => run.covered \cap DOMAIN state'.items = {}
<1>1. TypeInv /\ [Next]_vars => Once
  BY StoredStep, EndStep DEF TypeInv, JobsKnown
<1> QED BY <1>1, TypeInit, TypeStep, PTL DEF Spec, PublishedOnce

-----------------------------------------------------------------------------
\* What a report covers grows by a message of items still pending, and by
\* nothing else; between reports it is empty.
LEMMA CoveredStep ==
  ASSUME TypeInv, [Next]_vars, run'.covered # run.covered
  PROVE  /\ pc \in {"send", "delete"}
         /\ \/ run'.covered = {}
            \/ \E objects \in SUBSET run.pending :
                   SendReport(objects) /\ run'.covered = run.covered \cup objects
<1>0. run \in RunMemory /\ (run.covered # {} => pc \in {"send", "delete"})
  BY DEF TypeInv, Typed, ReportCoherent
<1>1. CASE run' = NoRun
  BY <1>0, <1>1, NoRunTyped
<1>2. CASE \E objects \in SUBSET run.pending : SendReport(objects)
  <2>1. PICK objects \in SUBSET run.pending : SendReport(objects)
    BY <1>2
  <2>2. \/ run' = [run EXCEPT !.pending = @ \ objects, !.covered = @ \cup objects]
        \/ run' = [run EXCEPT !.pending = @ \ objects]
    BY <2>1 DEF SendReport
  <2>3. run'.covered \in {run.covered, run.covered \cup objects}
    BY <1>0, <2>2 DEF RunMemory
  <2> QED BY <2>1, <2>3 DEF SendReport
<1>3. CASE StartRun \/ StartRunBlind
  <2>1. pc = "idle" /\ run'.covered = {}
    BY <1>3 DEF StartRun, StartRunBlind, Begin, NoRun
  <2> QED BY <1>0, <2>1
<1>4. RunStep => \/ run' = NoRun \/ StartRun \/ StartRunBlind
                 \/ \E objects \in SUBSET run.pending : SendReport(objects)
                 \/ run'.covered = run.covered
  <2>1. CASE (\E j \in run.todo : \/ DescribeOutstanding(j) \/ DescribeAgedOut(j)
                                 \/ DescribeFinished(j))
             \/ Described \/ ReadJournal \/ ReadFails \/ Enrich \/ RecordScan
    BY <1>0, <2>1 DEF DescribeOutstanding, DescribeAgedOut, DescribeFinished, Described,
         ReadJournal, ReadFails, Enrich, RecordScan, RunMemory
  <2>2. CASE SubmitJob \/ SubmitFails \/ Publish \/ DeleteItems \/ Crash
    BY <1>0, <2>2 DEF SubmitJob, SubmitFails, Publish, DeleteItems, Crash, EndRun, RunMemory
  <2> QED BY <2>1, <2>2 DEF RunStep
<1>5. ~ RunStep => run' = run
  BY DEF Next, TagObject, JobStep, JobEnds, vars
<1> QED BY <1>1, <1>2, <1>3, <1>4, <1>5

-----------------------------------------------------------------------------
\* A run knows every job that runs as one still to be described, as outstanding,
\* or not at all.
OutstandingKnown ==
    /\ pc # "idle" =>
           \A j \in Created : ~ Finished(j)
               => j \in run.todo \cup run.outstanding \cup run.overlooked
    /\ pc \notin {"idle", "describe"} => run.todo = {}

\* No step of a run drops a running job from what the run knows.
LEMMA OutstandingStep ==
  ASSUME TypeInv, OutstandingKnown, [Next]_vars
  PROVE  OutstandingKnown'
<1>0. run \in RunMemory
  BY DEF TypeInv, Typed
<1>1. CASE StartRun \/ StartRunBlind
  <2>1. PICK records : Begin(records)
    BY <1>1 DEF StartRun, StartRunBlind
  <2>2. /\ run'.todo = records /\ run'.overlooked = Created \ records
        /\ pc' = "describe" /\ UNCHANGED jobs
    BY <2>1 DEF Begin, NoRun, GoTo
  <2> QED BY <2>2 DEF OutstandingKnown, Created, Finished
<1>2. ASSUME NEW j \in run.todo, DescribeOutstanding(j) \/ DescribeAgedOut(j)
      PROVE  OutstandingKnown'
  <2>1. /\ \/ run' = [run EXCEPT !.todo = @ \ {j}, !.outstanding = @ \cup {j}]
           \/ run' = [run EXCEPT !.todo = @ \ {j}, !.overlooked = @ \cup {j}]
        /\ pc = "describe" /\ UNCHANGED <<jobs, pc>>
    BY <1>2 DEF DescribeOutstanding, DescribeAgedOut
  <2>2. /\ run'.todo = run.todo \ {j}
        /\ \/ run'.outstanding = run.outstanding \cup {j}
              /\ run'.overlooked = run.overlooked
           \/ run'.outstanding = run.outstanding
              /\ run'.overlooked = run.overlooked \cup {j}
    BY <1>0, <2>1 DEF RunMemory
  <2> QED BY <2>1, <2>2 DEF OutstandingKnown, Created, Finished
<1>3. ASSUME NEW j \in run.todo, DescribeFinished(j) PROVE OutstandingKnown'
  <2>1. /\ run' = [run EXCEPT !.todo = @ \ {j}] /\ Finished(j)
        /\ pc = "describe" /\ UNCHANGED <<jobs, pc>>
    BY <1>3 DEF DescribeFinished
  <2>2. /\ run'.todo = run.todo \ {j} /\ run'.outstanding = run.outstanding
        /\ run'.overlooked = run.overlooked
    BY <1>0, <2>1 DEF RunMemory
  <2> QED BY <2>1, <2>2 DEF OutstandingKnown, Created, Finished
<1>4. CASE Described \/ ReadJournal \/ ReadFails \/ Enrich \/ RecordScan \/ SubmitFails
  <2>1. /\ run'.todo = run.todo /\ run'.outstanding = run.outstanding
        /\ run'.overlooked = run.overlooked /\ UNCHANGED jobs
    BY <1>0, <1>4 DEF Described, ReadJournal, ReadFails, Enrich, RecordScan,
         SubmitFails, RunMemory
  <2>2. /\ pc # "idle" /\ pc' # "describe"
        /\ pc = "describe" => run.todo = {}
    BY <1>4 DEF Described, ReadJournal, ReadFails, Enrich, RecordScan, SubmitFails, GoTo
  <2> QED BY <2>1, <2>2 DEF OutstandingKnown, Created, Finished
<1>5. CASE SubmitJob
  <2> DEFINE j == Len(jobs) + 1
  <2>1. /\ run' = [run EXCEPT !.outstanding = @ \cup {j}]
        /\ pc = "submit" /\ pc' = "publish"
    BY <1>5 DEF SubmitJob, GoTo
  <2>2. Created' = Created \cup {j} /\ \A i \in Created : jobs'[i] = jobs[i]
    BY <1>5, AppendedJob
  <2> HIDE DEF j
  <2>3. /\ run'.outstanding = run.outstanding \cup {j} /\ run'.todo = run.todo
        /\ run'.overlooked = run.overlooked
    BY <1>0, <2>1 DEF RunMemory
  <2> QED BY <2>1, <2>2, <2>3 DEF OutstandingKnown, Finished
<1>6. CASE DeleteItems \/ Crash \/ (Publish /\ EndRun)
  BY <1>6 DEF DeleteItems, Crash, Publish, EndRun, GoTo, OutstandingKnown
<1>7. CASE \/ Publish /\ ~ EndRun
           \/ \E objects \in SUBSET run.pending : SendReport(objects)
  <2>1. /\ pc \in {"publish", "send"} /\ pc' \in {"send", "delete"}
        /\ UNCHANGED <<jobs, state>>
    BY <1>7 DEF Publish, SendReport, GoTo
  <2>2. /\ run'.todo = run.todo /\ run'.outstanding = run.outstanding
        /\ run'.overlooked = run.overlooked
    BY <1>0, <1>7 DEF Publish, SendReport, RunMemory
  <2> QED BY <2>1, <2>2 DEF OutstandingKnown, Created, Finished
<1>8. CASE (\E o \in Op : TagObject(o)) \/ UNCHANGED vars
  BY <1>8 DEF TagObject, vars, OutstandingKnown, Created, Finished
<1>9. CASE JobStep
  <2>1. PICK i \in Created, outcome \in Outcomes : JobEnds(i, outcome)
    BY <1>9 DEF JobStep
  <2>2. UNCHANGED <<state, run, pc>> /\ Created' = Created
    BY <2>1, EndedJob DEF JobEnds
  <2>3. \A j \in Created : ~ Finished(j)' => ~ Finished(j)
    BY <2>1, EndedJob DEF Finished
  <2> QED BY <2>2, <2>3 DEF OutstandingKnown
<1> QED BY <1>1, <1>2, <1>3, <1>4, <1>5, <1>6, <1>7, <1>8, <1>9 DEF Next, RunStep

\* AllClearIsTrue: with every fault considered, a report that says no job is
\* outstanding says so only while none runs, but for those the run could not
\* know of, and those it gave up describing.
THEOREM AllClearTold == Spec => AllClearIsTrue
<1> DEFINE AllClear == run'.covered # run.covered /\ run.outstanding = {}
                         => \A j \in Created \ run.overlooked : Finished(j)
<1>1. Init => OutstandingKnown
  BY DEF Init, OutstandingKnown
<1>2. TypeInv /\ OutstandingKnown /\ [Next]_vars => OutstandingKnown'
  BY OutstandingStep
<1>3. TypeInv /\ OutstandingKnown /\ [Next]_vars => AllClear
  BY CoveredStep DEF OutstandingKnown
<1> QED BY <1>1, <1>2, <1>3, TypeInit, TypeStep, PTL DEF Spec, AllClearIsTrue

-----------------------------------------------------------------------------
\* A scan that found nothing is later than every job, as the run that submits
\* has stored before that there was something to submit.
ScanCurrent ==
    /\ state.scan.count = 0 => state.scan.at = Len(jobs)
    /\ pc = "submit" => state.scan.count # 0
    /\ pc \in {"enrich", "scan"} => run.batch \subseteq Window \cap Matching

\* A batch taken from the window is counted by the preflight count.
LEMMA PreflightCounts ==
  ASSUME TypeInv, run.batch \subseteq Window \cap Matching, run.batch # {}
  PROVE  PreflightCount \in Nat \ {0}
<1>1. Window \cap Matching \in SUBSET Op /\ Window \cap Matching # {}
  BY DEF Window, TypeInv, Typed
<1>2. Tagged(Window \cap Matching) # {}
  BY <1>1 DEF Tagged
<1> QED BY <1>1, <1>2, TaggedFinite, FS_EmptySet, FS_CardinalityType DEF PreflightCount

\* Where the PUT of a scan lands, a scan that counts nothing stays current.
LEMMA ScanStep ==
  ASSUME TypeInv, ScanCurrent, [Next]_vars, "scan" \notin Faults
  PROVE  ScanCurrent'
<1>0. state \in StateObject /\ run \in RunMemory /\ ~ Fault("scan") /\ Len(jobs) \in Nat
  BY CreatedAre DEF TypeInv, Typed, Fault
<1>1. ASSUME NEW n \in Nat, state' = Scanned(n)
      PROVE  /\ state'.scan = [at |-> Len(jobs), count |-> n]
             /\ state'.cp = state.cp
  BY <1>0, <1>1 DEF Scanned, StateObject
<1>2. CASE ReadJournal /\ Eligible = {}
  <2>1. state' = Scanned(0) /\ pc' = "publish" /\ UNCHANGED jobs
    BY <1>0, <1>2 DEF ReadJournal, Write, GoTo
  <2>2. state'.scan = [at |-> Len(jobs), count |-> 0]
    BY <1>1, <2>1
  <2> QED BY <2>1, <2>2 DEF ScanCurrent
<1>3. CASE ReadJournal /\ Eligible # {}
  <2>1. /\ run' = [run EXCEPT !.batch = Eligible \cap Matching,
                              !.candidate = HighWater(Eligible)]
        /\ pc' = "enrich" /\ UNCHANGED <<journal, jobs, state>>
    BY <1>3 DEF ReadJournal, GoTo
  <2>2. run'.batch = Eligible \cap Matching
    BY <1>0, <2>1 DEF RunMemory
  <2> QED BY <2>1, <2>2 DEF ScanCurrent, Eligible, Window
<1>4. CASE Enrich
  <2>1. /\ pc = "enrich" /\ pc' = "scan" /\ UNCHANGED <<journal, jobs, run>>
        /\ state' \in {state, [state EXCEPT !.enriched = @ \cup Tagged(run.batch)]}
    BY <1>4 DEF Enrich, Write, GoTo
  <2>2. state'.scan = state.scan /\ state'.cp = state.cp
    BY <1>0, <2>1 DEF StateObject
  <2> QED BY <2>1, <2>2 DEF ScanCurrent, Window
<1>5. CASE RecordScan
  <2>1. /\ pc = "scan" /\ UNCHANGED <<journal, jobs, run>>
        /\ \/ /\ state' = Scanned(PreflightCount)
              /\ pc' = IF run.batch = {} THEN "publish" ELSE "submit"
           \/ pc' = "publish" /\ UNCHANGED state
    BY <1>0, <1>5 DEF RecordScan, Write, GoTo
  <2>2. CASE pc' = "publish" /\ UNCHANGED state
    BY <2>1, <2>2 DEF ScanCurrent
  <2>3. CASE state' = Scanned(PreflightCount)
    <3>1. PreflightCount \in Nat
      BY TaggedFinite, FS_CardinalityType DEF PreflightCount, Window, TypeInv, Typed
    <3>2. state'.scan = [at |-> Len(jobs), count |-> PreflightCount]
      BY <1>1, <2>3, <3>1
    <3>3. run.batch # {} => PreflightCount # 0
      BY <2>1, PreflightCounts DEF ScanCurrent
    <3> QED BY <2>1, <2>3, <3>2, <3>3 DEF ScanCurrent
  <2> QED BY <2>1, <2>2, <2>3
<1>6. CASE SubmitJob
  <2> DEFINE j  == Len(jobs) + 1
             cp == AdvanceCheckpoint(state.cp, run.batch, run.candidate)
  <2>1. /\ state' \in {[state EXCEPT !.cp = cp, !.records = @ \cup {j}],
                       [state EXCEPT !.cp = cp]}
        /\ pc = "submit" /\ pc' = "publish"
    BY <1>6 DEF SubmitJob, GoTo
  <2> HIDE DEF j, cp
  <2>2. state'.scan = state.scan
    BY <1>0, <2>1 DEF StateObject
  <2> QED BY <2>1, <2>2 DEF ScanCurrent
<1>7. CASE StartRun \/ StartRunBlind \/ Described \/ ReadFails \/ SubmitFails \/ Publish
           \/ Crash \/ (\E j \in run.todo : DescribeOutstanding(j) \/ DescribeAgedOut(j))
           \/ \E objects \in SUBSET run.pending : SendReport(objects)
  <2>1. UNCHANGED <<jobs, state>> /\ pc' \notin {"submit", "enrich", "scan"}
    BY <1>7 DEF StartRun, StartRunBlind, Begin, Described, ReadFails, SubmitFails, Publish,
         Crash, DescribeOutstanding, DescribeAgedOut, SendReport, EndRun, GoTo
  <2> QED BY <2>1 DEF ScanCurrent
<1>8. CASE (\E j \in run.todo : DescribeFinished(j)) \/ DeleteItems
  <2>1. UNCHANGED jobs /\ pc' \notin {"submit", "enrich", "scan"}
    BY <1>8 DEF DescribeFinished, DeleteItems, EndRun, GoTo
  <2>2. state'.scan = state.scan
    <3>1. ASSUME NEW j \in run.todo, DescribeFinished(j), state' = Merged(j)
          PROVE  state'.scan = state.scan
      <4>1. j \in Created /\ Finished(j)
        BY <3>1 DEF DescribeFinished, TypeInv, JobsKnown
      <4> QED BY <3>1, <4>1, MergedTyped
    <3> QED BY <1>8, <3>1, DeletedTyped DEF DescribeFinished, DeleteItems, Write
  <2> QED BY <2>1, <2>2 DEF ScanCurrent
<1>9. CASE \E o \in Op : TagObject(o)
  BY <1>9 DEF TagObject, ScanCurrent, Window
<1>10. CASE JobStep
  <2>1. PICK i \in Created, outcome \in Outcomes : JobEnds(i, outcome)
    BY <1>10 DEF JobStep
  <2>2. Len(jobs') = Len(jobs) /\ UNCHANGED <<journal, state, run, pc>>
    BY <2>1, EndedJob DEF JobEnds
  <2> QED BY <2>2 DEF ScanCurrent, Window
<1>11. CASE UNCHANGED vars
  BY <1>11 DEF vars, ScanCurrent, Window
<1> QED BY <1>2, <1>3, <1>4, <1>5, <1>6, <1>7, <1>8, <1>9, <1>10, <1>11 DEF Next, RunStep

\* WholeWave: as long as scans are stored, the items of a bucket are published
\* together or not at all, whatever else fails (_run_completion_tracking_interval).
THEOREM WavesPublishedWhole ==
  ASSUME "scan" \notin Faults
  PROVE  Spec => []WholeWave
<1>1. Init => ScanCurrent
  BY DEF Init, ScanCurrent, EmptyState, NeverScanned
<1>2. TypeInv /\ ScanCurrent /\ [Next]_vars => ScanCurrent'
  BY ScanStep
<1>3. TypeInv /\ ScanCurrent => WholeWave
  <2>1. SUFFICES ASSUME TypeInv, ScanCurrent PROVE WholeWave
    OBVIOUS
  <2>2. CASE state.scan.count = 0
    <3>1. \A o \in DOMAIN state.items : Quiescent(state.items[o].job)
      <4>1. ASSUME NEW o \in DOMAIN state.items PROVE state.items[o].job \in 1..Len(jobs)
        BY <2>1, CreatedAre DEF TypeInv, JobsKnown
      <4>2. Len(jobs) \in Nat
        BY <2>1, CreatedAre DEF TypeInv
      <4> QED BY <2>1, <2>2, <4>1, <4>2 DEF Quiescent, ScanCurrent
    <3> QED BY <3>1 DEF WholeWave, Publishable
  <2>3. CASE state.scan.count # 0
    BY <2>3 DEF WholeWave, Publishable, Quiescent
  <2> QED BY <2>2, <2>3
<1> QED BY <1>1, <1>2, <1>3, TypeInit, TypeStep, PTL DEF Spec

-----------------------------------------------------------------------------
\* A merge gives an object of the report the report's outcome, unless a newer one
\* is stored, and leaves every other item as it is.
LEMMA ResolvedExactly ==
  ASSUME NEW items, NEW j
  PROVE  LET next == Resolved(items, j)
         IN  /\ DOMAIN next = DOMAIN items \cup jobs[j].objects
             /\ \A o \in DOMAIN next :
                  IF o \in jobs[j].objects /\ Supersedes(items, o, j)
                    THEN next[o].job = j ELSE next[o] = items[o]
<1> DEFINE next == Resolved(items, j)
<1>1. DOMAIN next = DOMAIN items \cup jobs[j].objects
  BY DEF Resolved
<1>2. ASSUME NEW o \in DOMAIN next, o \in jobs[j].objects /\ Supersedes(items, o, j)
      PROVE  next[o].job = j
  BY <1>2 DEF Resolved
<1>3. ASSUME NEW o \in DOMAIN next, ~ (o \in jobs[j].objects /\ Supersedes(items, o, j))
      PROVE  next[o] = items[o]
  BY <1>3 DEF Resolved
<1> HIDE DEF next
<1> QED BY <1>1, <1>2, <1>3 DEF next

\* Only a message that SNS accepts adds to what was reported, and what it adds
\* was stored.
LEMMA SentStep ==
  ASSUME TypeInv, [Next]_vars
  PROVE  \/ sent' = sent
         \/ \E objects \in SUBSET DOMAIN state.items :
              /\ sent' = sent \cup {[object |-> o, job |-> state.items[o].job] : o \in objects}
              /\ state' = state
<1>1. CASE \E objects \in SUBSET run.pending : SendReport(objects)
  <2>1. PICK objects \in SUBSET run.pending : SendReport(objects)
    BY <1>1
  <2>2. objects \in SUBSET DOMAIN state.items
    BY DEF TypeInv, ReportCoherent
  <2>3. \/ sent' = sent
        \/ sent' = sent \cup {[object |-> o, job |-> state.items[o].job] : o \in objects}
    BY <2>1 DEF SendReport
  <2>4. state' = state
    BY <2>1 DEF SendReport
  <2> QED BY <2>2, <2>3, <2>4
<1>2. CASE StartRun \/ StartRunBlind
  BY <1>2 DEF StartRun, StartRunBlind, Begin
<1>7. CASE \E j \in run.todo : DescribeOutstanding(j) \/ DescribeAgedOut(j)
  BY <1>7 DEF DescribeOutstanding, DescribeAgedOut
<1>8. CASE \E j \in run.todo : DescribeFinished(j)
  <2>1. PICK j \in run.todo : DescribeFinished(j)
    BY <1>8
  <2>2. UNCHANGED sent
    BY <2>1 DEF DescribeFinished
  <2> QED BY <2>2
<1>3. CASE Described \/ ReadJournal \/ ReadFails \/ Enrich \/ RecordScan
  BY <1>3 DEF Described, ReadJournal, ReadFails, Enrich, RecordScan
<1>4. CASE SubmitJob \/ SubmitFails
  BY <1>4 DEF SubmitJob, SubmitFails
<1>5. CASE Publish \/ DeleteItems \/ Crash
  BY <1>5 DEF Publish, DeleteItems, Crash
<1>6. CASE ~ RunStep
  BY <1>6 DEF Next, TagObject, JobStep, JobEnds, vars
<1> QED BY <1>1, <1>2, <1>3, <1>4, <1>5, <1>6, <1>7, <1>8 DEF RunStep

\* A message accepted is a telling of what it holds that was not told before.
LEMMA SendTells ==
  ASSUME NEW objects \in SUBSET DOMAIN state.items, state' = state,
         sent' = sent \cup {[object |-> o, job |-> state.items[o].job] : o \in objects}
  PROVE  Report!Next \/ UNCHANGED Report!rvars
<1> DEFINE message == {[object |-> o, job |-> state.items[o].job] : o \in objects}
           new == message \ sent
<1>1. message \subseteq Stored /\ Stored' = Stored
  BY DEF Stored
<1>2. sent' = sent \cup new
  OBVIOUS
<1> HIDE DEF message
<1>3. new \subseteq Untold /\ Untold' = Untold \ new
  BY <1>1, <1>2 DEF Untold
<1> HIDE DEF new
<1>4. CASE new = {}
  BY <1>2, <1>3, <1>4 DEF Report!rvars
<1>5. CASE new # {}
  BY <1>2, <1>3, <1>5 DEF Report!Next, Report!Tell
<1> QED BY <1>4, <1>5

\* A merge is the learning of a job.  The objects of which a newer outcome is
\* stored are outdated, whether or not that one has been told.
LEMMA MergeLearns ==
  ASSUME TypeInv, sent' = sent,
         NEW j \in Created \ state.processed, Finished(j), state' = Merged(j)
  PROVE  Report!Next
<1> DEFINE items    == state.items
           next     == Resolved(items, j)
           objects  == jobs[j].objects
           outdated == {o \in objects : ~ Supersedes(items, o, j)}
           own      == {[object |-> o, job |-> j] : o \in objects \ outdated}
           kept     == {u \in Untold : u.object \notin objects \ outdated}
<1>1. state'.items = next /\ state'.processed = state.processed \cup {j}
  BY MergedTyped
<1>2. /\ DOMAIN next = DOMAIN items \cup objects
      /\ \A o \in DOMAIN next : IF o \in objects /\ Supersedes(items, o, j)
                                  THEN next[o].job = j ELSE next[o] = items[o]
  BY ResolvedExactly
<1>3. /\ j \in JobIds /\ objects \in SUBSET Object
      /\ j \in Nat /\ \A o \in DOMAIN items : items[o].job \in Nat
  <2>1. j \in JobIds /\ jobs[j] \in Job
    BY CreatedAre DEF TypeInv
  <2>2. \A o \in DOMAIN items : items[o] \in Item
    BY ItemMapsAre DEF TypeInv, Typed, StateObject
  <2> QED BY <2>1, <2>2, CompletionAssumption DEF Job, Item
<1>4. \A s \in sent : s.job # j
  BY DEF TypeInv, JobsKnown
<1>5. /\ \A o \in outdated : o \in DOMAIN items /\ items[o].job > j
      /\ \A o \in objects \cap DOMAIN items : items[o].job > j => o \in outdated
  BY <1>3 DEF Supersedes
<1>6. \A o \in objects : Report!Newer(o, j, Untold) => o \in outdated
  <2>1. ASSUME NEW o \in objects, NEW u \in Untold, u.object = o, u.job > j
        PROVE  o \in outdated
    <3>1. PICK p \in DOMAIN items : u = [object |-> p, job |-> items[p].job]
      BY <2>1 DEF Untold, Stored
    <3> QED BY <1>5, <2>1, <3>1
  <2> QED BY <2>1 DEF Report!Newer
<1>7. \A o \in outdated : Report!Newer(o, j, Untold \cup sent)
  <2>1. ASSUME NEW o \in outdated
        PROVE  \E u \in Untold \cup sent : u.object = o /\ u.job > j
    <3> DEFINE stored == [object |-> o, job |-> items[o].job]
    <3>1. stored \in Untold \cup sent
      BY <1>5, <2>1 DEF Untold, Stored
    <3>2. stored.object = o /\ stored.job > j
      BY <1>5, <2>1
    <3> QED BY <3>1, <3>2
  <2> QED BY <2>1 DEF Report!Newer
<1>8. Untold' = kept \cup own
  <2> HIDE DEF next
  <2>0. Untold' = {[object |-> o, job |-> next[o].job] : o \in DOMAIN next} \ sent
    BY <1>1 DEF Untold, Stored
  <2>1. ASSUME NEW u \in Untold' PROVE u \in kept \cup own
    <3>1. PICK o \in DOMAIN next : u = [object |-> o, job |-> next[o].job] /\ u \notin sent
      BY <2>0, <2>1
    <3>2. CASE o \in objects \ outdated
      BY <1>2, <3>1, <3>2
    <3>3. CASE o \notin objects \ outdated
      <4>1. o \in DOMAIN items /\ next[o] = items[o]
        BY <1>2, <1>5, <3>1, <3>3
      <4>2. u \in Untold /\ u.object = o
        BY <3>1, <4>1 DEF Untold, Stored
      <4> QED BY <3>3, <4>2
    <3> QED BY <3>2, <3>3
  <2>2. ASSUME NEW u \in kept PROVE u \in Untold'
    <3>1. PICK o \in DOMAIN items : u = [object |-> o, job |-> items[o].job] /\ u \notin sent
      BY <2>2 DEF Untold, Stored
    <3>2. o \in DOMAIN next /\ next[o] = items[o]
      BY <1>2, <2>2, <3>1
    <3> QED BY <2>0, <3>1, <3>2
  <2>3. ASSUME NEW u \in own PROVE u \in Untold'
    <3>1. PICK o \in objects \ outdated : u = [object |-> o, job |-> j]
      BY <2>3
    <3>2. o \in DOMAIN next /\ next[o].job = j
      BY <1>2, <3>1
    <3>3. u \notin sent
      BY <1>4, <3>1
    <3> QED BY <2>0, <3>1, <3>2, <3>3
  <2> QED BY <2>1, <2>2, <2>3
<1>9. outdated \in SUBSET Object
  BY <1>3
<1> HIDE DEF outdated, objects
<1>10. Report!Learn(j, objects, outdated)
  BY <1>1, <1>6, <1>7, <1>8, <1>9 DEF Report!Learn, objects, outdated
<1> QED BY <1>3, <1>9, <1>10 DEF Report!Next

\* Deleting what was published changes nothing of what waits.
LEMMA DeleteForgets ==
  ASSUME TypeInv, sent' = sent, state' = Deleted
  PROVE  UNCHANGED Report!rvars
<1>1. /\ state'.items = [o \in DOMAIN state.items \ run.covered |-> state.items[o]]
      /\ state'.processed = state.processed
  BY DeletedTyped
<1>2. \A o \in run.covered : [object |-> o, job |-> state.items[o].job] \in sent
  BY DEF TypeInv, ReportCoherent
<1>3. Untold' = Untold
  BY <1>1, <1>2 DEF Untold, Stored
<1> QED BY <1>1, <1>3 DEF Report!rvars

\* ImplementsReport: with every fault considered, lost deletions and deaths of
\* the run included, the runs of a bucket learn and tell outcomes as
\* OutcomeReport promises.
THEOREM RunsImplementReport == Spec => ImplementsReport
<1>1. Init => Report!Init
  BY DEF Init, Report!Init, EmptyState, NoItems, Untold, Stored
<1>2. TypeInv /\ [Next]_vars => [Report!Next]_(Report!rvars)
  <2> SUFFICES ASSUME TypeInv, [Next]_vars
               PROVE  Report!Next \/ UNCHANGED Report!rvars
    OBVIOUS
  <2>1. CASE sent' # sent
    BY <2>1, SentStep, SendTells
  <2>2. CASE sent' = sent /\ state'.items = state.items
             /\ state'.processed = state.processed
    BY <2>2 DEF Report!rvars, Untold, Stored
  <2>3. ASSUME sent' = sent, NEW j \in Created \ state.processed, Finished(j),
               state' = Merged(j)
        PROVE  Report!Next
    BY <2>3, MergeLearns
  <2>4. CASE sent' = sent /\ state' = Deleted
    BY <2>4, DeleteForgets
  <2> QED BY <2>1, <2>2, <2>3, <2>4, ItemSteps
<1> QED BY <1>1, <1>2, TypeInit, TypeStep, PTL
        DEF Spec, ImplementsReport, Report!Spec
=============================================================================
