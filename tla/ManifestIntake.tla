--------------------------- MODULE ManifestIntake ---------------------------
(***************************************************************************)
(* How journal rows become the manifest of a job, and what the run then    *)
(* remembers as processed: the row is checked, deduplicated, tried against *)
(* the checkpoint and the storage class (src/core/journal_dedup.py,        *)
(* archived_filter.py), matched against the derived rules (rule_deriver.py,*)
(* rule_matcher.py), given the slot of its key in the manifest             *)
(* (manifest_generator.py), filtered by the permanent deletes              *)
(* (permanent_delete_reader.py, delete_filter.py), written and submitted.  *)
(*                                                                         *)
(* An Op is one journal row here, and several rows may tell of one tagging *)
(* operation.  Rows and deletes go on appearing between the queries of a   *)
(* run.  Failed jobs, lost PUTs and deaths of the run are BucketRun's.     *)
(***************************************************************************)
EXTENDS JournalRead, Sequences

CONSTANTS Version, Key, Tag,
          VersionOf,     \* the object version a row is about
          KeyOf,         \* the key of a version
          TagsOf,        \* the tag set of a row; none in a row that cannot be used
          SeqNo,         \* sequence_number, which orders the rows of one key
          Archived,      \* the rows that report an archived storage class
          Rules,         \* the rules of the replication configuration
          Deletable,     \* bound: the versions that may be permanently deleted
          JournalDelay,  \* how long after its record_timestamp a row may appear
          Faults,        \* the kinds of fault considered
          MaxFaults      \* bound: faults in a behaviour

FaultKinds == {"bound", "read", "preflight", "deletes", "write", "service", "invoke"}

\* A rule with its status, its required tags and the keys under its prefix.
Rule == [enabled: BOOLEAN, tags: SUBSET Tag, keys: SUBSET Key]

Lid(o) == <<VersionOf[o], TagsOf[o]>>

ASSUME IntakeAssumption ==
    /\ VersionOf \in [Op -> Version]
    /\ KeyOf \in [Version -> Key]
    /\ TagsOf \in [Op -> SUBSET Tag]
    /\ SeqNo \in [Op -> Nat]
    /\ \A o, p \in Op : Lid(o) = Lid(p) /\ SeqNo[o] = SeqNo[p] => o = p
    /\ Archived \subseteq Op
    /\ Rules \subseteq Rule
    /\ Deletable \subseteq Version
    /\ JournalDelay \in Nat
    /\ Faults \subseteq FaultKinds
    /\ MaxFaults \in Nat

VARIABLES journal,    \* the rows Athena returns
          deleted,    \* the versions whose permanent delete it returns
          cp,         \* the stored checkpoint
          manifests,  \* the manifests submitted, in order
          run,        \* what the run holds in memory
          pc,         \* the next step of the run
          faults      \* the faults so far

ivars == <<journal, deleted, cp, manifests, run, pc, faults>>

-----------------------------------------------------------------------------
\* Of a submitted manifest: its versions, the operations of its run, and the
\* rows these were read from.  A job with an empty manifest is not submitted.
Manifest == [versions: (SUBSET Version) \ {{}}, ops: SUBSET Op, rows: SUBSET Op]

NoRun == [start |-> EmptyCheckpoint, since |-> Epoch, until |-> NoBound,
          rows |-> {}, ops |-> {}, candidate |-> Epoch,
          entries |-> {}, submitted |-> FALSE]

Steps == {"idle", "read", "build", "submit", "release"}

Fault(kind) ==
    /\ kind \in Faults
    /\ faults < MaxFaults
    /\ faults' = faults + 1

NoFault == UNCHANGED faults

GoTo(step) == pc' = step

EndRun == GoTo("idle") /\ run' = NoRun

-----------------------------------------------------------------------------
\* Rows without a usable tag set are reported and dropped.
ValidRows(rows) == {o \in rows : TagsOf[o] # {}}

SameOperation(rows, o) == {p \in rows : Lid(p) = Lid(o)}

\* Of the rows of one operation the newest is kept.
Deduplicated(rows) ==
    {o \in rows : \A p \in SameOperation(rows, o) : SeqNo[p] <= SeqNo[o]}

\* The window holds identities: any row of a processed operation is known.
Known(refs) == UNION {SameOperation(Op, o) : o \in refs}

\* Mutant: the window knows the row that was taken, not the operation.
EligibleAsRow(o) == IsEligible(o, run.start)

EligibleOp(o) == IsEligible(o, [run.start EXCEPT !.window = Known(@)])

Selected(rows) == {o \in Deduplicated(ValidRows(rows)) : EligibleOp(o)}

\* Mutant: archived rows are dropped before deduplication.
UnarchivedBefore(rows) ==
    {o \in Deduplicated(ValidRows(rows) \ Archived) : EligibleOp(o)}

\* Archived objects are left out only when the newest row is known.
Unarchived(rows) == Selected(rows) \ Archived

DerivedRules == {r \in Rules : r.enabled /\ r.tags # {}}

Matches(o) ==
    \E r \in DerivedRules :
        r.tags \subseteq TagsOf[o] /\ KeyOf[VersionOf[o]] \in r.keys

\* Where an operation stands in the read: at the first of its rows.
FirstSeen(rows, o) ==
    CHOOSE t \in {Time[p] : p \in SameOperation(ValidRows(rows), o)} :
        \A p \in SameOperation(ValidRows(rows), o) : t <= Time[p]

\* The manifest has one slot for each key, and the version that comes first in
\* the read takes it; rows of one instant come in any order.
Leading(rows, ops) ==
    {VersionOf[o] : o \in {o \in ops :
        \A p \in ops : KeyOf[VersionOf[p]] = KeyOf[VersionOf[o]]
                         => FirstSeen(rows, o) <= FirstSeen(rows, p)}}

OnePerKey(versions) ==
    {E \in SUBSET versions :
        \A v \in versions : Cardinality({u \in E : KeyOf[u] = KeyOf[v]}) = 1}

\* Mutant: the slots are filled before archived operations are left out.
SlotsOfSelected(rows, ops) ==
    UNION {OnePerKey(V) :
           V \in {Leading(rows, {o \in Selected(rows) : Matches(o)})}}

Slots(rows, ops) ==
    UNION {OnePerKey(V) : V \in {Leading(rows, {o \in ops : Matches(o)})}}

-----------------------------------------------------------------------------
\* The scalar queries that bound the read; a failing one skips the bucket.
BoundRead ==
    /\ pc = "idle"
    /\ \/ /\ run' = [NoRun EXCEPT !.start = cp,
                                  !.since = ReadSince(journal, cp.watermark),
                                  !.until = ReadUntil(journal, cp.watermark)]
          /\ GoTo("read")
          /\ NoFault
       \/ Fault("bound") /\ EndRun
    /\ UNCHANGED <<journal, deleted, cp, manifests>>

\* The read, the selection, the lease and the slots of the manifest.  With
\* nothing eligible there is no lease, and the scan is idle.
ReadJournal ==
    /\ pc = "read"
    /\ \E rows \in {RowsUpTo(journal, run.since, run.until)} :
       \E selected \in {Selected(rows)}, ops \in {Unarchived(rows)} :
          \/ selected = {} /\ EndRun /\ UNCHANGED cp
          \/ /\ selected # {}
             /\ \E entries \in Slots(rows, ops) :
                    run' = [run EXCEPT !.rows = rows, !.ops = ops,
                                       !.candidate = HighWater(selected),
                                       !.entries = entries]
             /\ cp' = [cp EXCEPT !.lease = HighWater(selected)]
             /\ GoTo("build")
    /\ NoFault
    /\ UNCHANGED <<journal, deleted, manifests>>

ReadFails ==
    /\ pc = "read"
    /\ Fault("read")
    /\ EndRun
    /\ UNCHANGED <<journal, deleted, cp, manifests>>

\* A failing query for the permanent deletes knows of none.
ReadPermanentDeletes(known) ==
    \/ known = deleted /\ NoFault
    \/ known = {} /\ run.entries # {} /\ Fault("deletes")

Surviving(entries, known) == entries \ known

\* Mutant: a manifest is submitted whatever the deletes leave of it.
BuildManifestUnchecked ==
    /\ pc = "build"
    /\ \E known \in {deleted, {}} :
           /\ ReadPermanentDeletes(known)
           /\ run' = [run EXCEPT !.entries = Surviving(@, known)]
    /\ GoTo("submit")
    /\ UNCHANGED <<journal, deleted, cp, manifests>>

BuildManifest ==
    /\ pc = "build"
    /\ \E known \in {deleted, {}} :
           /\ ReadPermanentDeletes(known)
           /\ run' = [run EXCEPT !.entries = Surviving(@, known)]
    /\ GoTo(IF run'.entries = {} THEN "release" ELSE "submit")
    /\ UNCHANGED <<journal, deleted, cp, manifests>>

\* The preflight count, or the write of the manifest.
BuildFails ==
    /\ pc = "build"
    /\ \/ Fault("preflight")
       \/ run.entries \ deleted # {} /\ Fault("write")
    /\ GoTo("release")
    /\ UNCHANGED <<journal, deleted, cp, manifests, run>>

SubmitJob ==
    /\ pc = "submit"
    /\ \/ /\ manifests' = Append(manifests, [versions |-> run.entries,
                                             ops |-> run.ops, rows |-> run.rows])
          /\ run' = [run EXCEPT !.submitted = TRUE]
          /\ NoFault
       \/ Fault("service") /\ UNCHANGED <<manifests, run>>
    /\ GoTo("release")
    /\ UNCHANGED <<journal, deleted, cp>>

\* Mutant: every matching operation is recorded, in the manifest or not.
RefsOfMatched == {o \in run.ops : Matches(o)}

\* Processed is every operation whose version is in the written manifest.
SubmittedRefs == {o \in run.ops : VersionOf[o] \in run.entries}

ReleaseLease ==
    /\ pc = "release"
    /\ cp' = AdvanceCheckpoint(cp, IF run.submitted THEN SubmittedRefs ELSE {},
                               run.candidate)
    /\ EndRun
    /\ NoFault
    /\ UNCHANGED <<journal, deleted, manifests>>

-----------------------------------------------------------------------------
\* Rows become visible out of order by less than JournalDelay.
TagObject(o) ==
    /\ o \notin journal
    /\ VersionOf[o] \notin deleted
    /\ \A p \in journal : Time[p] < Time[o] + JournalDelay
    /\ journal' = journal \cup {o}
    /\ UNCHANGED <<deleted, cp, manifests, run, pc, faults>>

DeleteVersion(v) ==
    /\ v \in Deletable \ deleted
    /\ \E o \in journal : VersionOf[o] = v
    /\ deleted' = deleted \cup {v}
    /\ UNCHANGED <<journal, cp, manifests, run, pc, faults>>

-----------------------------------------------------------------------------
Init ==
    /\ journal = {}
    /\ deleted = {}
    /\ cp = EmptyCheckpoint
    /\ manifests = <<>>
    /\ run = NoRun
    /\ pc = "idle"
    /\ faults = 0

RunStep ==
    \/ BoundRead \/ ReadJournal \/ ReadFails
    \/ BuildManifest \/ BuildFails \/ SubmitJob \/ ReleaseLease

Environment ==
    \/ \E o \in Op : TagObject(o)
    \/ \E v \in Version : DeleteVersion(v)

Next == RunStep \/ Environment

Spec == Init /\ [][Next]_ivars

-----------------------------------------------------------------------------
\* The types of the stored, remembered and submitted things: no manifest is
\* submitted that the slots or the permanent deletes left empty
\* (_build_manifest, _filter_deleted_entries).
TypeOK ==
    /\ journal \subseteq Op
    /\ deleted \subseteq Version
    /\ cp \in Checkpoints
    /\ manifests \in Seq(Manifest)
    /\ run \in [start: Checkpoints, since: Nat, until: Nat \cup {NoBound},
                rows: SUBSET Op, ops: SUBSET Op, candidate: Nat,
                entries: SUBSET Version, submitted: BOOLEAN]
    /\ pc \in Steps
    /\ faults \in Nat

\* A run that submitted a job has something to record as processed, whatever
\* was deduplicated, archived, unmatched, given no slot or deleted on the way:
\* advance_checkpoint takes an empty list for "nothing was submitted" and would
\* leave a billed job behind an unmoved watermark (_leased_manifest_and_submit,
\* build_submitted_refs).
RefsNeverEmpty == run.submitted => SubmittedRefs # {}

\* Whatever the window holds as processed was in a submitted manifest with its
\* version; what had no slot or was deleted is not held (build_submitted_refs).
ProcessedReached ==
    \A o \in cp.window : \E i \in DOMAIN manifests :
        o \in manifests[i].ops /\ VersionOf[o] \in manifests[i].versions

\* An object version goes into another manifest only for a matching operation
\* that no manifest with that version has had, or had by an earlier row: two
\* tag states of one version, or two deliveries of one row, are billed once
\* (select_eligible_operations, build_submitted_refs, is_eligible).
EntriesJustified ==
    \A i \in DOMAIN manifests : \A v \in manifests[i].versions :
        \E o \in manifests[i].ops :
            /\ VersionOf[o] = v
            /\ Matches(o)
            /\ \A h \in 1..(i - 1) : v \in manifests[h].versions =>
                   \A p \in manifests[h].ops :
                       Lid(p) = Lid(o) => Time[p] < Time[o]

\* An object whose newest row says that it is archived does not reach a
\* manifest, as long as its rows agree on its tags: the transition and the
\* tagging collapse before the storage class is looked at
\* (filter_archived_operations after select_eligible_operations).
ArchivedExcluded ==
    \A i \in DOMAIN manifests : \A v \in manifests[i].versions :
        LET rows == {o \in manifests[i].rows : VersionOf[o] = v}
        IN  (\A o, p \in rows : TagsOf[o] = TagsOf[p])
                => \E o \in rows \ Archived : \A p \in rows : SeqNo[p] <= SeqNo[o]

-----------------------------------------------------------------------------
\* A scheduler starts every interval and a started run goes on.
FairSpec == Spec /\ WF_ivars(RunStep)

Replicated(v) == \E i \in DOMAIN manifests : v \in manifests[i].versions

Excluded(o) ==
    \/ VersionOf[o] \in deleted
    \/ SameOperation(journal, o) \cap Archived # {}

\* An older version of the key was permanently deleted before it was submitted.
Shadowed(o) ==
    \E p \in journal : /\ KeyOf[VersionOf[p]] = KeyOf[VersionOf[o]]
                       /\ VersionOf[p] \in deleted
                       /\ ~ Replicated(VersionOf[p])
                       /\ Time[p] <= Time[o]

Done(o) == Replicated(VersionOf[o]) \/ Excluded(o)

\* Every version that was tagged for replication gets into a manifest, one
\* version of a key at a time, and whatever fails in between, unless it is
\* deleted or archived, or a deleted version holds the slot of its key.
EventuallyReplicated == []<>(\A o \in journal : Matches(o) => Done(o) \/ Shadowed(o))

\* The same without the last exception.
NoVersionStarves == []<>(\A o \in journal : Matches(o) => Done(o))
=============================================================================
