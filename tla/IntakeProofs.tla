---------------------------- MODULE IntakeProofs ----------------------------
(***************************************************************************)
(* What holds of ManifestIntake and RunChain for every journal,            *)
(* replication configuration, delay, lookback window and row cap, and      *)
(* whatever fails: a job's operations are recorded, a version is billed    *)
(* again only for a newer row than the ones that put it into a manifest,   *)
(* and a chain of runs ends, and drains what it was started for.           *)
(***************************************************************************)
EXTENDS RunChain, JournalProofs, SequenceTheorems

RunMemory == [start: Checkpoints, since: Nat, until: Nat \cup {NoBound},
              rows: SUBSET Op, ops: SUBSET Op, candidate: Nat,
              entries: SUBSET Version, submitted: BOOLEAN]

MatchedVersions(ops) == {VersionOf[o] : o \in {o \in ops : Matches(o)}}

\* What a run holds fits together.  Only its own steps change the watermark and
\* the window, so that what it selected against its copy of the checkpoint was
\* selected against the stored one.
RunCoherent ==
    /\ pc = "idle" => run = NoRun
    /\ pc \in {"idle", "read"} => cp.lease = NoLease
    /\ pc = "read" => run.start = cp /\ run.entries = {}
    /\ pc \in {"build", "submit", "release"} =>
           /\ run.start = [cp EXCEPT !.lease = NoLease]
           /\ run.ops = Unarchived(run.rows)
    /\ run.entries \subseteq MatchedVersions(run.ops)
    /\ pc = "submit" => run.entries # {}
    /\ run.submitted =>
           /\ pc = "release" /\ run.entries # {}
           /\ manifests # <<>>
           /\ manifests[Len(manifests)] =
                [versions |-> run.entries, ops |-> run.ops, rows |-> run.rows]

\* The operations that a manifest took are behind the watermark, and in the
\* window unless they are out of the reach of the next read.
RememberedBy(m, c) ==
    \A p \in m.ops : VersionOf[p] \in m.versions =>
        /\ c.watermark >= Time[p]
        /\ p \in c.window \/ Time[p] <= WindowStart(c.watermark)

Pending(i) == i = Len(manifests) /\ run.submitted

ManifestsCoherent ==
    \A i \in DOMAIN manifests :
        /\ manifests[i].versions \subseteq MatchedVersions(manifests[i].ops)
        /\ manifests[i].ops \subseteq Deduplicated(ValidRows(manifests[i].rows)) \ Archived
        /\ Pending(i) \/ RememberedBy(manifests[i], cp)

IntakeInv ==
    /\ TypeOK
    /\ RunCoherent
    /\ ManifestsCoherent
    /\ ProcessedReached
    /\ EntriesJustified

-----------------------------------------------------------------------------
\* A manifest has versions of matching operations only.
LEMMA SlotsMatched ==
  ASSUME NEW rows, NEW ops \in SUBSET Op, NEW E \in Slots(rows, ops)
  PROVE  E \subseteq MatchedVersions(ops)
BY DEF Slots, OnePerKey, Leading, MatchedVersions

\* A version in a manifest has a matching operation of the manifest.
LEMMA MatchedWitness ==
  ASSUME NEW ops \in SUBSET Op, NEW v \in MatchedVersions(ops)
  PROVE  \E o \in ops : Matches(o) /\ VersionOf[o] = v
BY DEF MatchedVersions

LEMMA MatchedTyped ==
  ASSUME NEW ops \in SUBSET Op
  PROVE  MatchedVersions(ops) \subseteq Version
BY IntakeAssumption DEF MatchedVersions

\* An operation that is eligible is newer than any row of it that is remembered.
LEMMA EligibleIsNewer ==
  ASSUME NEW c \in Checkpoints, NEW known \in Checkpoints,
         known.watermark = c.watermark, known.window = Known(c.window),
         NEW o \in Op, NEW p \in Op, Lid(p) = Lid(o),
         IsEligible(o, known),
         c.watermark >= Time[p],
         p \in c.window \/ Time[p] <= WindowStart(c.watermark)
  PROVE  Time[p] < Time[o]
<1>1. Time[p] \in Nat \ {0} /\ Time[o] \in Nat \ {0} /\ c.watermark \in Nat
  BY CheckpointAssumption DEF Checkpoints
<1>2. CASE Time[o] > c.watermark
  BY <1>1, <1>2
<1>3. CASE LateArrival(o, known)
  <2>1. Time[o] > WindowStart(c.watermark) /\ o \notin Known(c.window)
    BY <1>3 DEF LateArrival
  <2>2. p \notin c.window
    BY <2>1 DEF Known, SameOperation
  <2>3. WindowStart(c.watermark) \in Nat
    BY <1>1, WindowStartMonotone
  <2> QED BY <1>1, <2>1, <2>2, <2>3
<1>4. c.watermark # Epoch
  BY <1>1 DEF Epoch
<1> QED BY <1>2, <1>3, <1>4 DEF IsEligible

\* What advance_checkpoint makes of a checkpoint remembers the operations that
\* were submitted, and those remembered before.
LEMMA AdvanceRemembers ==
  ASSUME NEW c \in Checkpoints, NEW refs \in SUBSET Op, refs # {},
         NEW candidate \in Nat,
         NEW p \in Op,
         \/ p \in refs
         \/ /\ c.watermark >= Time[p]
            /\ p \in c.window \/ Time[p] <= WindowStart(c.watermark)
  PROVE  LET next == AdvanceCheckpoint(c, refs, candidate)
         IN  /\ next.watermark >= Time[p]
             /\ p \in next.window \/ Time[p] <= WindowStart(next.watermark)
<1> DEFINE next == AdvanceCheckpoint(c, refs, candidate)
           w    == Later(c.watermark, Later(HighWater(refs), candidate))
<1>1. /\ HighWater(refs) \in Nat
      /\ \A o \in refs : Time[o] <= HighWater(refs)
  BY HighWaterIsATime
<1>2. /\ c.watermark \in Nat /\ w \in Nat
      /\ w >= c.watermark /\ w >= HighWater(refs)
  BY <1>1 DEF Later, Checkpoints
<1>3. /\ next.watermark = w
      /\ next.window = PruneWindow(c.window \cup refs, WindowStart(w))
  BY DEF AdvanceCheckpoint
<1>4. Time[p] \in Nat
  BY CheckpointAssumption
<1>5. /\ WindowStart(c.watermark) \in Nat /\ WindowStart(w) \in Nat
      /\ WindowStart(c.watermark) <= WindowStart(w)
  BY <1>2, WindowStartMonotone
<1>6. w >= Time[p]
  BY <1>1, <1>2, <1>4
<1>7. p \in next.window \/ Time[p] <= WindowStart(w)
  BY <1>3, <1>4, <1>5 DEF PruneWindow
<1> QED BY <1>3, <1>6, <1>7

-----------------------------------------------------------------------------
LEMMA IntakeTypes ==
  ASSUME TypeOK
  PROVE  /\ journal \in SUBSET Op
         /\ cp \in Checkpoints /\ run \in RunMemory
         /\ manifests \in Seq(Manifest)
         /\ cp.watermark \in Nat /\ cp.lease \in Nat /\ cp.window \in SUBSET Op
         /\ run.start \in Checkpoints
         /\ run.rows \in SUBSET Op /\ run.ops \in SUBSET Op
         /\ run.candidate \in Nat /\ run.entries \in SUBSET Version
BY DEF TypeOK, RunMemory, Checkpoints

LEMMA NoRunTyped == NoRun \in RunMemory /\ EmptyCheckpoint \in Checkpoints
BY DEF NoRun, RunMemory, EmptyCheckpoint, Checkpoints, Epoch, NoLease

LEMMA SelectedTyped ==
  ASSUME NEW rows \in SUBSET Op
  PROVE  /\ Selected(rows) \in SUBSET Op
         /\ Unarchived(rows) \in SUBSET Op
         /\ Unarchived(rows) \subseteq Deduplicated(ValidRows(rows)) \ Archived
         /\ Unarchived(rows) \subseteq Selected(rows)
BY DEF Selected, Unarchived, Deduplicated, ValidRows

\* What a run submits is a manifest.
LEMMA SubmittedTyped ==
  ASSUME TypeOK, RunCoherent, pc = "submit"
  PROVE  [versions |-> run.entries, ops |-> run.ops, rows |-> run.rows] \in Manifest
<1>0. pc = "submit" => run.entries # {}
  BY DEF RunCoherent
<1>1. run.entries \in (SUBSET Version) \ {{}}
  BY <1>0, IntakeTypes
<1>2. run.ops \in SUBSET Op /\ run.rows \in SUBSET Op
  BY IntakeTypes
<1> QED BY <1>1, <1>2 DEF Manifest

\* Every step keeps the types.
LEMMA IntakeTypeStep ==
  ASSUME TypeOK, RunCoherent, [Next]_ivars
  PROVE  TypeOK'
<1>0. /\ journal \in SUBSET Op /\ cp \in Checkpoints /\ run \in RunMemory
      /\ manifests \in Seq(Manifest) /\ faults \in Nat /\ pc \in Steps
      /\ deleted \in SUBSET Version
  BY IntakeTypes DEF TypeOK
<1>1. CASE BoundRead
  <2>1. /\ ReadSince(journal, cp.watermark) \in Nat
        /\ ReadUntil(journal, cp.watermark) \in Nat \cup {NoBound}
    BY <1>0, BoundsType, IntakeTypes
  <2>2. run' \in RunMemory
    BY <1>0, <1>1, <2>1, NoRunTyped DEF BoundRead, EndRun, RunMemory, NoRun
  <2>3. pc' \in Steps /\ faults' \in Nat
    BY <1>0, <1>1 DEF BoundRead, EndRun, GoTo, Steps, Fault, NoFault
  <2> QED BY <1>0, <1>1, <2>2, <2>3 DEF BoundRead, TypeOK, RunMemory
<1>2. CASE ReadJournal
  <2>1. PICK rows \in {RowsUpTo(journal, run.since, run.until)} :
        \E selected \in {Selected(rows)}, ops \in {Unarchived(rows)} :
          \/ selected = {} /\ EndRun /\ UNCHANGED cp
          \/ /\ selected # {}
             /\ \E entries \in Slots(rows, ops) :
                    run' = [run EXCEPT !.rows = rows, !.ops = ops,
                                       !.candidate = HighWater(selected),
                                       !.entries = entries]
             /\ cp' = [cp EXCEPT !.lease = HighWater(selected)]
             /\ GoTo("build")
    BY <1>2 DEF ReadJournal
  <2>2. /\ rows \in SUBSET Op
        /\ Selected(rows) \in SUBSET Op /\ Unarchived(rows) \in SUBSET Op
    BY <1>0, SelectedTyped DEF RowsUpTo
  <2>3. CASE EndRun /\ UNCHANGED cp
    BY <1>0, <1>2, <2>3, NoRunTyped
       DEF ReadJournal, EndRun, GoTo, NoFault, TypeOK, RunMemory, Steps
  <2>4. CASE ~ (EndRun /\ UNCHANGED cp)
    <3>1. PICK entries \in Slots(rows, Unarchived(rows)) :
            /\ Selected(rows) # {}
            /\ run' = [run EXCEPT !.rows = rows, !.ops = Unarchived(rows),
                                  !.candidate = HighWater(Selected(rows)),
                                  !.entries = entries]
            /\ cp' = [cp EXCEPT !.lease = HighWater(Selected(rows))]
            /\ GoTo("build")
      BY <2>1, <2>4
    <3>2. HighWater(Selected(rows)) \in Nat
      BY <2>2, <3>1, HighWaterIsATime
    <3>3. entries \in SUBSET Version
      BY <2>2, <3>1, SlotsMatched, MatchedTyped
    <3>4. run' \in RunMemory
      BY <1>0, <2>2, <3>1, <3>2, <3>3 DEF RunMemory
    <3>5. cp' \in Checkpoints
      BY <1>0, <3>1, <3>2 DEF Checkpoints
    <3>6. pc' \in Steps /\ faults' \in Nat
      BY <1>0, <1>2, <3>1 DEF ReadJournal, GoTo, NoFault, Steps
    <3> QED BY <1>0, <1>2, <3>4, <3>5, <3>6 DEF ReadJournal, TypeOK, RunMemory
  <2> QED BY <2>3, <2>4
<1>3. CASE ReadFails
  BY <1>0, <1>3, NoRunTyped
     DEF ReadFails, EndRun, Fault, GoTo, TypeOK, RunMemory, Steps
<1>4. CASE BuildManifest \/ BuildFails
  <2>1. run' \in RunMemory
    BY <1>0, <1>4
       DEF BuildManifest, ReadPermanentDeletes, Surviving, BuildFails, RunMemory
  <2>2. pc' \in Steps /\ faults' \in Nat
    BY <1>0, <1>4
       DEF BuildManifest, ReadPermanentDeletes, BuildFails, Fault, NoFault, GoTo, Steps
  <2>3. UNCHANGED <<journal, deleted, cp, manifests>>
    BY <1>4 DEF BuildManifest, BuildFails
  <2> QED BY <1>0, <2>1, <2>2, <2>3 DEF TypeOK, RunMemory
<1>5. CASE SubmitJob
  <2> DEFINE m == [versions |-> run.entries, ops |-> run.ops, rows |-> run.rows]
  <2>1. m \in Manifest
    BY <1>0, <1>5, SubmittedTyped DEF SubmitJob
  <2>2. manifests' \in {manifests, Append(manifests, m)}
    BY <1>5 DEF SubmitJob
  <2>3. manifests' \in Seq(Manifest)
    BY <1>0, <2>1, <2>2, AppendProperties
  <2>4. run' \in RunMemory
    BY <1>0, <1>5 DEF SubmitJob, RunMemory
  <2>5. pc' \in Steps /\ faults' \in Nat
    BY <1>0, <1>5 DEF SubmitJob, GoTo, NoFault, Fault, Steps
  <2> QED BY <1>0, <1>5, <2>3, <2>4, <2>5 DEF SubmitJob, TypeOK, RunMemory
<1>6. CASE ReleaseLease
  <2>1. SubmittedRefs \in SUBSET Op /\ run.candidate \in Nat
    BY <1>0 DEF SubmittedRefs, RunMemory
  <2>2. cp' \in Checkpoints
    BY <1>0, <1>6, <2>1, AdvanceCheckpointMonotone DEF ReleaseLease
  <2> QED BY <1>0, <1>6, <2>2, NoRunTyped
          DEF ReleaseLease, EndRun, NoFault, GoTo, TypeOK, RunMemory, Steps
<1>7. CASE Environment
  BY <1>0, <1>7 DEF Environment, TagObject, DeleteVersion, TypeOK, RunMemory
<1>8. CASE UNCHANGED ivars
  BY <1>0, <1>8 DEF ivars, TypeOK, RunMemory
<1> QED BY <1>1, <1>2, <1>3, <1>4, <1>5, <1>6, <1>7, <1>8 DEF Next, RunStep

\* Every step keeps what a run holds together.
LEMMA CoherentStep ==
  ASSUME TypeOK, RunCoherent, [Next]_ivars
  PROVE  RunCoherent'
<1>0. /\ cp \in Checkpoints /\ run \in RunMemory
      /\ manifests \in Seq(Manifest) /\ pc \in Steps
  BY IntakeTypes DEF TypeOK
<1>E. ASSUME EndRun, UNCHANGED manifests, cp'.lease = NoLease
      PROVE  RunCoherent'
  BY <1>E DEF EndRun, GoTo, RunCoherent, NoRun
<1>1. CASE BoundRead
  <2>1. CASE EndRun
    BY <1>E, <1>1, <2>1 DEF BoundRead, RunCoherent
  <2>2. CASE ~ EndRun
    <3>1. /\ pc' = "read" /\ run'.start = cp /\ run'.entries = {}
          /\ run'.ops = {} /\ run'.submitted = FALSE
          /\ UNCHANGED <<cp, manifests>>
      BY <1>1, <2>2 DEF BoundRead, GoTo, NoRun
    <3>2. cp.lease = NoLease
      BY <1>1 DEF BoundRead, RunCoherent
    <3> QED BY <3>1, <3>2 DEF RunCoherent
  <2> QED BY <2>1, <2>2
<1>2. CASE ReadJournal
  <2>1. PICK rows \in {RowsUpTo(journal, run.since, run.until)} :
        \E selected \in {Selected(rows)}, ops \in {Unarchived(rows)} :
          \/ selected = {} /\ EndRun /\ UNCHANGED cp
          \/ /\ selected # {}
             /\ \E entries \in Slots(rows, ops) :
                    run' = [run EXCEPT !.rows = rows, !.ops = ops,
                                       !.candidate = HighWater(selected),
                                       !.entries = entries]
             /\ cp' = [cp EXCEPT !.lease = HighWater(selected)]
             /\ GoTo("build")
    BY <1>2 DEF ReadJournal
  <2>2. /\ pc = "read" /\ cp.lease = NoLease /\ run.start = cp
        /\ UNCHANGED manifests /\ run.submitted = FALSE
    BY <1>0, <1>2 DEF ReadJournal, RunCoherent, RunMemory
  <2>3. CASE EndRun /\ UNCHANGED cp
    BY <1>E, <2>2, <2>3
  <2>4. CASE ~ (EndRun /\ UNCHANGED cp)
    <3>1. PICK entries \in Slots(rows, Unarchived(rows)) :
            /\ run' = [run EXCEPT !.rows = rows, !.ops = Unarchived(rows),
                                  !.candidate = HighWater(Selected(rows)),
                                  !.entries = entries]
            /\ cp' = [cp EXCEPT !.lease = HighWater(Selected(rows))]
            /\ GoTo("build")
      BY <2>1, <2>4
    <3>2. /\ pc' = "build" /\ run'.rows = rows /\ run'.ops = Unarchived(rows)
          /\ run'.start = run.start /\ run'.entries = entries
          /\ run'.submitted = run.submitted
      BY <1>0, <3>1 DEF RunMemory, GoTo
    <3>3. run'.start = [cp' EXCEPT !.lease = NoLease]
      BY <1>0, <2>2, <3>1, <3>2 DEF Checkpoints
    <3>4. Unarchived(rows) = (Unarchived(run.rows))'
      BY <3>2 DEF Unarchived, Selected, EligibleOp
    <3>5. rows \in SUBSET Op
      BY IntakeTypes DEF RowsUpTo
    <3>6. entries \subseteq MatchedVersions(Unarchived(rows))
      BY <3>1, <3>5, SelectedTyped, SlotsMatched
    <3> QED BY <2>2, <3>2, <3>3, <3>4, <3>6 DEF RunCoherent
  <2> QED BY <2>3, <2>4
<1>3. CASE ReadFails
  BY <1>E, <1>3 DEF ReadFails, RunCoherent
<1>4. CASE BuildManifest \/ BuildFails
  <2>1. /\ pc = "build" /\ pc' \in {"submit", "release"}
        /\ pc' = "submit" => run'.entries # {}
        /\ run'.entries \subseteq run.entries
        /\ run'.start = run.start /\ run'.ops = run.ops /\ run'.rows = run.rows
        /\ run'.submitted = run.submitted
        /\ UNCHANGED <<cp, manifests>>
    BY <1>0, <1>4
       DEF BuildManifest, ReadPermanentDeletes, Surviving, BuildFails, GoTo, RunMemory
  <2>2. Unarchived(run.rows) = (Unarchived(run.rows))'
    BY <2>1 DEF Unarchived, Selected, EligibleOp
  <2>3. run.submitted = FALSE
    BY <1>0, <2>1 DEF RunCoherent, RunMemory
  <2> QED BY <2>1, <2>2, <2>3 DEF RunCoherent
<1>5. CASE SubmitJob
  <2> DEFINE m == [versions |-> run.entries, ops |-> run.ops, rows |-> run.rows]
  <2>1. /\ pc = "submit" /\ pc' = "release"
        /\ run' \in {run, [run EXCEPT !.submitted = TRUE]}
        /\ run' # run => manifests' = Append(manifests, m)
        /\ UNCHANGED cp
    BY <1>5 DEF SubmitJob, GoTo
  <2>2. /\ run'.start = run.start /\ run'.ops = run.ops /\ run'.rows = run.rows
        /\ run'.entries = run.entries
    BY <1>0, <2>1 DEF RunMemory
  <2>3. Unarchived(run.rows) = (Unarchived(run.rows))'
    BY <2>2 DEF Unarchived, Selected, EligibleOp
  <2>4. run.submitted = FALSE /\ run.entries # {}
    BY <1>0, <2>1 DEF RunCoherent, RunMemory
  <2>5. run'.submitted => manifests' # <<>> /\ manifests'[Len(manifests')] = m
    <3>1. SUFFICES ASSUME run'.submitted
                   PROVE  manifests' # <<>> /\ manifests'[Len(manifests')] = m
      OBVIOUS
    <3>2. manifests' = Append(manifests, m)
      BY <2>1, <2>4, <3>1
    <3>3. m \in Manifest
      BY <2>1, SubmittedTyped
    <3> HIDE DEF m
    <3> QED BY <1>0, <3>2, <3>3, AppendProperties
  <2> QED BY <2>1, <2>2, <2>3, <2>4, <2>5 DEF RunCoherent
<1>6. CASE ReleaseLease
  <2>1. SubmittedRefs \in SUBSET Op /\ run.candidate \in Nat
    BY <1>0 DEF SubmittedRefs, RunMemory
  <2>2. cp'.lease = NoLease
    BY <1>0, <1>6, <2>1, AdvanceCheckpointMonotone DEF ReleaseLease
  <2> QED BY <1>E, <1>6, <2>2 DEF ReleaseLease
<1>7. CASE Environment \/ UNCHANGED ivars
  <2>1. UNCHANGED <<cp, run, pc, manifests>>
    BY <1>7 DEF Environment, TagObject, DeleteVersion, ivars
  <2>2. Unarchived(run.rows) = (Unarchived(run.rows))'
    BY <2>1 DEF Unarchived, Selected, EligibleOp
  <2> QED BY <2>1, <2>2 DEF RunCoherent
<1> QED BY <1>1, <1>2, <1>3, <1>4, <1>5, <1>6, <1>7 DEF Next, RunStep

\* A run that submitted records an operation of each version of its manifest.
LEMMA SubmittedRefsNotEmpty ==
  ASSUME TypeOK, RunCoherent, run.submitted
  PROVE  SubmittedRefs # {} /\ SubmittedRefs \in SUBSET run.ops
<1>1. PICK v \in run.entries : TRUE
  BY DEF RunCoherent
<1>2. v \in MatchedVersions(run.ops) /\ run.ops \in SUBSET Op
  BY <1>1, IntakeTypes DEF RunCoherent
<1>3. PICK o \in run.ops : VersionOf[o] = v
  BY <1>2, MatchedWitness
<1> QED BY <1>1, <1>3 DEF SubmittedRefs

\* The steps by what they do to the manifests and to what is remembered: one
\* adds a manifest, one advances the checkpoint, and no other does either.
LEMMA IntakeSteps ==
  ASSUME TypeOK, RunCoherent, [Next]_ivars
  PROVE  \/ /\ pc = "submit" /\ run'.submitted /\ ~ run.submitted
            /\ manifests' = Append(manifests, [versions |-> run.entries,
                                               ops |-> run.ops, rows |-> run.rows])
            /\ cp' = cp
         \/ ReleaseLease
         \/ /\ manifests' = manifests /\ run'.submitted = run.submitted
            /\ cp'.watermark = cp.watermark /\ cp'.window = cp.window
<1>0. cp \in Checkpoints /\ run \in RunMemory
  BY IntakeTypes
<1>1. NoRun.submitted = FALSE
  BY DEF NoRun
<1>2. CASE SubmitJob
  <2>1. run.submitted = FALSE
    BY <1>0, <1>2 DEF SubmitJob, RunCoherent, RunMemory
  <2> QED BY <1>0, <1>2, <2>1 DEF SubmitJob, RunMemory
<1>3. CASE ReleaseLease
  BY <1>3
<1>4. CASE BoundRead \/ ReadJournal \/ ReadFails
  <2>1. run.submitted = FALSE
    BY <1>0, <1>4 DEF BoundRead, ReadJournal, ReadFails, RunCoherent, RunMemory
  <2>2. run'.submitted = FALSE
    BY <1>0, <1>1, <1>4, <2>1
       DEF BoundRead, ReadJournal, ReadFails, EndRun, RunMemory, NoRun
  <2>3. UNCHANGED manifests /\ \/ UNCHANGED cp
                               \/ \E l : cp' = [cp EXCEPT !.lease = l]
    BY <1>4 DEF BoundRead, ReadJournal, ReadFails
  <2> QED BY <1>0, <2>1, <2>2, <2>3 DEF Checkpoints
<1>5. CASE BuildManifest \/ BuildFails
  BY <1>0, <1>5
     DEF BuildManifest, ReadPermanentDeletes, Surviving, BuildFails, RunMemory
<1>6. CASE Environment \/ UNCHANGED ivars
  BY <1>6 DEF Environment, TagObject, DeleteVersion, ivars
<1> QED BY <1>2, <1>3, <1>4, <1>5, <1>6 DEF Next, RunStep

\* Every step keeps the submitted manifests together.
LEMMA ManifestsStep ==
  ASSUME TypeOK, RunCoherent, ManifestsCoherent, [Next]_ivars
  PROVE  ManifestsCoherent'
<1> DEFINE m == [versions |-> run.entries, ops |-> run.ops, rows |-> run.rows]
<1>0. /\ cp \in Checkpoints /\ run \in RunMemory /\ manifests \in Seq(Manifest)
      /\ pc = "submit" => m \in Manifest
  BY IntakeTypes, SubmittedTyped
<1>1. CASE /\ pc = "submit" /\ run'.submitted /\ ~ run.submitted
           /\ manifests' = Append(manifests, m) /\ cp' = cp
  <2>1. /\ Len(manifests') = Len(manifests) + 1
        /\ \A i \in 1..Len(manifests) : manifests'[i] = manifests[i]
        /\ manifests'[Len(manifests) + 1] = m
        /\ DOMAIN manifests' = 1..(Len(manifests) + 1)
        /\ DOMAIN manifests = 1..Len(manifests)
        /\ Len(manifests) \in Nat
    <3> HIDE DEF m
    <3> QED BY <1>0, <1>1, AppendProperties, LenProperties
  <2>2. /\ m.versions \subseteq MatchedVersions(m.ops)
        /\ m.ops \subseteq Deduplicated(ValidRows(m.rows)) \ Archived
    BY <1>0, <1>1, SelectedTyped DEF RunCoherent, RunMemory
  <2>3. ASSUME NEW i \in 1..Len(manifests)
        PROVE  RememberedBy(manifests[i], cp)
    BY <1>1, <2>1, <2>3 DEF ManifestsCoherent, Pending
  <2> HIDE DEF m
  <2>4. ASSUME NEW i \in DOMAIN manifests'
        PROVE  /\ manifests'[i].versions \subseteq MatchedVersions(manifests'[i].ops)
               /\ manifests'[i].ops
                    \subseteq Deduplicated(ValidRows(manifests'[i].rows)) \ Archived
               /\ Pending(i)' \/ RememberedBy(manifests'[i], cp')
    <3>1. CASE i = Len(manifests) + 1
      BY <1>1, <2>1, <2>2, <3>1 DEF Pending
    <3>2. CASE i \in 1..Len(manifests)
      <4>1. manifests'[i] = manifests[i]
        BY <2>1, <3>2
      <4>2. RememberedBy(manifests'[i], cp')
        BY <1>1, <2>3, <3>2, <4>1
      <4> QED BY <2>1, <3>2, <4>1, <4>2 DEF ManifestsCoherent
    <3> QED BY <2>1, <3>1, <3>2
  <2> QED BY <2>4 DEF ManifestsCoherent
<1>2. CASE ReleaseLease
  <2>1. manifests' = manifests
    BY <1>2 DEF ReleaseLease
  <2>2. CASE ~ run.submitted
    <3>1. cp' = [cp EXCEPT !.lease = NoLease] /\ run'.submitted = FALSE
      BY <1>2, <2>2 DEF ReleaseLease, AdvanceCheckpoint, EndRun, NoRun
    <3>2. cp'.watermark = cp.watermark /\ cp'.window = cp.window
      BY <1>0, <3>1 DEF Checkpoints
    <3> QED BY <2>1, <2>2, <3>1, <3>2 DEF ManifestsCoherent, Pending, RememberedBy
  <2>3. CASE run.submitted
    <3>1. SubmittedRefs # {} /\ SubmittedRefs \in SUBSET Op /\ run.candidate \in Nat
      BY <1>0, <2>3, SubmittedRefsNotEmpty DEF RunMemory
    <3>2. cp' = AdvanceCheckpoint(cp, SubmittedRefs, run.candidate)
      BY <1>2, <2>3 DEF ReleaseLease
    <3>3. manifests # <<>> /\ manifests[Len(manifests)] = m
      BY <2>3 DEF RunCoherent
    <3>4. ASSUME NEW i \in DOMAIN manifests, NEW p \in manifests[i].ops,
                 VersionOf[p] \in manifests[i].versions
          PROVE  /\ cp'.watermark >= Time[p]
                 /\ p \in cp'.window \/ Time[p] <= WindowStart(cp'.watermark)
      <4>0. manifests[i] \in Manifest
        BY <1>0, <3>4, ElementOfSeq, LenProperties
      <4>1. p \in Op
        BY <3>4, <4>0 DEF Manifest
      <4>2. CASE i = Len(manifests)
        <5>1. p \in SubmittedRefs
          BY <3>3, <3>4, <4>2 DEF SubmittedRefs
        <5> QED BY <1>0, <3>1, <3>2, <4>1, <5>1, AdvanceRemembers
      <4>3. CASE i # Len(manifests)
        <5>1. /\ cp.watermark >= Time[p]
              /\ p \in cp.window \/ Time[p] <= WindowStart(cp.watermark)
          BY <3>4, <4>3 DEF ManifestsCoherent, Pending, RememberedBy
        <5> QED BY <1>0, <3>1, <3>2, <4>1, <5>1, AdvanceRemembers
      <4> QED BY <4>2, <4>3
    <3> QED BY <2>1, <3>4 DEF ManifestsCoherent, RememberedBy
  <2> QED BY <2>2, <2>3
<1>3. CASE /\ manifests' = manifests /\ run'.submitted = run.submitted
           /\ cp'.watermark = cp.watermark /\ cp'.window = cp.window
  BY <1>3 DEF ManifestsCoherent, Pending, RememberedBy
<1> QED BY <1>1, <1>2, <1>3, IntakeSteps

\* Every step keeps what is processed within what was submitted.
LEMMA ProcessedStep ==
  ASSUME TypeOK, RunCoherent, ProcessedReached, [Next]_ivars
  PROVE  ProcessedReached'
<1> DEFINE m == [versions |-> run.entries, ops |-> run.ops, rows |-> run.rows]
<1>0. /\ cp \in Checkpoints /\ run \in RunMemory /\ manifests \in Seq(Manifest)
      /\ pc = "submit" => m \in Manifest
  BY IntakeTypes, SubmittedTyped
<1>1. CASE manifests' = Append(manifests, m) /\ cp' = cp
  <2>1. \A i \in DOMAIN manifests : i \in DOMAIN manifests' /\ manifests'[i] = manifests[i]
    <3> HIDE DEF m
    <3> QED BY <1>0, <1>1, AppendProperties, LenProperties
  <2> HIDE DEF m
  <2> QED BY <1>1, <2>1 DEF ProcessedReached
<1>2. CASE ReleaseLease
  <2>1. manifests' = manifests
    BY <1>2 DEF ReleaseLease
  <2>2. CASE ~ run.submitted
    <3>1. cp'.window = cp.window
      BY <1>0, <1>2, <2>2 DEF ReleaseLease, AdvanceCheckpoint, Checkpoints
    <3> QED BY <2>1, <3>1 DEF ProcessedReached
  <2>3. CASE run.submitted
    <3>1. SubmittedRefs # {}
      BY <2>3, SubmittedRefsNotEmpty
    <3>2. cp'.window \subseteq cp.window \cup SubmittedRefs
      BY <1>2, <2>3, <3>1 DEF ReleaseLease, AdvanceCheckpoint, PruneWindow
    <3>3. Len(manifests) \in DOMAIN manifests /\ manifests[Len(manifests)] = m
      BY <1>0, <2>3, LenProperties, EmptySeq DEF RunCoherent
    <3>4. \A o \in SubmittedRefs : \E i \in DOMAIN manifests :
            o \in manifests[i].ops /\ VersionOf[o] \in manifests[i].versions
      BY <3>3 DEF SubmittedRefs
    <3> QED BY <2>1, <3>2, <3>4 DEF ProcessedReached
  <2> QED BY <2>2, <2>3
<1>3. CASE manifests' = manifests /\ cp'.window = cp.window
  BY <1>3 DEF ProcessedReached
<1> QED BY <1>1, <1>2, <1>3, IntakeSteps

\* A manifest that is added bills a version for a row that is newer than every
\* row of the same operation that earlier manifests with the version had.
LEMMA JustifiedStep ==
  ASSUME TypeOK, RunCoherent, ManifestsCoherent, EntriesJustified, [Next]_ivars
  PROVE  EntriesJustified'
<1> DEFINE m == [versions |-> run.entries, ops |-> run.ops, rows |-> run.rows]
           Justified(ms, i) ==
             \A v \in ms[i].versions : \E o \in ms[i].ops :
               /\ VersionOf[o] = v
               /\ Matches(o)
               /\ \A h \in 1..(i - 1) : v \in ms[h].versions =>
                      \A p \in ms[h].ops : Lid(p) = Lid(o) => Time[p] < Time[o]
<1>0. /\ cp \in Checkpoints /\ run \in RunMemory /\ manifests \in Seq(Manifest)
      /\ pc = "submit" => m \in Manifest
  BY IntakeTypes, SubmittedTyped
<1>1. CASE /\ pc = "submit" /\ ~ run.submitted
           /\ manifests' = Append(manifests, m)
  <2>1. /\ \A i \in 1..Len(manifests) : manifests'[i] = manifests[i]
        /\ manifests'[Len(manifests) + 1] = m
        /\ DOMAIN manifests' = 1..(Len(manifests) + 1)
        /\ DOMAIN manifests = 1..Len(manifests)
        /\ Len(manifests) \in Nat
    <3> HIDE DEF m
    <3> QED BY <1>0, <1>1, AppendProperties, LenProperties
  <2>2. ASSUME NEW v \in run.entries
        PROVE  \E o \in run.ops :
                 /\ VersionOf[o] = v
                 /\ Matches(o)
                 /\ \A h \in 1..Len(manifests) : v \in manifests[h].versions =>
                        \A p \in manifests[h].ops : Lid(p) = Lid(o) => Time[p] < Time[o]
    <3>1. PICK o \in run.ops : Matches(o) /\ VersionOf[o] = v
      BY <1>0, MatchedWitness DEF RunCoherent, RunMemory
    <3>2. /\ o \in Op
          /\ IsEligible(o, [run.start EXCEPT !.window = Known(@)])
          /\ run.start = [cp EXCEPT !.lease = NoLease]
      BY <1>0, <1>1 DEF RunCoherent, Unarchived, Selected, EligibleOp, RunMemory
    <3> DEFINE known == [run.start EXCEPT !.window = Known(@)]
    <3>3. /\ known \in Checkpoints
          /\ known.watermark = cp.watermark /\ known.window = Known(cp.window)
      <4>1. run.start \in Checkpoints /\ run.start.watermark = cp.watermark
            /\ run.start.window = cp.window
        BY <1>0, <3>2 DEF Checkpoints, NoLease
      <4>2. Known(cp.window) \in SUBSET Op
        BY DEF Known, SameOperation
      <4> QED BY <4>1, <4>2 DEF Checkpoints
    <3>4. IsEligible(o, known)
      BY <3>2
    <3> HIDE DEF known
    <3>5. ASSUME NEW h \in 1..Len(manifests), v \in manifests[h].versions,
                 NEW p \in manifests[h].ops, Lid(p) = Lid(o)
          PROVE  Time[p] < Time[o]
      <4>0. manifests[h] \in Manifest
        BY <1>0, <3>5, ElementOfSeq, LenProperties
      <4>1. p \in Op
        BY <3>5, <4>0 DEF Manifest
      <4>2. VersionOf[p] = v
        BY <3>1, <3>5 DEF Lid
      <4>3. RememberedBy(manifests[h], cp)
        BY <1>1, <2>1 DEF ManifestsCoherent, Pending
      <4>4. /\ cp.watermark >= Time[p]
            /\ p \in cp.window \/ Time[p] <= WindowStart(cp.watermark)
        BY <3>5, <4>2, <4>3 DEF RememberedBy
      <4> QED BY <1>0, <3>2, <3>3, <3>4, <3>5, <4>1, <4>4, EligibleIsNewer
    <3> QED BY <3>1, <3>5
  <2>3. ASSUME NEW i \in DOMAIN manifests' PROVE Justified(manifests', i)
    <3>1. CASE i = Len(manifests) + 1
      BY <2>1, <2>2, <3>1
    <3>2. CASE i \in 1..Len(manifests)
      <4>1. Justified(manifests, i)
        BY <2>1, <3>2 DEF EntriesJustified
      <4>2. \A h \in 1..(i - 1) : manifests'[h] = manifests[h]
        BY <2>1, <3>2
      <4>3. manifests'[i] = manifests[i]
        BY <2>1, <3>2
      <4> QED BY <4>1, <4>2, <4>3
    <3> QED BY <2>1, <3>1, <3>2
  <2> QED BY <2>3 DEF EntriesJustified
<1>2. CASE manifests' = manifests
  BY <1>2 DEF EntriesJustified
<1> QED BY <1>1, <1>2, IntakeSteps DEF ReleaseLease

-----------------------------------------------------------------------------
LEMMA IntakeInductive ==
  /\ Init => IntakeInv
  /\ IntakeInv /\ [Next]_ivars => IntakeInv'
<1>1. Init => IntakeInv
  <2>1. ASSUME Init PROVE TypeOK
    BY <2>1, NoRunTyped, EmptySeq DEF Init, TypeOK, RunMemory, Steps
  <2>2. ASSUME Init PROVE RunCoherent
    BY <2>2 DEF Init, RunCoherent, NoRun, EmptyCheckpoint
  <2>3. ASSUME Init
        PROVE  ManifestsCoherent /\ ProcessedReached /\ EntriesJustified
    BY <2>3 DEF Init, ManifestsCoherent, ProcessedReached, EntriesJustified,
                EmptyCheckpoint
  <2> QED BY <2>1, <2>2, <2>3 DEF IntakeInv
<1>2. IntakeInv /\ [Next]_ivars => IntakeInv'
  BY IntakeTypeStep, CoherentStep, ManifestsStep, ProcessedStep, JustifiedStep
     DEF IntakeInv
<1> QED BY <1>1, <1>2

\* TypeOK holds in every run of ManifestIntake.
THEOREM IntakeTypeOK == Spec => []TypeOK
<1>1. IntakeInv => TypeOK
  BY DEF IntakeInv
<1> QED BY <1>1, IntakeInductive, PTL DEF Spec

\* RefsNeverEmpty: a billed job never leaves its checkpoint where it was.
THEOREM IntakeRefsNeverEmpty == Spec => []RefsNeverEmpty
<1>1. IntakeInv => RefsNeverEmpty
  BY SubmittedRefsNotEmpty DEF IntakeInv, RefsNeverEmpty
<1> QED BY <1>1, IntakeInductive, PTL DEF Spec

\* ProcessedReached: nothing is taken for processed that no manifest had.
THEOREM IntakeProcessedReached == Spec => []ProcessedReached
<1>1. IntakeInv => ProcessedReached
  BY DEF IntakeInv
<1> QED BY <1>1, IntakeInductive, PTL DEF Spec

\* EntriesJustified: no row, and no earlier row of the same operation, bills a
\* version a second time.
THEOREM IntakeEntriesJustified == Spec => []EntriesJustified
<1>1. IntakeInv => EntriesJustified
  BY DEF IntakeInv
<1> QED BY <1>1, IntakeInductive, PTL DEF Spec

\* ArchivedExcluded: a version whose rows agree on its tags, and whose newest
\* row is an archived one, is in no manifest.
THEOREM IntakeArchivedExcluded == Spec => []ArchivedExcluded
<1>1. ASSUME IntakeInv PROVE ArchivedExcluded
  <2>1. ASSUME NEW i \in DOMAIN manifests, NEW v \in manifests[i].versions
        PROVE  LET rows == {o \in manifests[i].rows : VersionOf[o] = v}
               IN  (\A o, p \in rows : TagsOf[o] = TagsOf[p])
                     => \E o \in rows \ Archived : \A p \in rows : SeqNo[p] <= SeqNo[o]
    <3> DEFINE rows == {o \in manifests[i].rows : VersionOf[o] = v}
    <3>0. manifests[i] \in Manifest
      BY <1>1, IntakeTypes, ElementOfSeq, LenProperties DEF IntakeInv
    <3>1. /\ manifests[i].versions \subseteq MatchedVersions(manifests[i].ops)
          /\ manifests[i].ops
               \subseteq Deduplicated(ValidRows(manifests[i].rows)) \ Archived
          /\ manifests[i].ops \in SUBSET Op
      BY <1>1, <3>0 DEF IntakeInv, ManifestsCoherent, Manifest
    <3>2. PICK o \in manifests[i].ops : VersionOf[o] = v
      BY <2>1, <3>1, MatchedWitness
    <3>3. /\ o \in rows \ Archived /\ TagsOf[o] # {}
          /\ \A p \in ValidRows(manifests[i].rows) :
               Lid(p) = Lid(o) => SeqNo[p] <= SeqNo[o]
      BY <3>1, <3>2 DEF Deduplicated, ValidRows, SameOperation
    <3>4. ASSUME \A q, p \in rows : TagsOf[q] = TagsOf[p], NEW p \in rows
          PROVE  SeqNo[p] <= SeqNo[o]
      <4>1. TagsOf[p] = TagsOf[o] /\ VersionOf[p] = VersionOf[o]
        BY <3>2, <3>3, <3>4
      <4>2. p \in ValidRows(manifests[i].rows) /\ Lid(p) = Lid(o)
        BY <3>3, <3>4, <4>1 DEF ValidRows, Lid
      <4> QED BY <3>3, <4>2
    <3> QED BY <3>3, <3>4
  <2> QED BY <2>1 DEF ArchivedExcluded
<1> QED BY <1>1, IntakeInductive, PTL DEF Spec
-----------------------------------------------------------------------------
\* What holds of RunChain for every backlog and every chain limit: a scheduled
\* trigger never leads to more runs than the limit allows, and no run starts
\* another without having moved the checkpoint.

\* A waiting invocation is as deep as the runs its trigger has led to, the one
\* being executed one less.
Counted ==
    /\ \A i \in waiting : i.origin <= ticks /\ started[i.origin] = i.depth
    /\ stage # "none" => /\ current \in Invocation
                         /\ current.origin <= ticks
                         /\ started[current.origin] = current.depth + 1
    /\ \A t \in Triggers : t > ticks => started[t] = 0

\* What the handler remembers of a run's start is what the run holds of it, and
\* a run that progressed has moved away from it.
Remembers ==
    /\ stage # "run" => pc = "idle"
    /\ stage = "run" /\ pc # "idle" => outcome.before = run.start
    /\ stage = "decide" /\ outcome.again => cp # outcome.before

ChainInv == ChainTypeOK /\ Counted /\ ChainBounded

-----------------------------------------------------------------------------
\* A step of the chain is a step of the intake, or only an invoke failing.
LEMMA ChainStepIsIntakeStep ==
  ASSUME [ChainNext]_cvars
  PROVE  \/ [Next]_ivars
         \/ /\ UNCHANGED <<journal, deleted, cp, manifests, run, pc>>
            /\ ReinvokeFails
<1>1. CASE Tick \/ \E i \in waiting : StartExecution(i)
  BY <1>1 DEF Tick, StartExecution
<1>2. CASE RunInterval
  BY <1>2 DEF RunInterval, Next
<1>3. CASE Reinvoke \/ Finish
  BY <1>3 DEF Reinvoke, Finish, EndExecution, NoFault, ivars
<1>4. CASE ReinvokeFails
  BY <1>4 DEF ReinvokeFails, EndExecution
<1>5. CASE Environment
  BY <1>5 DEF Next
<1>6. CASE UNCHANGED cvars
  BY <1>6 DEF cvars, ivars
<1> QED BY <1>1, <1>2, <1>3, <1>4, <1>5, <1>6 DEF ChainNext

\* A failing invoke disturbs nothing of the intake.
LEMMA IntakeKept ==
  ASSUME IntakeInv, [ChainNext]_cvars
  PROVE  IntakeInv'
<1>1. CASE [Next]_ivars
  BY <1>1, IntakeInductive
<1>2. CASE UNCHANGED <<journal, deleted, cp, manifests, run, pc>> /\ ReinvokeFails
  <2>1. faults' \in Nat
    BY <1>2 DEF ReinvokeFails, Fault, IntakeInv, TypeOK
  <2>2. TypeOK'
    BY <1>2, <2>1 DEF IntakeInv, TypeOK
  <2>3. RunCoherent'
    <3>1. Unarchived(run.rows) = (Unarchived(run.rows))'
      BY <1>2 DEF Unarchived, Selected, EligibleOp
    <3> QED BY <1>2, <3>1 DEF IntakeInv, RunCoherent
  <2>4. ManifestsCoherent' /\ ProcessedReached' /\ EntriesJustified'
    BY <1>2 DEF IntakeInv, ManifestsCoherent, Pending, RememberedBy,
                ProcessedReached, EntriesJustified
  <2> QED BY <2>2, <2>3, <2>4 DEF IntakeInv
<1> QED BY <1>1, <1>2, ChainStepIsIntakeStep

-----------------------------------------------------------------------------
\* Every step keeps the types and the count of the runs.
LEMMA ChainStep ==
  ASSUME IntakeInv, ChainInv, [ChainNext]_cvars
  PROVE  ChainInv'
<1> USE RunChainAssumption
<1> USE DEF ChainInv, ChainTypeOK, Counted, ChainBounded, Triggers, Invocation,
            NoInvocation
<1>0. cp \in Checkpoints /\ journal \in SUBSET Op
  BY IntakeTypes DEF IntakeInv
<1>1. CASE Tick
  <2> DEFINE i == [origin |-> ticks', depth |-> 0]
  <2>1. /\ ticks' = ticks + 1 /\ ticks' \in 1..MaxTicks
        /\ waiting' = waiting \cup {i} /\ i \in Invocation
        /\ UNCHANGED <<current, stage, outcome, started>>
    BY <1>1 DEF Tick
  <2>2. ChainTypeOK' /\ ChainBounded'
    BY <2>1
  <2>3. \A j \in waiting' : j.origin <= ticks' /\ started'[j.origin] = j.depth
    <3>1. started[ticks'] = 0
      BY <2>1
    <3> QED BY <2>1, <3>1
  <2> QED BY <2>1, <2>2, <2>3
<1>2. ASSUME NEW i \in waiting, StartExecution(i) PROVE ChainInv'
  <2>1. /\ waiting' = waiting \ {i} /\ current' = i /\ stage' = "run"
        /\ started' = [started EXCEPT ![i.origin] = @ + 1]
        /\ outcome' = NoOutcome /\ ticks' = ticks
    BY <1>2 DEF StartExecution
  <2>2. outcome' \in [again: BOOLEAN, stopped: BOOLEAN,
                      before: Checkpoints, seen: SUBSET Op]
    BY <2>1, NoRunTyped DEF NoOutcome
  <2>3. i \in Invocation /\ i.origin \in 1..MaxTicks
        /\ i.depth \in 0..ChainLimit /\ started[i.origin] = i.depth
    OBVIOUS
  <2>4. ChainTypeOK'
    BY <2>1, <2>2, <2>3
  <2>5. \A j \in waiting' : j.origin # i.origin
    <3>1. ASSUME NEW j \in waiting, j.origin = i.origin PROVE j = i
      BY <2>3, <3>1
    <3> QED BY <2>1, <3>1
  <2>6. Counted'
    BY <2>1, <2>3, <2>5
  <2>7. ChainBounded'
    BY <2>1, <2>3
  <2> QED BY <2>4, <2>6, <2>7
<1>3. CASE RunInterval
  <2>1. /\ outcome' \in [again: BOOLEAN, stopped: BOOLEAN,
                         before: Checkpoints, seen: SUBSET Op]
        /\ stage' \in {"decide", "run"} /\ stage = "run"
        /\ UNCHANGED <<ticks, waiting, current, started>>
    <3>1. (Capped /\ Progressed) \in BOOLEAN
      BY DEF Capped, Progressed
    <3>2. (outcome.stopped \/ faults' # faults) \in BOOLEAN
      OBVIOUS
    <3>3. /\ (IF pc = "idle" THEN cp ELSE outcome.before) \in Checkpoints
          /\ (IF pc = "idle" THEN journal ELSE outcome.seen) \in SUBSET Op
      BY <1>0
    <3> QED BY <1>3, <3>1, <3>2, <3>3 DEF RunInterval
  <2> QED BY <2>1
<1>4. CASE Reinvoke
  <2> DEFINE i == NextInvocation(current)
  <2>1. /\ stage = "decide" /\ current.depth < ChainLimit
        /\ waiting' = waiting \cup {i} /\ current' = NoInvocation
        /\ stage' = "none" /\ UNCHANGED <<ticks, started>>
        /\ outcome' = [outcome EXCEPT !.stopped = outcome.stopped]
    BY <1>4 DEF Reinvoke, ShouldReinvoke, EndExecution
  <2>2. /\ i \in Invocation /\ i.origin = current.origin
        /\ i.depth = current.depth + 1
    BY <2>1 DEF NextInvocation
  <2> HIDE DEF i
  <2> QED BY <2>1, <2>2
<1>5. CASE ReinvokeFails \/ Finish
  <2>1. /\ current' = NoInvocation /\ stage' = "none"
        /\ UNCHANGED <<ticks, started, waiting>>
    BY <1>5 DEF ReinvokeFails, Finish, EndExecution
  <2>2. \E b \in BOOLEAN : outcome' = [outcome EXCEPT !.stopped = b]
    <3>1. (outcome.stopped \/ (outcome.again /\ current.depth >= ChainLimit)) \in BOOLEAN
      OBVIOUS
    <3> QED BY <1>5, <3>1 DEF ReinvokeFails, Finish, EndExecution
  <2> QED BY <2>1, <2>2
<1>6. CASE \/ Environment /\ UNCHANGED <<ticks, waiting, current, stage, outcome, started>>
           \/ UNCHANGED cvars
  BY <1>6 DEF cvars
<1> QED BY <1>1, <1>2, <1>3, <1>4, <1>5, <1>6 DEF ChainNext

-----------------------------------------------------------------------------
\* A release after a submission leaves another checkpoint than the run read.
LEMMA SubmissionMoves ==
  ASSUME IntakeInv, ReleaseLease, run.submitted
  PROVE  cp' # run.start
<1>0. cp \in Checkpoints /\ run \in RunMemory
  BY IntakeTypes DEF IntakeInv
<1>1. /\ pc = "release"
      /\ cp' = AdvanceCheckpoint(cp, SubmittedRefs, run.candidate)
  BY DEF ReleaseLease
<1>2. /\ run.start = [cp EXCEPT !.lease = NoLease]
      /\ run.ops = Unarchived(run.rows)
  BY <1>1 DEF IntakeInv, RunCoherent
<1>3. SubmittedRefs # {} /\ SubmittedRefs \in SUBSET run.ops
  BY SubmittedRefsNotEmpty DEF IntakeInv
<1>4. PICK o \in SubmittedRefs : TRUE
  BY <1>3
<1>5. o \in Op /\ SubmittedRefs \in SUBSET Op /\ run.candidate \in Nat
  BY <1>0, <1>3, <1>4 DEF RunMemory
<1>6. IsEligible(o, [run.start EXCEPT !.window = Known(@)])
  BY <1>2, <1>3, <1>4 DEF Unarchived, Selected, EligibleOp
<1>7. /\ cp'.watermark >= Time[o]
      /\ o \in cp'.window \/ Time[o] <= WindowStart(cp'.watermark)
  BY <1>0, <1>1, <1>3, <1>4, <1>5, AdvanceRemembers
<1>8. SUFFICES ASSUME cp' = run.start PROVE FALSE
  OBVIOUS
<1> DEFINE known == [run.start EXCEPT !.window = Known(@)]
<1>9. /\ known \in Checkpoints /\ cp.watermark \in Nat
      /\ known.watermark = cp.watermark /\ known.window = Known(cp.window)
      /\ cp'.watermark = cp.watermark /\ cp'.window = cp.window
  <2>1. /\ run.start \in Checkpoints /\ run.start.watermark = cp.watermark
        /\ run.start.window = cp.window /\ cp.watermark \in Nat
    BY <1>0, <1>2 DEF Checkpoints, NoLease
  <2>2. Known(cp.window) \in SUBSET Op
    BY DEF Known, SameOperation
  <2> QED BY <1>8, <2>1, <2>2 DEF Checkpoints
<1>10. IsEligible(o, known)
  BY <1>6
<1> HIDE DEF known
<1>11. Time[o] < Time[o]
  BY <1>0, <1>5, <1>7, <1>9, <1>10, EligibleIsNewer
<1> QED BY <1>5, <1>11, CheckpointAssumption

\* Every step keeps what the handler remembers of the run.
LEMMA RemembersStep ==
  ASSUME IntakeInv, ChainInv, Remembers, [ChainNext]_cvars
  PROVE  Remembers'
<1>1. CASE RunInterval
  <2>1. /\ RunStep /\ stage = "run"
        /\ outcome'.again <=> (Capped /\ Progressed)
        /\ outcome'.before = IF pc = "idle" THEN cp ELSE outcome.before
        /\ stage' = IF pc' = "idle" THEN "decide" ELSE "run"
    BY <1>1 DEF RunInterval
  <2>2. ASSUME pc' # "idle" PROVE outcome'.before = run'.start
    <3>1. CASE BoundRead
      BY <2>1, <2>2, <3>1 DEF BoundRead, EndRun, GoTo, NoRun
    <3>2. CASE ~ BoundRead
      <4>1. pc # "idle" /\ run'.start = run.start
        <5>1. run \in RunMemory
          BY IntakeTypes DEF IntakeInv
        <5> QED BY <2>1, <2>2, <3>2, <5>1
                DEF RunStep, ReadJournal, ReadFails, BuildManifest, BuildFails,
                    SubmitJob, ReleaseLease, EndRun, GoTo, RunMemory
      <4> QED BY <2>1, <4>1 DEF Remembers
    <3> QED BY <3>1, <3>2
  <2>3. ASSUME Capped /\ Progressed PROVE cp' # outcome'.before
    <3>1. pc = "release" /\ run.submitted
      BY <2>3 DEF Progressed
    <3>2. ReleaseLease
      BY <2>1, <3>1 DEF RunStep, BoundRead, ReadJournal, ReadFails, BuildManifest,
                        BuildFails, SubmitJob
    <3>3. outcome'.before = run.start
      BY <2>1, <3>1 DEF Remembers
    <3> QED BY <3>1, <3>2, <3>3, SubmissionMoves
  <2>4. stage' \in {"run", "decide"} /\ (stage' = "decide" <=> pc' = "idle")
    BY <2>1
  <2> QED BY <2>1, <2>2, <2>3, <2>4 DEF Remembers
<1>2. CASE \E i \in waiting : StartExecution(i)
  <2>1. stage = "none" /\ stage' = "run" /\ pc' = pc
    BY <1>2 DEF StartExecution, ivars
  <2> QED BY <2>1 DEF Remembers
<1>3. CASE Reinvoke \/ ReinvokeFails \/ Finish
  BY <1>3 DEF Reinvoke, ReinvokeFails, Finish, EndExecution, Remembers
<1>4. CASE Tick \/ UNCHANGED cvars
  BY <1>4 DEF Tick, cvars, ivars, Remembers
<1>5. CASE Environment /\ UNCHANGED <<ticks, waiting, current, stage, outcome, started>>
  BY <1>5 DEF Environment, TagObject, DeleteVersion, Remembers
<1> QED BY <1>1, <1>2, <1>3, <1>4, <1>5 DEF ChainNext

-----------------------------------------------------------------------------
LEMMA ChainInductive ==
  /\ ChainInit => IntakeInv /\ ChainInv /\ Remembers
  /\ IntakeInv /\ ChainInv /\ Remembers /\ [ChainNext]_cvars
       => IntakeInv' /\ ChainInv' /\ Remembers'
<1>1. ASSUME ChainInit PROVE IntakeInv /\ ChainInv /\ Remembers
  <2>1. Init
    BY <1>1 DEF ChainInit
  <2>2. NoOutcome \in [again: BOOLEAN, stopped: BOOLEAN,
                       before: Checkpoints, seen: SUBSET Op]
    BY NoRunTyped DEF NoOutcome
  <2>3. ChainInv
    BY <1>1, <2>2, RunChainAssumption
       DEF ChainInit, ChainInv, ChainTypeOK, Counted, ChainBounded, Triggers
  <2>4. Remembers
    BY <1>1, <2>1 DEF ChainInit, Init, Remembers
  <2> QED BY <2>1, <2>3, <2>4, IntakeInductive
<1>2. ASSUME IntakeInv, ChainInv, Remembers, [ChainNext]_cvars
      PROVE  IntakeInv' /\ ChainInv' /\ Remembers'
  BY <1>2, IntakeKept, ChainStep, RemembersStep
<1> QED BY <1>1, <1>2

\* ChainTypeOK holds in every run of RunChain.
THEOREM ChainTypes == ChainSpec => []ChainTypeOK
<1>1. ChainInv => ChainTypeOK
  BY DEF ChainInv
<1> QED BY <1>1, ChainInductive, PTL DEF ChainSpec

\* ChainBounded: a scheduled trigger leads to at most 1 + ChainLimit runs.
THEOREM ChainsAreBounded == ChainSpec => []ChainBounded
<1>1. ChainInv => ChainBounded
  BY DEF ChainInv
<1> QED BY <1>1, ChainInductive, PTL DEF ChainSpec

\* ChainEarned: a run invokes the next one only if it moved the checkpoint.
THEOREM ChainsAreEarned == ChainSpec => ChainEarned
<1> DEFINE Earned == \A i \in waiting' \ waiting : i.depth > 0 => cp # outcome.before
<1>1. ASSUME Remembers, [ChainNext]_cvars PROVE Earned
  <2>1. CASE Reinvoke
    <3>1. stage = "decide" /\ outcome.again
      BY <2>1 DEF Reinvoke, ShouldReinvoke
    <3> QED BY <1>1, <3>1 DEF Remembers
  <2>2. CASE Tick
    BY <2>2 DEF Tick
  <2>3. CASE ~ Reinvoke /\ ~ Tick
    <3>1. waiting' \subseteq waiting
      BY <1>1, <2>3 DEF ChainNext, StartExecution, RunInterval, ReinvokeFails, Finish,
                        cvars
    <3> QED BY <3>1
  <2> QED BY <2>1, <2>2, <2>3
<1>2. Remembers /\ [ChainNext]_cvars => [Earned]_cvars
  BY <1>1
<1> QED BY <1>2, ChainInductive, PTL DEF ChainSpec, ChainEarned

-----------------------------------------------------------------------------
\* What holds of a plain backlog: each row is of a key of its own, matches a rule,
\* and tells of an object that is neither archived nor deleted; a late row is within
\* the lookback, and the lookback tail within its allowance.
PlainBacklog ==
    /\ \A o, p \in Op : KeyOf[VersionOf[o]] = KeyOf[VersionOf[p]] => o = p
    /\ \A o \in Op : Matches(o)
    /\ Archived = {} /\ Deletable = {}
    /\ JournalDelay <= Lookback
    /\ TailFits

\* A matched row is in a manifest, or the next read still reaches it; while a run
\* is about to submit, it has each row up to its candidate that no manifest had.
IntakeReaches ==
    /\ deleted = {}
    /\ cp.watermark # Epoch => \E o \in journal : Time[o] = cp.watermark
    /\ \A o \in journal :
           Replicated(VersionOf[o]) \/ Time[o] > WindowStart(cp.watermark)
    /\ pc = "read" =>
           /\ run.since = WindowStart(cp.watermark)
           /\ run.until # NoBound =>
                  \E o \in journal : Time[o] > cp.watermark /\ Time[o] = run.until
    /\ pc \in {"build", "submit", "release"} =>
           /\ run.ops # {} /\ run.entries = {VersionOf[o] : o \in run.ops}
           /\ \E o \in journal : Time[o] = run.candidate
           /\ \A o \in run.ops : Time[o] <= run.candidate
           /\ \A o \in journal : \/ o \in run.ops \/ Replicated(VersionOf[o])
                                 \/ Time[o] > WindowStart(run.candidate)

\* A run that met no fault leaves nothing behind of what it saw, or asks for another.
DrainInv ==
    /\ outcome.seen \subseteq journal
    /\ stage = "run" /\ pc \in {"build", "submit", "release"} /\ ~ outcome.stopped =>
           \/ run.until # NoBound
           \/ \A o \in outcome.seen : o \in run.ops \/ Replicated(VersionOf[o])
    /\ stage = "run" /\ pc = "release" /\ ~ outcome.stopped => run.submitted
    /\ stage = "decide" /\ ~ outcome.stopped =>
           outcome.again \/ \A o \in outcome.seen : Replicated(VersionOf[o])
    /\ stage = "none" /\ waiting = {} /\ ~ outcome.stopped =>
           \A o \in outcome.seen : Replicated(VersionOf[o])

\* All of what is eligible of a plain backlog is selected, and gets its slot.
LEMMA PlainSelected ==
  ASSUME PlainBacklog, TypeOK, NEW rows \in SUBSET Op
  PROVE  /\ Selected(rows) = {o \in rows : IsEligible(o, run.start)}
         /\ Unarchived(rows) = Selected(rows)
<1>1. \A o, p \in Op : Lid(o) = Lid(p) => o = p
  BY DEF PlainBacklog, Lid
<1>2. \A o \in Op : TagsOf[o] # {}
  BY DEF PlainBacklog, Matches, DerivedRules
<1>3. Deduplicated(ValidRows(rows)) = rows
  <2>1. ValidRows(rows) = rows
    BY <1>2 DEF ValidRows
  <2>2. \A o \in rows : SameOperation(rows, o) = {o}
    BY <1>1 DEF SameOperation
  <2>3. \A o \in rows : SeqNo[o] <= SeqNo[o]
    BY IntakeAssumption
  <2> QED BY <2>1, <2>2, <2>3 DEF Deduplicated
<1>4. [run.start EXCEPT !.window = Known(@)] = run.start
  <2>1. run.start \in Checkpoints
    BY IntakeTypes
  <2>2. Known(run.start.window) = run.start.window
    BY <1>1, <2>1 DEF Known, SameOperation, Checkpoints
  <2> QED BY <2>1, <2>2 DEF Checkpoints
<1>5. Selected(rows) = {o \in rows : IsEligible(o, run.start)}
  BY <1>3, <1>4 DEF Selected, EligibleOp
<1> QED BY <1>5 DEF Unarchived, PlainBacklog

LEMMA PlainSlots ==
  ASSUME PlainBacklog, NEW rows \in SUBSET Op, NEW ops \in SUBSET rows,
         NEW E \in Slots(rows, ops)
  PROVE  E = {VersionOf[o] : o \in ops}
<1> DEFINE versions == {VersionOf[o] : o \in ops}
<1>1. {o \in ops : Matches(o)} = ops
  BY DEF PlainBacklog
<1>2. \A o \in ops : FirstSeen(rows, o) = Time[o]
  <2> SUFFICES ASSUME NEW o \in ops PROVE FirstSeen(rows, o) = Time[o]
    OBVIOUS
  <2>1. \A p \in Op : TagsOf[p] # {}
    BY DEF PlainBacklog, Matches, DerivedRules
  <2>2. SameOperation(ValidRows(rows), o) = {o}
    BY <2>1 DEF PlainBacklog, SameOperation, ValidRows, Lid
  <2>3. {Time[p] : p \in SameOperation(ValidRows(rows), o)} = {Time[o]}
    BY <2>2
  <2>4. Time[o] <= Time[o]
    BY CheckpointAssumption
  <2> QED BY <2>2, <2>3, <2>4 DEF FirstSeen
<1>3. Leading(rows, ops) = versions
  <2>1. \A o \in ops, p \in ops : KeyOf[VersionOf[p]] = KeyOf[VersionOf[o]] => p = o
    BY DEF PlainBacklog
  <2>2. \A o \in ops : FirstSeen(rows, o) <= FirstSeen(rows, o)
    BY <1>2, CheckpointAssumption
  <2> QED BY <2>1, <2>2 DEF Leading
<1>4. E \in OnePerKey(versions)
  BY <1>1, <1>3 DEF Slots
<1>5. ASSUME NEW v \in versions PROVE v \in E
  <2>1. Cardinality({u \in E : KeyOf[u] = KeyOf[v]}) = 1
    BY <1>4 DEF OnePerKey
  <2>2. {u \in E : KeyOf[u] = KeyOf[v]} # {}
    BY <2>1, FS_EmptySet
  <2>3. PICK u \in E : KeyOf[u] = KeyOf[v]
    BY <2>2
  <2>4. u \in versions
    BY <1>4 DEF OnePerKey
  <2> QED BY <2>3, <2>4 DEF PlainBacklog
<1> QED BY <1>4, <1>5 DEF OnePerKey

\* An operation that a plain run's checkpoint does not admit is in a manifest.
LEMMA NotEligibleIsDone ==
  ASSUME IntakeInv, pc = "read", NEW o \in Op, ~ IsEligible(o, run.start),
         Time[o] > WindowStart(cp.watermark)
  PROVE  Replicated(VersionOf[o]) /\ Time[o] <= cp.watermark
<1>1. run.start = cp /\ cp.lease = NoLease
  BY DEF IntakeInv, RunCoherent
<1>2. o \in cp.window /\ ~ (Time[o] > cp.watermark)
  BY <1>1 DEF IsEligible, HeldByLease, LateArrival
<1>3. Time[o] \in Nat /\ cp.watermark \in Nat
  BY CheckpointAssumption, IntakeTypes DEF IntakeInv
<1> QED BY <1>2, <1>3 DEF IntakeInv, ProcessedReached, Replicated

\* What is in a manifest stays in one.
LEMMA ReplicatedStays ==
  ASSUME IntakeInv, [ChainNext]_cvars, NEW v, Replicated(v)
  PROVE  Replicated(v)'
<1>0. TypeOK /\ RunCoherent /\ manifests \in Seq(Manifest)
  BY IntakeTypes DEF IntakeInv
<1>1. \/ manifests' = manifests
      \/ \E m : manifests' = Append(manifests, m)
  BY <1>0, ChainStepIsIntakeStep, IntakeSteps DEF ReleaseLease
<1> QED BY <1>0, <1>1 DEF Replicated

\* What a read of a plain backlog finds: nothing, and then all is in manifests, or
\* each row up to its candidate that is not; each row at all when it is not capped.
LEMMA PlainRead ==
  ASSUME PlainBacklog, IntakeInv, IntakeReaches, ReadJournal
  PROVE  \/ /\ EndRun /\ cp' = cp
            /\ \A o \in journal : Replicated(VersionOf[o])
         \/ /\ pc' = "build" /\ cp'.watermark = cp.watermark
            /\ run'.until = run.until
            /\ run'.ops # {} /\ run'.entries = {VersionOf[o] : o \in run'.ops}
            /\ \E o \in journal : Time[o] = run'.candidate
            /\ \A o \in run'.ops : Time[o] <= run'.candidate
            /\ \A o \in journal : \/ o \in run'.ops \/ Replicated(VersionOf[o])
                                  \/ Time[o] > WindowStart(run'.candidate)
            /\ run.until = NoBound =>
                   \A o \in journal : o \in run'.ops \/ Replicated(VersionOf[o])
<1> DEFINE rows == RowsUpTo(journal, run.since, run.until)
           sel  == Selected(rows)
<1>0. /\ cp \in Checkpoints /\ run \in RunMemory /\ journal \in SUBSET Op
      /\ cp.watermark \in Nat /\ cp.lease = NoLease /\ run.start = cp /\ pc = "read"
  BY IntakeTypes DEF IntakeInv, RunCoherent, ReadJournal
<1>1. /\ rows \in SUBSET Op
      /\ sel = {o \in rows : IsEligible(o, run.start)} /\ Unarchived(rows) = sel
  <2>1. rows \in SUBSET Op
    BY <1>0 DEF RowsUpTo
  <2> HIDE DEF rows
  <2> QED BY <2>1, PlainSelected DEF IntakeInv
<1>2. /\ run.since = WindowStart(cp.watermark)
      /\ run.until # NoBound =>
             \E o \in journal : Time[o] > cp.watermark /\ Time[o] = run.until
      /\ \A o \in journal :
             Replicated(VersionOf[o]) \/ Time[o] > WindowStart(cp.watermark)
  BY <1>0 DEF IntakeReaches
<1>3. ASSUME NEW o \in journal, o \in rows PROVE o \in sel \/ Replicated(VersionOf[o])
  <2>1. Time[o] > WindowStart(cp.watermark)
    BY <1>2, <1>3 DEF RowsUpTo
  <2> QED BY <1>0, <1>1, <1>3, <2>1, NotEligibleIsDone
<1>4. ASSUME NEW o \in journal,
             run.until = NoBound \/ Time[o] <= run.until
      PROVE  o \in sel \/ Replicated(VersionOf[o])
  <2>1. CASE Time[o] > WindowStart(cp.watermark)
    <3>1. o \in rows
      BY <1>2, <1>4, <2>1 DEF RowsUpTo
    <3> HIDE DEF rows, sel
    <3> QED BY <1>3, <3>1
  <2> QED BY <1>2, <2>1
<1>5. ASSUME sel = {} PROVE run.until = NoBound
  <2> SUFFICES ASSUME run.until # NoBound PROVE FALSE
    OBVIOUS
  <2>1. PICK o \in journal : Time[o] > cp.watermark /\ Time[o] = run.until
    BY <1>2
  <2>2. WindowStart(cp.watermark) \in Nat /\ WindowStart(cp.watermark) <= cp.watermark
    BY <1>0, WindowStartMonotone
  <2>3. Time[o] \in Nat
    BY <1>0, CheckpointAssumption
  <2>4. o \in rows
    BY <1>0, <1>2, <2>1, <2>2, <2>3 DEF RowsUpTo
  <2>5. IsEligible(o, run.start)
    BY <1>0, <2>1 DEF IsEligible, HeldByLease
  <2> QED BY <1>1, <1>5, <2>4, <2>5
<1>6. \/ sel = {} /\ EndRun /\ UNCHANGED cp
      \/ /\ sel # {}
         /\ \E entries \in Slots(rows, Unarchived(rows)) :
                run' = [run EXCEPT !.rows = rows, !.ops = Unarchived(rows),
                                   !.candidate = HighWater(sel),
                                   !.entries = entries]
         /\ cp' = [cp EXCEPT !.lease = HighWater(sel)]
         /\ GoTo("build")
  BY DEF ReadJournal
<1>7. CASE sel = {} /\ EndRun /\ UNCHANGED cp
  BY <1>4, <1>5, <1>7
<1>8. CASE sel # {} /\ ~ (sel = {})
  <2>1. PICK entries \in Slots(rows, sel) :
          /\ run' = [run EXCEPT !.rows = rows, !.ops = sel,
                                !.candidate = HighWater(sel), !.entries = entries]
          /\ cp' = [cp EXCEPT !.lease = HighWater(sel)]
          /\ GoTo("build")
    BY <1>1, <1>6, <1>8
  <2>2. sel \in SUBSET rows /\ sel \in SUBSET Op
    BY <1>1
  <2>3. entries = {VersionOf[o] : o \in sel}
    <3> HIDE DEF rows, sel
    <3> QED BY <1>1, <2>1, <2>2, PlainSlots
  <2>4. /\ HighWater(sel) \in {Time[o] : o \in sel} /\ HighWater(sel) \in Nat
        /\ \A o \in sel : Time[o] <= HighWater(sel)
    <3> HIDE DEF sel
    <3> QED BY <1>8, <2>2, HighWaterIsATime
  <2>5. /\ run'.ops = sel /\ run'.entries = entries /\ run'.candidate = HighWater(sel)
        /\ run'.until = run.until /\ pc' = "build"
        /\ cp'.watermark = cp.watermark
    <3> HIDE DEF rows, sel
    <3> QED BY <1>0, <2>1 DEF GoTo, RunMemory, Checkpoints
  <2>6. PICK top \in sel : Time[top] = HighWater(sel)
    BY <2>4
  <2>7. top \in journal /\ (run.until = NoBound \/ Time[top] <= run.until)
    BY <2>2, <2>6 DEF RowsUpTo
  <2>8. ASSUME NEW o \in journal
        PROVE  \/ o \in sel \/ Replicated(VersionOf[o])
               \/ Time[o] > WindowStart(HighWater(sel))
    <3>1. Time[o] \in Nat /\ Time[top] \in Nat /\ run.until \in Nat \cup {NoBound}
      BY <1>0, <2>7, CheckpointAssumption DEF RunMemory
    <3>2. CASE Time[o] <= Time[top]
      <4>1. run.until = NoBound \/ Time[o] <= run.until
        BY <2>7, <3>1, <3>2 DEF NoBound
      <4> QED BY <1>4, <4>1
    <3>3. CASE Time[o] > Time[top]
      <4>1. /\ WindowStart(Time[top]) <= Time[top] /\ WindowStart(Time[top]) \in Nat
        BY <3>1, WindowStartMonotone
      <4> QED BY <2>6, <3>1, <3>3, <4>1
    <3> QED BY <3>1, <3>2, <3>3
  <2>9. run.until = NoBound => \A o \in journal : o \in sel \/ Replicated(VersionOf[o])
    BY <1>4
  <2> HIDE DEF rows, sel
  <2> QED BY <1>8, <2>3, <2>4, <2>5, <2>6, <2>7, <2>8, <2>9
<1> HIDE DEF rows, sel
<1> QED BY <1>6, <1>7, <1>8

\* A row that is late by less than the delay is above the start of the window.
LEMMA LateIsInWindow ==
  ASSUME PlainBacklog, NEW o \in Op, NEW w \in Nat,
         w # Epoch => \E p \in journal : Time[p] = w,
         \A p \in journal : Time[p] < Time[o] + JournalDelay
  PROVE  Time[o] > WindowStart(w)
<1>1. JournalDelay \in Nat /\ JournalDelay <= Lookback /\ Time[o] \in Nat \ {0}
      /\ Lookback \in Nat
  BY IntakeAssumption, CheckpointAssumption DEF PlainBacklog
<1>2. w # Epoch => w < Time[o] + JournalDelay
  OBVIOUS
<1> QED BY <1>1, <1>2 DEF WindowStart, Epoch

\* Every step of the intake keeps a plain backlog within reach.
LEMMA ReachesStep ==
  ASSUME PlainBacklog, IntakeInv, IntakeReaches, [ChainNext]_cvars
  PROVE  IntakeReaches'
<1>0. /\ cp \in Checkpoints /\ run \in RunMemory /\ journal \in SUBSET Op
      /\ cp.watermark \in Nat /\ manifests \in Seq(Manifest) /\ run.candidate \in Nat
      /\ faults \in Nat
  BY IntakeTypes DEF IntakeInv, TypeOK
<1>1. ASSUME NEW o \in Op, Replicated(VersionOf[o]) PROVE Replicated(VersionOf[o])'
  BY <1>1, ReplicatedStays
\* A step that leaves the watermark alone and ends a run has nothing to show.
<1>2. ASSUME pc' = "idle", UNCHANGED <<journal, deleted, cp>>
      PROVE  IntakeReaches'
  BY <1>0, <1>1, <1>2 DEF IntakeReaches
<1>3. CASE BoundRead
  <2>1. CASE EndRun
    BY <1>2, <1>3, <2>1 DEF BoundRead, EndRun, GoTo
  <2>2. CASE ~ EndRun
    <3>1. /\ pc' = "read" /\ UNCHANGED <<journal, deleted, cp, manifests>>
          /\ run'.since = ReadSince(journal, cp.watermark)
          /\ run'.until = ReadUntil(journal, cp.watermark)
      BY <1>3, <2>2 DEF BoundRead, GoTo, NoRun
    <3>2. run'.since = WindowStart(cp.watermark)
      BY <1>0, <3>1, TailNotCut DEF PlainBacklog
    <3>3. run'.until # NoBound =>
            \E o \in journal : Time[o] > cp.watermark /\ Time[o] = run'.until
      BY <1>0, <3>1, UntilIsNew
    <3> QED BY <1>0, <1>1, <3>1, <3>2, <3>3 DEF IntakeReaches
  <2> QED BY <2>1, <2>2
<1>4. CASE ReadJournal
  <2>1. UNCHANGED <<journal, deleted>>
    BY <1>4 DEF ReadJournal
  <2>2. CASE EndRun /\ cp' = cp
    BY <1>2, <2>1, <2>2 DEF EndRun, GoTo
  <2>3. CASE ~ (EndRun /\ cp' = cp)
    <3>1. /\ pc' = "build" /\ cp'.watermark = cp.watermark
          /\ run'.ops # {} /\ run'.entries = {VersionOf[o] : o \in run'.ops}
          /\ \E o \in journal : Time[o] = run'.candidate
          /\ \A o \in run'.ops : Time[o] <= run'.candidate
          /\ \A o \in journal : \/ o \in run'.ops \/ Replicated(VersionOf[o])
                                \/ Time[o] > WindowStart(run'.candidate)
      BY <1>4, <2>3, PlainRead
    <3> QED BY <1>0, <1>1, <2>1, <3>1 DEF IntakeReaches
  <2> QED BY <2>2, <2>3
<1>5. CASE ReadFails
  BY <1>2, <1>5 DEF ReadFails, EndRun, GoTo
\* What a run holds from its read to its release.
<1>6. ASSUME pc \in {"build", "submit"}, pc' \in {"submit", "release"},
             UNCHANGED <<journal, deleted, cp>>,
             run'.ops = run.ops, run'.entries = run.entries,
             run'.candidate = run.candidate
      PROVE  IntakeReaches'
  BY <1>0, <1>1, <1>6 DEF IntakeReaches
<1>7. CASE BuildManifest \/ BuildFails
  <2>1. run'.entries = run.entries \ {}
        /\ run'.ops = run.ops /\ run'.candidate = run.candidate
    BY <1>0, <1>7
       DEF BuildManifest, ReadPermanentDeletes, Surviving, BuildFails, RunMemory,
           IntakeReaches
  <2> QED BY <1>6, <1>7, <2>1 DEF BuildManifest, BuildFails, GoTo
<1>8. CASE SubmitJob
  <2>1. /\ run'.entries = run.entries
        /\ run'.ops = run.ops /\ run'.candidate = run.candidate
    BY <1>0, <1>8 DEF SubmitJob, RunMemory
  <2> QED BY <1>6, <1>8, <2>1 DEF SubmitJob, GoTo
<1>9. CASE ReleaseLease
  <2>1. /\ pc = "release" /\ pc' = "idle" /\ UNCHANGED <<journal, deleted, manifests>>
        /\ cp' = AdvanceCheckpoint(cp, IF run.submitted THEN SubmittedRefs ELSE {},
                                   run.candidate)
    BY <1>9 DEF ReleaseLease, EndRun, GoTo
  <2>2. CASE ~ run.submitted
    <3>1. cp'.watermark = cp.watermark
      BY <1>0, <2>1, <2>2 DEF AdvanceCheckpoint, Checkpoints
    <3> QED BY <1>0, <1>1, <2>1, <3>1 DEF IntakeReaches
  <2>3. CASE run.submitted
    <3>1. /\ run.entries = {VersionOf[o] : o \in run.ops} /\ run.ops \in SUBSET Op
          /\ \A o \in run.ops : Time[o] <= run.candidate
          /\ \E o \in journal : Time[o] = run.candidate
      BY <1>0, <2>1 DEF IntakeReaches, RunMemory
    <3>2. SubmittedRefs = run.ops /\ SubmittedRefs # {}
      BY <2>3, <3>1, SubmittedRefsNotEmpty DEF SubmittedRefs, IntakeInv
    <3>3. HighWater(run.ops) \in Nat /\ HighWater(run.ops) <= run.candidate
      <4>1. HighWater(run.ops) \in {Time[o] : o \in run.ops}
            /\ HighWater(run.ops) \in Nat
        BY <3>1, <3>2, HighWaterIsATime
      <4> QED BY <3>1, <4>1
    <3>4. cp'.watermark \in {cp.watermark, run.candidate}
      <4>1. cp'.watermark =
              Later(cp.watermark, Later(HighWater(run.ops), run.candidate))
        BY <2>1, <2>3, <3>2 DEF AdvanceCheckpoint
      <4> QED BY <1>0, <3>3, <4>1 DEF Later
    <3>5. /\ DOMAIN manifests = 1..Len(manifests)
          /\ Len(manifests) \in DOMAIN manifests
          /\ manifests[Len(manifests)].versions = run.entries
      BY <1>0, <2>3, LenProperties, EmptySeq DEF IntakeInv, RunCoherent
    <3>6. \A o \in run.ops : Replicated(VersionOf[o])
      BY <3>1, <3>5 DEF Replicated
    <3>7. ASSUME NEW o \in journal
          PROVE  Replicated(VersionOf[o])' \/ Time[o] > WindowStart(cp'.watermark)
      <4>1. Replicated(VersionOf[o]) \/ Time[o] > WindowStart(cp'.watermark)
        BY <2>1, <3>4, <3>6 DEF IntakeReaches
      <4> QED BY <1>0, <1>1, <4>1
    <3>8. cp'.watermark # Epoch => \E o \in journal : Time[o] = cp'.watermark
      BY <3>1, <3>4 DEF IntakeReaches
    <3> QED BY <2>1, <3>7, <3>8 DEF IntakeReaches
  <2> QED BY <2>2, <2>3
<1>10. CASE Environment /\ UNCHANGED <<ticks, waiting, current, stage, outcome, started>>
  <2>1. PICK o \in Op : TagObject(o)
    BY <1>10 DEF Environment, DeleteVersion, PlainBacklog
  <2>2. /\ journal' = journal \cup {o}
        /\ UNCHANGED <<deleted, cp, run, pc>>
    BY <2>1 DEF TagObject
  <2>3. Time[o] > WindowStart(cp.watermark)
    BY <1>0, <2>1, LateIsInWindow DEF TagObject, IntakeReaches
  <2>4. ASSUME pc \in {"build", "submit", "release"}
        PROVE  Time[o] > WindowStart(run.candidate)
    BY <1>0, <2>1, <2>4, LateIsInWindow DEF TagObject, IntakeReaches
  <2> QED BY <1>0, <1>1, <2>2, <2>3, <2>4 DEF IntakeReaches
<1>11. CASE UNCHANGED <<journal, deleted, cp, run, pc>>
  BY <1>0, <1>1, <1>11 DEF IntakeReaches
<1> QED BY <1>3, <1>4, <1>5, <1>7, <1>8, <1>9, <1>10, <1>11
        DEF ChainNext, RunInterval, RunStep, Tick, StartExecution, Reinvoke,
            ReinvokeFails, Finish, EndExecution, ivars, cvars

\* Every step of the chain keeps account of what its last run left behind.
LEMMA DrainStep ==
  ASSUME PlainBacklog, IntakeInv, ChainInv, Remembers, IntakeReaches, DrainInv,
         [ChainNext]_cvars
  PROVE  DrainInv'
<1>0. /\ run \in RunMemory /\ journal \in SUBSET Op /\ manifests \in Seq(Manifest)
      /\ faults \in Nat /\ outcome.seen \in SUBSET Op /\ outcome.seen \subseteq journal
  BY IntakeTypes DEF IntakeInv, TypeOK, ChainInv, ChainTypeOK, DrainInv
<1>1. ASSUME NEW o \in Op, Replicated(VersionOf[o]) PROVE Replicated(VersionOf[o])'
  BY <1>1, ReplicatedStays
<1>2. CASE RunInterval
  <2>0. /\ stage = "run" /\ RunStep
        /\ outcome'.again <=> Capped /\ Progressed
        /\ outcome'.stopped <=> outcome.stopped \/ faults' # faults
        /\ outcome'.seen = IF pc = "idle" THEN journal ELSE outcome.seen
        /\ stage' = IF pc' = "idle" THEN "decide" ELSE "run"
        /\ waiting' = waiting
    BY <1>2 DEF RunInterval
  <2>1. \A kind : Fault(kind) => outcome'.stopped
    BY <1>0, <2>0 DEF Fault
  <2>2. journal' = journal /\ outcome'.seen \subseteq journal'
    BY <1>0, <2>0 DEF RunStep, BoundRead, ReadJournal, ReadFails, BuildManifest,
                      BuildFails, SubmitJob, ReleaseLease
  \* A run that something went wrong with owes nothing.
  <2>3. ASSUME outcome'.stopped PROVE DrainInv'
    BY <2>0, <2>2, <2>3 DEF DrainInv
  <2>4. CASE BoundRead
    <3>1. pc' = "read" \/ outcome'.stopped
      BY <2>1, <2>4 DEF BoundRead, GoTo
    <3> QED BY <2>0, <2>2, <2>3, <3>1 DEF DrainInv
  <2>5. CASE ReadJournal
    <3>1. pc = "read" /\ UNCHANGED manifests
      BY <2>5 DEF ReadJournal
    <3>2. CASE EndRun /\ cp' = cp /\ \A o \in journal : Replicated(VersionOf[o])
      <4>1. \A o \in outcome'.seen : Replicated(VersionOf[o])'
        BY <1>0, <1>1, <2>2, <3>2
      <4> QED BY <2>0, <2>2, <3>2, <4>1 DEF DrainInv, EndRun, GoTo
    <3>3. CASE ~ (EndRun /\ cp' = cp /\ \A o \in journal : Replicated(VersionOf[o]))
      <4>1. /\ pc' = "build" /\ run'.until = run.until
            /\ run.until = NoBound =>
                   \A o \in journal : o \in run'.ops \/ Replicated(VersionOf[o])
        BY <2>5, <3>3, PlainRead
      <4>2. \/ run'.until # NoBound
            \/ \A o \in outcome'.seen : o \in run'.ops \/ Replicated(VersionOf[o])'
        BY <1>0, <1>1, <2>2, <4>1
      <4> QED BY <2>0, <2>2, <4>1, <4>2 DEF DrainInv
    <3> QED BY <3>2, <3>3
  <2>6. CASE ReadFails \/ BuildFails
    BY <2>1, <2>3, <2>6 DEF ReadFails, BuildFails
  \* What is owed by a run that holds what it will submit.
  <2>7. ASSUME pc \in {"build", "submit"}, pc' \in {"submit", "release"},
               run'.ops = run.ops, run'.until = run.until,
               pc' = "release" => run'.submitted \/ outcome'.stopped
        PROVE  DrainInv'
    <3>1. ~ outcome'.stopped => ~ outcome.stopped
      BY <2>0
    <3>2. ASSUME NEW o \in outcome.seen, o \in run.ops \/ Replicated(VersionOf[o])
          PROVE  o \in run'.ops \/ Replicated(VersionOf[o])'
      BY <1>0, <1>1, <2>7, <3>2
    <3>3. outcome'.seen = outcome.seen
      BY <2>0, <2>7
    <3>4. ~ outcome'.stopped =>
            \/ run'.until # NoBound
            \/ \A o \in outcome'.seen : o \in run'.ops \/ Replicated(VersionOf[o])'
      BY <2>0, <2>7, <3>1, <3>2, <3>3 DEF DrainInv
    <3> QED BY <2>0, <2>2, <2>7, <3>4 DEF DrainInv
  <2>8. CASE BuildManifest
    <3>1. /\ pc = "build" /\ run'.ops = run.ops /\ run'.until = run.until
          /\ run'.entries = run.entries \ {}
          /\ pc' = IF run'.entries = {} THEN "release" ELSE "submit"
      BY <1>0, <2>8 DEF BuildManifest, ReadPermanentDeletes, Surviving, GoTo,
                        RunMemory, IntakeReaches
    <3>2. run.ops # {} /\ run.entries = {VersionOf[o] : o \in run.ops}
      BY <3>1 DEF IntakeReaches
    <3>3. run'.entries # {}
      BY <3>1, <3>2
    <3> QED BY <2>7, <3>1, <3>3
  <2>9. CASE SubmitJob
    <3>1. /\ pc = "submit" /\ pc' = "release"
          /\ run'.ops = run.ops /\ run'.until = run.until
          /\ run'.submitted \/ outcome'.stopped
      BY <1>0, <2>1, <2>9 DEF SubmitJob, GoTo, RunMemory
    <3> QED BY <2>7, <3>1
  <2>10. CASE ReleaseLease
    <3>1. /\ pc = "release" /\ pc' = "idle" /\ UNCHANGED manifests
          /\ outcome'.seen = outcome.seen
      BY <2>0, <2>10 DEF ReleaseLease, EndRun, GoTo
    <3>2. ASSUME ~ outcome'.stopped
          PROVE  outcome'.again \/ \A o \in outcome'.seen : Replicated(VersionOf[o])'
      <4>1. run.submitted
        BY <2>0, <3>1, <3>2 DEF DrainInv
      <4>2. \/ run.until # NoBound
            \/ \A o \in outcome.seen : o \in run.ops \/ Replicated(VersionOf[o])
        BY <2>0, <3>1, <3>2 DEF DrainInv
      <4>3. run.until # NoBound => outcome'.again
        BY <2>0, <3>1, <4>1 DEF Capped, Progressed
      <4>4. /\ Len(manifests) \in DOMAIN manifests
            /\ manifests[Len(manifests)].versions = run.entries
        BY <1>0, <4>1, LenProperties, EmptySeq DEF IntakeInv, RunCoherent
      <4>5. \A o \in run.ops : Replicated(VersionOf[o])
        BY <3>1, <4>4 DEF Replicated, IntakeReaches
      <4>6. (\A o \in outcome.seen : o \in run.ops \/ Replicated(VersionOf[o]))
              => \A o \in outcome'.seen : Replicated(VersionOf[o])'
        BY <1>0, <1>1, <3>1, <4>5
      <4> QED BY <4>2, <4>3, <4>6
    <3> QED BY <2>0, <2>2, <3>1, <3>2 DEF DrainInv
  <2> QED BY <2>0, <2>4, <2>5, <2>6, <2>8, <2>9, <2>10 DEF RunStep
<1>3. CASE Tick \/ Reinvoke
  <2>1. /\ waiting' # {} /\ UNCHANGED <<journal, run, pc, manifests>>
        /\ outcome'.seen = outcome.seen
        /\ (stage' = stage /\ outcome' = outcome) \/ stage' = "none"
    BY <1>3 DEF Tick, Reinvoke, EndExecution, ivars, ChainInv, ChainTypeOK
  <2> QED BY <2>1 DEF DrainInv, Replicated
<1>4. CASE \E i \in waiting : StartExecution(i)
  <2>1. /\ stage' = "run" /\ pc' = "idle" /\ outcome'.seen = {}
    BY <1>4 DEF StartExecution, NoOutcome, ivars, Remembers
  <2> QED BY <2>1 DEF DrainInv
<1>5. CASE ReinvokeFails \/ Finish
  <2>1. /\ stage = "decide" /\ stage' = "none" /\ UNCHANGED <<journal, manifests>>
        /\ outcome'.seen = outcome.seen
    BY <1>5 DEF ReinvokeFails, Finish, EndExecution, ChainInv, ChainTypeOK
  <2>2. ASSUME ~ outcome'.stopped PROVE ~ outcome.stopped /\ ~ outcome.again
    <3>1. Finish
      BY <1>5, <2>2 DEF ReinvokeFails, EndExecution, ChainInv, ChainTypeOK
    <3>2. ~ (outcome.stopped \/ (outcome.again /\ current.depth >= ChainLimit))
      BY <2>2, <3>1 DEF Finish, EndExecution, ChainInv, ChainTypeOK
    <3>3. current.depth \in Nat /\ ChainLimit \in Nat
      BY RunChainAssumption DEF ChainInv, ChainTypeOK, Invocation, NoInvocation
    <3> QED BY <3>1, <3>2, <3>3 DEF Finish, ShouldReinvoke
  <2> QED BY <2>1, <2>2 DEF DrainInv, Replicated
<1>6. CASE Environment /\ UNCHANGED <<ticks, waiting, current, stage, outcome, started>>
  <2>1. /\ journal \subseteq journal' /\ UNCHANGED <<run, pc, manifests>>
    BY <1>6 DEF Environment, TagObject, DeleteVersion
  <2> QED BY <1>0, <1>6, <2>1 DEF DrainInv, Replicated
<1>7. CASE UNCHANGED cvars
  BY <1>7 DEF cvars, DrainInv, Replicated
<1> QED BY <1>2, <1>3, <1>4, <1>5, <1>6, <1>7 DEF ChainNext

LEMMA DrainInductive ==
  ASSUME PlainBacklog
  PROVE  /\ ChainInit => IntakeReaches /\ DrainInv
         /\ IntakeInv /\ ChainInv /\ Remembers /\ IntakeReaches /\ DrainInv
            /\ [ChainNext]_cvars => IntakeReaches' /\ DrainInv'
<1>1. ChainInit => IntakeReaches /\ DrainInv
  BY DEF ChainInit, Init, EmptyCheckpoint, NoOutcome, IntakeReaches, DrainInv
<1>2. ASSUME IntakeInv, ChainInv, Remembers, IntakeReaches, DrainInv, [ChainNext]_cvars
      PROVE  IntakeReaches' /\ DrainInv'
  BY <1>2, ReachesStep, DrainStep
<1> QED BY <1>1, <1>2

\* DrainedUnlessStopped, of a plain backlog: when nothing is waiting, a run that
\* met no fault and was not cut by the limit left nothing behind of what it saw,
\* whatever the row cap, the chain limit and the order of the invocations.
THEOREM ChainsDrain ==
  ASSUME PlainBacklog
  PROVE  ChainSpec => []DrainedUnlessStopped
<1>1. ASSUME DrainInv PROVE DrainedUnlessStopped
  BY <1>1 DEF DrainInv, DrainedUnlessStopped, ValidRows, Replicated
<1>2. ChainInit => IntakeReaches /\ DrainInv
  BY DrainInductive
<1>3. IntakeInv /\ ChainInv /\ Remembers /\ IntakeReaches /\ DrainInv /\ [ChainNext]_cvars
        => IntakeReaches' /\ DrainInv'
  BY DrainInductive
<1> QED BY <1>1, <1>2, <1>3, ChainInductive, PTL DEF ChainSpec
=============================================================================
