----------------------------- MODULE Checkpoint -----------------------------
(***************************************************************************)
(* The checkpoint arithmetic of src/core/checkpoint_logic.py: which        *)
(* tagging operations a run may pick up, and how the stored checkpoint     *)
(* moves when the run releases its lease.                                  *)
(*                                                                         *)
(* A watermark is a record_timestamp; it is a natural number here and 0 is *)
(* the epoch (the empty string of a bucket that has never submitted).  A   *)
(* checkpoint is a record [watermark, lease, window]: the lease is the     *)
(* candidate_max_watermark of an IN_FLIGHT lease, or NoLease, and the      *)
(* processed-operation window is a set of operations (a ProcessedRef       *)
(* carries the operation's own watermark, so the set says it all).         *)
(***************************************************************************)
EXTENDS Integers, FiniteSets

CONSTANTS Op,        \* the tagging operations (logical_operation_id)
          Time,      \* Time[o] is the record_timestamp of o
          Lookback   \* JournalLookbackSeconds

ASSUME CheckpointAssumption ==
    /\ IsFiniteSet(Op)
    /\ Time \in [Op -> Nat \ {0}]
    /\ Lookback \in Nat

Epoch   == 0
NoLease == 0

Checkpoints == [watermark: Nat, lease: Nat, window: SUBSET Op]

EmptyCheckpoint == [watermark |-> Epoch, lease |-> NoLease, window |-> {}]

\* Where the lookback window starts: journal rows strictly above it are read.
\* The epoch has no earlier point.  The code does not clip a start before the
\* first row; here it is clipped to the epoch, below which no row is.
WindowStart(w) == IF w > Lookback THEN w - Lookback ELSE Epoch

HeldByLease(o, cp) == cp.lease # NoLease /\ Time[o] <= cp.lease

\* Mutant: the window of taken operations is not consulted.
LateArrivalUnchecked(o, cp) == Time[o] > WindowStart(cp.watermark)

\* A row at or below the watermark is a late arrival worth a second look only
\* inside the lookback window, and only if no job took it already.
LateArrival(o, cp) ==
    /\ Time[o] > WindowStart(cp.watermark)
    /\ o \notin cp.window

\* Mutant: no second look below the watermark.
IsEligibleAbove(o, cp) ==
    ~ HeldByLease(o, cp) /\ (cp.watermark = Epoch \/ Time[o] > cp.watermark)

IsEligible(o, cp) ==
    /\ ~ HeldByLease(o, cp)
    /\ \/ cp.watermark = Epoch
       \/ Time[o] > cp.watermark
       \/ LateArrival(o, cp)

\* The highest record_timestamp of a non-empty set of operations.
HighWater(ops) ==
    CHOOSE t \in {Time[o] : o \in ops} : \A o \in ops : Time[o] <= t

\* Entries at or below the window start can never be read again.
PruneWindow(ops, start) == {o \in ops : Time[o] > start}

Later(a, b) == IF a >= b THEN a ELSE b

\* Mutant: the watermark is set to what was submitted, wherever it stood.
AdvanceToSubmitted(cp, refs, candidate) ==
    IF refs = {}
      THEN [cp EXCEPT !.lease = NoLease]
      ELSE LET w == Later(HighWater(refs), candidate)
           IN  [watermark |-> w,
                lease     |-> NoLease,
                window    |-> PruneWindow(cp.window \cup refs, WindowStart(w))]

\* The checkpoint a release writes.  refs = {} is "nothing was submitted": only
\* the lease goes.  Otherwise the watermark never moves back, and passes every
\* eligible operation of the interval, those without a ref included.
AdvanceCheckpoint(cp, refs, candidate) ==
    IF refs = {}
      THEN [cp EXCEPT !.lease = NoLease]
      ELSE LET w == Later(cp.watermark, Later(HighWater(refs), candidate))
           IN  [watermark |-> w,
                lease     |-> NoLease,
                window    |-> PruneWindow(cp.window \cup refs, WindowStart(w))]

\* What a recovery rollback makes of the checkpoint in memory.
RollBackTo(cp, w) ==
    [cp EXCEPT !.watermark = w,
               !.window    = {o \in cp.window : Time[o] <= w}]
=============================================================================
