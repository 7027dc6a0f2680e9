---------------------------- MODULE JournalRead ----------------------------
(***************************************************************************)
(* How a run bounds its journal read: the row budget of                    *)
(* src/core/row_cap_validation.py, the two scalar Athena queries that turn *)
(* it into a pair of timestamps, and the rows the read then returns        *)
(* (src/adapters/athena_journal_adapter.py, src/orchestrator.py).          *)
(* Every operation is one UPDATE_METADATA row of the journal.              *)
(***************************************************************************)
EXTENDS Checkpoint

CONSTANT RowCap   \* JournalReadRowCap, floored at MIN_JOURNAL_READ_ROW_CAP = 2

ASSUME RowCapAssumption == RowCap \in Nat /\ RowCap >= 2

NoBound == -1

RowsIn(rows, from, to) == {o \in rows : Time[o] > from /\ Time[o] <= to}

TailRows(rows, w) ==
    IF w = Epoch THEN {} ELSE RowsIn(rows, WindowStart(w), w)

\* The lookback tail may take four fifths of the cap and not more.
TailAllowance(tail) ==
    IF tail <= (RowCap * 4) \div 5 THEN tail ELSE (RowCap * 4) \div 5

NewRowBudget(tail) == Later(1, RowCap - TailAllowance(tail))

\* ORDER BY record_timestamp OFFSET n - 1 LIMIT 1 over the rows above w: the
\* timestamp of the n-th of them, an inclusive bound; none when there are fewer.
RowCountBoundary(rows, w, n) ==
    LET new   == {o \in rows : Time[o] > w}
        UpTo(t) == {o \in new : Time[o] <= t}
        reach == {t \in {Time[o] : o \in new} : Cardinality(UpTo(t)) >= n}
    IN  IF reach = {} THEN NoBound
        ELSE CHOOSE t \in reach : \A u \in reach : t <= u

\* ORDER BY record_timestamp DESC OFFSET n LIMIT 1 over the tail: the timestamp
\* of the row one past the allowance, an exclusive bound.
TailFloor(rows, w, n) ==
    LET tail  == TailRows(rows, w)
        From(t) == {o \in tail : Time[o] >= t}
        reach == {t \in {Time[o] : o \in tail} : Cardinality(From(t)) > n}
    IN  IF reach = {} THEN WindowStart(w)
        ELSE CHOOSE t \in reach : \A u \in reach : u <= t

RowsUpTo(rows, since, until) ==
    {o \in rows : Time[o] > since /\ (until = NoBound \/ Time[o] <= until)}

\* The bounds (since, until] of a run whose checkpoint is at w, found over one
\* state of the journal.
ReadSince(rows, w) ==
    LET tail == Cardinality(TailRows(rows, w))
    IN  IF tail > TailAllowance(tail)
          THEN TailFloor(rows, w, TailAllowance(tail))
          ELSE WindowStart(w)

ReadUntil(rows, w) ==
    RowCountBoundary(rows, w, NewRowBudget(Cardinality(TailRows(rows, w))))

\* What the tail is taken to hold when it cannot be counted.  There is nothing
\* to count at the epoch or without a lookback.
FullTail == (RowCap * 4) \div 5

CountsTail(w) == w # Epoch /\ WindowStart(w) # w

\* Only rows that share the upper bound may bring a read above the cap.
FitsCap(read, until) ==
    Cardinality({o \in read : until = NoBound \/ Time[o] < until}) < RowCap
=============================================================================
