---------------------------- MODULE JournalProofs ----------------------------
(***************************************************************************)
(* Lemmas about finite sets of numbers and about the operators of          *)
(* Checkpoint and JournalRead, for every value of their constants.         *)
(***************************************************************************)
EXTENDS JournalRead, FiniteSetTheorems, WellFoundedInduction, TLAPS

\* A non-empty set of naturals has a least element.
LEMMA LeastExists ==
  ASSUME NEW S \in SUBSET Nat, S # {}
  PROVE  \E x \in S : \A y \in S : x <= y
<1>1. \E x \in S : \A y \in S : ~ (<<y, x>> \in OpToRel(<, Nat))
  BY NatLessThanWellFounded, WFMin
<1>2. PICK x \in S : \A y \in S : ~ (<<y, x>> \in OpToRel(<, Nat))
  BY <1>1
<1>3. \A y \in S : ~ (y < x)
  BY <1>2 DEF OpToRel
<1> QED BY <1>3

\* A non-empty finite set of naturals has a greatest element.
LEMMA GreatestExists ==
  ASSUME NEW S \in SUBSET Nat, IsFiniteSet(S), S # {}
  PROVE  \E x \in S : \A y \in S : y <= x
<1> DEFINE HasGreatest(T) == \E x \in T : \A y \in T : y <= x
           Bad == {T \in SUBSET S : T # {} /\ ~ HasGreatest(T)}
           Sizes == {Cardinality(T) : T \in Bad}
<1>1. SUFFICES ASSUME ~ HasGreatest(S) PROVE FALSE
  OBVIOUS
<1>2. \A T \in SUBSET S : IsFiniteSet(T) /\ Cardinality(T) \in Nat
  BY FS_Subset, FS_CardinalityType
<1>3. Sizes \in SUBSET Nat
  BY <1>2
<1>4. S \in Bad
  BY <1>1
<1>5. Sizes # {}
  BY <1>4
<1>6. PICK n \in Sizes : \A m \in Sizes : n <= m
  <2> HIDE DEF Sizes
  <2> QED BY <1>3, <1>5, LeastExists
<1>7. PICK T \in Bad : Cardinality(T) = n
  BY <1>6
<1>8. PICK x \in T : TRUE
  BY <1>7
<1>9. /\ T \ {x} \in SUBSET S
      /\ IsFiniteSet(T \ {x})
      /\ Cardinality(T \ {x}) = Cardinality(T) - 1
  BY <1>2, <1>7, <1>8, FS_RemoveElement
<1>10. T \ {x} \notin Bad
  <2>1. SUFFICES ASSUME T \ {x} \in Bad PROVE FALSE
    OBVIOUS
  <2>2. n <= Cardinality(T \ {x})
    BY <1>6, <2>1
  <2>3. n \in Nat /\ Cardinality(T) \in Nat
    BY <1>2, <1>7
  <2> QED BY <1>7, <1>9, <2>2, <2>3
<1>11. CASE T \ {x} = {}
  <2>1. T = {x}
    BY <1>8, <1>11
  <2> QED BY <1>7, <1>8, <2>1
<1>12. CASE T \ {x} # {}
  <2>1. PICK y \in T \ {x} : \A z \in T \ {x} : z <= y
    BY <1>9, <1>10, <1>12
  <2>2. x \in Nat /\ y \in Nat /\ T \subseteq Nat
    BY <1>7, <1>8, <2>1
  <2>3. \A z \in T : z <= (IF x <= y THEN y ELSE x)
    BY <2>1, <2>2
  <2>4. HasGreatest(T)
    BY <1>8, <2>1, <2>3
  <2> QED BY <1>7, <2>4
<1> QED BY <1>11, <1>12

\* What a function takes on a finite part of its domain is a finite set.
LEMMA ImageFinite ==
  ASSUME NEW f, NEW S \in SUBSET DOMAIN f, IsFiniteSet(S)
  PROVE  IsFiniteSet({f[x] : x \in S})
<1> DEFINE T == {f[x] : x \in S}
           g == [x \in S |-> f[x]]
<1>1. g \in Surjection(S, T)
  BY DEF Surjection
<1> HIDE DEF g, T
<1>2. IsFiniteSet(T)
  BY <1>1, FS_Surjection
<1> QED BY <1>2 DEF T

-----------------------------------------------------------------------------
\* The high-water mark of a non-empty set of operations is one of their times.
LEMMA HighWaterIsATime ==
  ASSUME NEW ops \in SUBSET Op, ops # {}
  PROVE  /\ HighWater(ops) \in {Time[o] : o \in ops}
         /\ HighWater(ops) \in Nat \ {0}
         /\ \A o \in ops : Time[o] <= HighWater(ops)
<1> DEFINE times == {Time[o] : o \in ops}
<1>1. times \in SUBSET (Nat \ {0}) /\ times # {}
  BY CheckpointAssumption
<1>2. IsFiniteSet(ops)
  BY CheckpointAssumption, FS_Subset
<1>3. IsFiniteSet(times)
  BY <1>2, CheckpointAssumption, ImageFinite
<1>4. \E t \in times : \A u \in times : u <= t
  <2> HIDE DEF times
  <2> QED BY <1>1, <1>3, GreatestExists
<1>5. \E t \in times : \A o \in ops : Time[o] <= t
  BY <1>4
<1>6. HighWater(ops) \in times /\ \A o \in ops : Time[o] <= HighWater(ops)
  BY <1>5 DEF HighWater
<1> QED BY <1>1, <1>6

\* advance_checkpoint keeps a checkpoint a checkpoint, clears its lease and
\* never moves its watermark back, whatever was submitted.
LEMMA AdvanceCheckpointMonotone ==
  ASSUME NEW cp \in Checkpoints, NEW refs \in SUBSET Op, NEW candidate \in Nat
  PROVE  LET next == AdvanceCheckpoint(cp, refs, candidate)
         IN  /\ next \in Checkpoints
             /\ next.lease = NoLease
             /\ next.watermark >= cp.watermark
<1> USE DEF Checkpoints, NoLease
<1>1. CASE refs = {}
  BY <1>1 DEF AdvanceCheckpoint
<1>2. CASE refs # {}
  <2>1. HighWater(refs) \in Nat
    BY <1>2, HighWaterIsATime
  <2> DEFINE w == Later(cp.watermark, Later(HighWater(refs), candidate))
  <2>2. w \in Nat /\ w >= cp.watermark
    BY <2>1 DEF Later
  <2>3. PruneWindow(cp.window \cup refs, WindowStart(w)) \in SUBSET Op
    BY DEF PruneWindow
  <2> QED BY <1>2, <2>2, <2>3 DEF AdvanceCheckpoint
<1> QED BY <1>1, <1>2

\* A set of operations is smaller than n when it has fewer than n operations
\* up to each of its times: the latest of them counts the whole set.
LEMMA SmallUpToEachTime ==
  ASSUME NEW S \in SUBSET Op, NEW n \in Nat \ {0},
         \A t \in {Time[o] : o \in S} : Cardinality({o \in S : Time[o] <= t}) < n
  PROVE  Cardinality(S) < n
<1> DEFINE times == {Time[o] : o \in S}
<1>1. CASE S = {}
  BY <1>1, FS_EmptySet
<1>2. CASE S # {}
  <2>1. times \in SUBSET Nat /\ times # {}
    BY <1>2, CheckpointAssumption
  <2>2. IsFiniteSet(times)
    <3>1. IsFiniteSet(S)
      BY CheckpointAssumption, FS_Subset
    <3> QED BY <3>1, CheckpointAssumption, ImageFinite
  <2>3. PICK t \in times : \A u \in times : u <= t
    <3> HIDE DEF times
    <3> QED BY <2>1, <2>2, GreatestExists
  <2>4. {o \in S : Time[o] <= t} = S
    BY <2>3
  <2> QED BY <2>3, <2>4
<1> QED BY <1>1, <1>2

\* Likewise from the other side: the earliest of the times counts the whole set.
LEMMA SmallFromEachTime ==
  ASSUME NEW S \in SUBSET Op, NEW n \in Nat,
         \A t \in {Time[o] : o \in S} : Cardinality({o \in S : Time[o] >= t}) <= n
  PROVE  Cardinality(S) <= n
<1> DEFINE times == {Time[o] : o \in S}
<1>1. CASE S = {}
  BY <1>1, FS_EmptySet
<1>2. CASE S # {}
  <2>1. times \in SUBSET Nat /\ times # {}
    BY <1>2, CheckpointAssumption
  <2>2. PICK t \in times : \A u \in times : t <= u
    <3> HIDE DEF times
    <3> QED BY <2>1, LeastExists
  <2>3. t \in Nat /\ \A u \in times : u \in Nat /\ u >= t
    BY <2>1, <2>2
  <2>4. {o \in S : Time[o] >= t} = S
    BY <2>3
  <2> QED BY <2>2, <2>4
<1> QED BY <1>1, <1>2

\* Fewer than n of the rows above w lie strictly below the n-th one's time, and
\* without such a time there are fewer than n of them.
LEMMA BoundaryBudget ==
  ASSUME NEW rows \in SUBSET Op, NEW w \in Nat, NEW n \in Nat \ {0}
  PROVE  LET b == RowCountBoundary(rows, w, n)
         IN  Cardinality({o \in rows : Time[o] > w /\ (b = NoBound \/ Time[o] < b)}) < n
<1> DEFINE new     == {o \in rows : Time[o] > w}
           UpTo(t) == {o \in new : Time[o] <= t}
           times   == {Time[o] : o \in new}
           reach   == {t \in times : Cardinality(UpTo(t)) >= n}
           b       == RowCountBoundary(rows, w, n)
           below   == {o \in rows : Time[o] > w /\ (b = NoBound \/ Time[o] < b)}
<1>1. \A t : IsFiniteSet(UpTo(t)) /\ Cardinality(UpTo(t)) \in Nat
  BY CheckpointAssumption, FS_Subset, FS_CardinalityType
<1>2. times \in SUBSET Nat
  BY CheckpointAssumption
<1>3. b = IF reach = {} THEN NoBound
          ELSE CHOOSE t \in reach : \A u \in reach : t <= u
  BY DEF RowCountBoundary
<1>4. CASE reach = {}
  <2>1. below = new
    BY <1>3, <1>4
  <2>2. ASSUME NEW t \in times PROVE Cardinality(UpTo(t)) < n
    <3>1. ~ (Cardinality(UpTo(t)) >= n)
      BY <1>4
    <3>2. Cardinality(UpTo(t)) \in Nat
      BY <1>1
    <3> HIDE DEF UpTo
    <3> QED BY <3>1, <3>2
  <2> QED BY <2>1, <2>2, SmallUpToEachTime
<1>5. CASE reach # {}
  <2>1. \E t \in reach : \A u \in reach : t <= u
    <3> HIDE DEF times
    <3> QED BY <1>2, <1>5, LeastExists
  <2>2. b \in reach /\ \A u \in reach : b <= u
    <3> HIDE DEF b, reach
    <3> QED BY <1>3, <1>5, <2>1
  <2>3. b \in Nat
    BY <1>2, <2>2
  <2>4. below = {o \in new : Time[o] < b}
    BY <2>3 DEF NoBound
  <2>5. ASSUME NEW t \in {Time[o] : o \in below}
        PROVE  Cardinality({o \in below : Time[o] <= t}) < n
    <3>1. t \in times /\ t < b
      BY <2>4
    <3>2. t \notin reach
      BY <1>2, <2>2, <2>3, <3>1
    <3>3. {o \in below : Time[o] <= t} = UpTo(t)
      BY <2>3, <2>4, <3>1, <1>2, CheckpointAssumption
    <3> QED BY <1>1, <3>1, <3>2, <3>3
  <2>6. below \in SUBSET Op
    OBVIOUS
  <2>7. Cardinality(below) < n
    <3> HIDE DEF below
    <3> QED BY <2>5, <2>6, SmallUpToEachTime
  <2> QED BY <2>7
<1> QED BY <1>4, <1>5

\* At most n of the tail's rows lie strictly above its floor, and the floor
\* is not below the start of the window.
LEMMA FloorBudget ==
  ASSUME NEW rows \in SUBSET Op, NEW w \in Nat, NEW n \in Nat
  PROVE  LET f == TailFloor(rows, w, n)
         IN  /\ f \in Nat /\ f >= WindowStart(w) /\ f <= w
             /\ Cardinality({o \in TailRows(rows, w) : Time[o] > f}) <= n
<1> DEFINE tail    == TailRows(rows, w)
           From(t) == {o \in tail : Time[o] >= t}
           times   == {Time[o] : o \in tail}
           reach   == {t \in times : Cardinality(From(t)) > n}
           f       == TailFloor(rows, w, n)
           above   == {o \in tail : Time[o] > f}
<1>1. tail \in SUBSET Op /\ \A o \in tail : Time[o] > WindowStart(w) /\ Time[o] <= w
  BY DEF TailRows, RowsIn
<1>2. WindowStart(w) \in Nat /\ WindowStart(w) <= w
  BY CheckpointAssumption DEF WindowStart, Epoch
<1>3. \A t : IsFiniteSet(From(t)) /\ Cardinality(From(t)) \in Nat
  BY <1>1, CheckpointAssumption, FS_Subset, FS_CardinalityType
<1>4. times \in SUBSET Nat /\ IsFiniteSet(times)
  <2>1. IsFiniteSet(tail)
    BY <1>1, CheckpointAssumption, FS_Subset
  <2> QED BY <1>1, <2>1, CheckpointAssumption, ImageFinite
<1>5. f = IF reach = {} THEN WindowStart(w)
          ELSE CHOOSE t \in reach : \A u \in reach : u <= t
  BY DEF TailFloor
<1>6. CASE reach = {}
  <2>1. f = WindowStart(w)
    BY <1>5, <1>6
  <2>2. above = tail
    BY <1>1, <2>1
  <2>3. \A t \in times : Cardinality(From(t)) <= n
    <3> HIDE DEF times
    <3> QED BY <1>3, <1>6
  <2>4. Cardinality(tail) <= n
    <3> HIDE DEF tail
    <3> QED BY <1>1, <2>3, SmallFromEachTime
  <2> QED BY <1>2, <2>1, <2>2, <2>4
<1>7. CASE reach # {}
  <2>1. \E t \in reach : \A u \in reach : u <= t
    <3>1. IsFiniteSet(reach) /\ reach \in SUBSET Nat
      BY <1>4, FS_Subset
    <3> HIDE DEF reach
    <3> QED BY <1>7, <3>1, GreatestExists
  <2>2. f \in reach /\ \A u \in reach : u <= f
    <3> HIDE DEF f, reach
    <3> QED BY <1>5, <1>7, <2>1
  <2>3. f \in times /\ f \in Nat
    BY <1>4, <2>2
  <2>4. f >= WindowStart(w) /\ f <= w
    <3> HIDE DEF f
    <3> QED BY <1>1, <1>2, <2>3
  <2>5. ASSUME NEW t \in {Time[o] : o \in above}
        PROVE  Cardinality({o \in above : Time[o] >= t}) <= n
    <3>1. t \in times /\ t > f
      OBVIOUS
    <3>2. t \notin reach
      BY <1>4, <2>2, <2>3, <3>1
    <3>3. {o \in above : Time[o] >= t} = From(t)
      BY <1>1, <1>4, <2>3, <3>1, CheckpointAssumption
    <3> QED BY <1>3, <3>1, <3>2, <3>3
  <2>6. Cardinality(above) <= n
    <3>1. above \in SUBSET Op
      BY <1>1
    <3> HIDE DEF above
    <3> QED BY <2>5, <3>1, SmallFromEachTime
  <2> QED BY <2>3, <2>4, <2>6
<1> QED BY <1>6, <1>7

\* What is left of the cap beside the tail's allowance is at least one row, and
\* the two together are the cap.
LEMMA BudgetFitsCap ==
  ASSUME NEW tail \in Nat
  PROVE  /\ TailAllowance(tail) \in Nat
         /\ TailAllowance(tail) <= tail
         /\ NewRowBudget(tail) \in Nat \ {0}
         /\ TailAllowance(tail) + NewRowBudget(tail) = RowCap
<1>1. (RowCap * 4) \div 5 \in Nat /\ (RowCap * 4) \div 5 < RowCap
  BY RowCapAssumption
<1>2. TailAllowance(tail) \in Nat /\ TailAllowance(tail) <= tail
      /\ TailAllowance(tail) <= (RowCap * 4) \div 5
  BY <1>1 DEF TailAllowance
<1> QED BY <1>1, <1>2, RowCapAssumption DEF NewRowBudget, Later

\* A read that is bounded by a budget of new rows, and whose tail is cut to what
\* the budget leaves, takes fewer rows than the cap of those seen before its upper
\* bound was found, the tie at the bound left out.
LEMMA BoundedReadFitsCap ==
  ASSUME NEW rows \in SUBSET Op, NEW seen \in SUBSET rows, NEW w \in Nat,
         NEW since \in Nat, NEW a \in Nat, NEW n \in Nat \ {0}, a + n = RowCap,
         since >= WindowStart(w),
         Cardinality({o \in TailRows(seen, w) : Time[o] > since}) <= a
  PROVE  LET until == RowCountBoundary(rows, w, n)
         IN  FitsCap(RowsUpTo(seen, since, until), until)
<1> DEFINE until == RowCountBoundary(rows, w, n)
           kept  == {o \in TailRows(seen, w) : Time[o] > since}
           above == {o \in rows : Time[o] > w /\ (until = NoBound \/ Time[o] < until)}
           new   == {o \in seen : Time[o] > w /\ (until = NoBound \/ Time[o] < until)}
           read  == RowsUpTo(seen, since, until)
           fit   == {o \in read : until = NoBound \/ Time[o] < until}
<1>0. seen \in SUBSET Op
  OBVIOUS
<1>1. fit \subseteq kept \cup new
  <2> HIDE DEF until
  <2>1. ASSUME NEW o \in fit, ~ (Time[o] > w) PROVE o \in kept
    <3>1. o \in seen /\ Time[o] > since /\ Time[o] \in Nat \ {0} /\ Time[o] <= w
      BY <1>0, <2>1, CheckpointAssumption DEF RowsUpTo
    <3>2. WindowStart(w) \in Nat
      BY CheckpointAssumption DEF WindowStart, Epoch
    <3> QED BY <3>1, <3>2 DEF TailRows, RowsIn, Epoch
  <2>2. ASSUME NEW o \in fit, Time[o] > w PROVE o \in new
    BY <2>2 DEF RowsUpTo
  <2> QED BY <2>1, <2>2
<1>2. Cardinality(new) < n /\ IsFiniteSet(new)
  <2>1. Cardinality(above) < n
    BY BoundaryBudget
  <2>2. IsFiniteSet(above)
    BY CheckpointAssumption, FS_Subset
  <2>3. new \subseteq above
    OBVIOUS
  <2> HIDE DEF new, above
  <2> QED BY <2>1, <2>2, <2>3, FS_Subset, FS_CardinalityType
<1>3. IsFiniteSet(kept)
  BY <1>0, CheckpointAssumption, FS_Subset DEF TailRows, RowsIn
<1> HIDE DEF kept, new, fit
<1>4. /\ IsFiniteSet(kept \cup new)
      /\ Cardinality(kept \cup new) <= Cardinality(kept) + Cardinality(new)
  <2>1. IsFiniteSet(kept \cap new)
    BY <1>3, FS_Subset
  <2>2. /\ Cardinality(kept) \in Nat
        /\ Cardinality(new) \in Nat
        /\ Cardinality(kept \cap new) \in Nat
    BY <1>2, <1>3, <2>1, FS_CardinalityType
  <2>3. /\ IsFiniteSet(kept \cup new)
        /\ Cardinality(kept \cup new) =
             Cardinality(kept) + Cardinality(new) - Cardinality(kept \cap new)
    BY <1>2, <1>3, FS_Union
  <2> QED BY <2>2, <2>3
<1>5. Cardinality(fit) <= Cardinality(kept \cup new)
  BY <1>1, <1>4, FS_Subset
<1>6. /\ Cardinality(kept) \in Nat
      /\ Cardinality(new) \in Nat
      /\ Cardinality(kept \cup new) \in Nat
      /\ Cardinality(fit) \in Nat
  BY <1>1, <1>2, <1>3, <1>4, FS_Subset, FS_CardinalityType
<1>7. Cardinality(kept) <= a
  BY DEF kept
<1>8. Cardinality(fit) < RowCap
  BY <1>2, <1>4, <1>5, <1>6, <1>7
<1> QED BY <1>8 DEF fit, FitsCap

\* What a floor leaves of the rows seen before it was found fits its allowance.
LEMMA FloorFitsSeen ==
  ASSUME NEW rows \in SUBSET Op, NEW seen \in SUBSET rows, NEW w \in Nat, NEW a \in Nat
  PROVE  LET since == TailFloor(rows, w, a)
         IN  /\ since \in Nat /\ since >= WindowStart(w)
             /\ Cardinality({o \in TailRows(seen, w) : Time[o] > since}) <= a
<1> DEFINE since == TailFloor(rows, w, a)
           left  == {o \in TailRows(rows, w) : Time[o] > since}
           kept  == {o \in TailRows(seen, w) : Time[o] > since}
<1>1. since \in Nat /\ since >= WindowStart(w) /\ Cardinality(left) <= a
  BY FloorBudget
<1>2. kept \subseteq left /\ IsFiniteSet(left)
  BY CheckpointAssumption, FS_Subset DEF TailRows, RowsIn
<1> HIDE DEF left
<1>3. Cardinality(kept) <= a
  <2> HIDE DEF kept
  <2> QED BY <1>1, <1>2, FS_Subset, FS_CardinalityType
<1> QED BY <1>1, <1>3

-----------------------------------------------------------------------------
\* The bound that RowCountBoundary finds is a time, if there is one.
LEMMA BoundaryType ==
  ASSUME NEW rows \in SUBSET Op, NEW w \in Nat, NEW n \in Nat
  PROVE  RowCountBoundary(rows, w, n) \in Nat \cup {NoBound}
<1> DEFINE new   == {o \in rows : Time[o] > w}
           reach == {t \in {Time[o] : o \in new} :
                        Cardinality({o \in new : Time[o] <= t}) >= n}
<1>1. reach \in SUBSET Nat
  BY CheckpointAssumption
<1>2. RowCountBoundary(rows, w, n) =
        IF reach = {} THEN NoBound
        ELSE CHOOSE t \in reach : \A u \in reach : t <= u
  BY DEF RowCountBoundary
<1> HIDE DEF reach
<1>3. CASE reach = {}
  BY <1>2, <1>3
<1>4. CASE reach # {}
  <2>1. \E t \in reach : \A u \in reach : t <= u
    BY <1>1, <1>4, LeastExists
  <2> QED BY <1>1, <1>2, <1>4, <2>1
<1> QED BY <1>3, <1>4

\* The two bounds of a read are times.
LEMMA BoundsType ==
  ASSUME NEW rows \in SUBSET Op, NEW w \in Nat
  PROVE  ReadSince(rows, w) \in Nat /\ ReadUntil(rows, w) \in Nat \cup {NoBound}
<1> DEFINE tail == Cardinality(TailRows(rows, w))
<1>1. tail \in Nat
  BY CheckpointAssumption, FS_Subset, FS_CardinalityType DEF TailRows, RowsIn
<1>2. TailAllowance(tail) \in Nat /\ NewRowBudget(tail) \in Nat
  BY <1>1, BudgetFitsCap
<1>3. WindowStart(w) \in Nat
  BY CheckpointAssumption DEF WindowStart, Epoch
<1>4. TailFloor(rows, w, TailAllowance(tail)) \in Nat
  BY <1>2, FloorBudget
<1>5. ReadSince(rows, w) \in Nat
  BY <1>3, <1>4 DEF ReadSince
<1>6. ReadUntil(rows, w) \in Nat \cup {NoBound}
  BY <1>2, BoundaryType DEF ReadUntil
<1> QED BY <1>5, <1>6

\* The lookback window starts at or below its watermark, later for a later one.
LEMMA WindowStartMonotone ==
  ASSUME NEW v \in Nat, NEW w \in Nat, v <= w
  PROVE  /\ WindowStart(v) \in Nat /\ WindowStart(w) \in Nat
         /\ WindowStart(v) <= WindowStart(w) /\ WindowStart(v) <= v
BY CheckpointAssumption DEF WindowStart, Epoch

\* A lookback tail that fits its allowance wherever the watermark is, so that no
\* read has to cut it; a cut may pass rows by, behind a rolled-back watermark.
TailFits == \A w \in Nat : Cardinality(TailRows(Op, w)) <= FullTail

\* Then no tail exceeds its allowance, and a floor is the window start.
LEMMA TailWithinAllowance ==
  ASSUME TailFits, NEW rows \in SUBSET Op, NEW w \in Nat
  PROVE  /\ Cardinality(TailRows(rows, w)) \in Nat
         /\ Cardinality(TailRows(rows, w)) <= FullTail
         /\ TailFloor(rows, w, FullTail) = WindowStart(w)
<1>1. FullTail \in Nat
  BY RowCapAssumption DEF FullTail
<1>2. /\ IsFiniteSet(TailRows(Op, w))
      /\ TailRows(rows, w) \subseteq TailRows(Op, w)
  BY CheckpointAssumption, FS_Subset DEF TailRows, RowsIn
<1>3. \A S \in SUBSET TailRows(Op, w) : Cardinality(S) \in Nat /\ Cardinality(S) <= FullTail
  BY <1>1, <1>2, FS_Subset, FS_CardinalityType DEF TailFits
<1>4. TailFloor(rows, w, FullTail) = WindowStart(w)
  <2> DEFINE From(t) == {q \in TailRows(rows, w) : Time[q] >= t}
  <2>1. \A t : ~ (Cardinality(From(t)) > FullTail)
    <3>1. \A t : From(t) \in SUBSET TailRows(Op, w)
      BY <1>2
    <3> HIDE DEF From
    <3> QED BY <1>1, <1>3, <3>1
  <2> QED BY <2>1 DEF TailFloor
<1> QED BY <1>2, <1>3, <1>4

\* An allowance is a full tail at most, and a tail above its allowance has that.
LEMMA AllowanceIsFull ==
  ASSUME NEW tail \in Nat
  PROVE  /\ FullTail \in Nat
         /\ TailAllowance(tail) <= FullTail
         /\ tail >= FullTail => TailAllowance(tail) = FullTail
         /\ tail > TailAllowance(tail) => tail > FullTail
         /\ tail <= FullTail => TailAllowance(tail) = tail
BY RowCapAssumption DEF FullTail, TailAllowance

\* Then no read is cut.
LEMMA TailNotCut ==
  ASSUME TailFits, NEW rows \in SUBSET Op, NEW w \in Nat
  PROVE  ReadSince(rows, w) = WindowStart(w)
<1> DEFINE tail == Cardinality(TailRows(rows, w))
<1>1. tail \in Nat /\ tail <= FullTail
  BY TailWithinAllowance
<1> HIDE DEF tail
<1>2. TailAllowance(tail) = tail
  BY <1>1, AllowanceIsFull
<1> QED BY <1>1, <1>2 DEF ReadSince, tail

\* The upper bound of a read, if it has one, is the time of a new row.
LEMMA UntilIsNew ==
  ASSUME NEW rows \in SUBSET Op, NEW w \in Nat, ReadUntil(rows, w) # NoBound
  PROVE  \E o \in rows : Time[o] > w /\ Time[o] = ReadUntil(rows, w)
<1> DEFINE n     == NewRowBudget(Cardinality(TailRows(rows, w)))
           new   == {o \in rows : Time[o] > w}
           reach == {t \in {Time[o] : o \in new} :
                        Cardinality({o \in new : Time[o] <= t}) >= n}
<1>1. ReadUntil(rows, w) =
        IF reach = {} THEN NoBound
        ELSE CHOOSE t \in reach : \A u \in reach : t <= u
  BY DEF ReadUntil, RowCountBoundary
<1>2. reach \in SUBSET Nat /\ reach \subseteq {Time[o] : o \in new}
  BY CheckpointAssumption
<1>3. reach # {}
  BY <1>1
<1> HIDE DEF reach
<1>4. \E t \in reach : \A u \in reach : t <= u
  BY <1>2, <1>3, LeastExists
<1>5. ReadUntil(rows, w) \in reach
  BY <1>1, <1>3, <1>4
<1> QED BY <1>2, <1>5

\* The rows above a watermark fit the budget that a full tail leaves for them, so
\* that a read from there is not cut short: without this, a read behind a
\* rolled-back watermark may leave a part of the failed range to the next run.
NewRowsFit ==
    \A w \in Nat \ {Epoch} : Cardinality({o \in Op : Time[o] > w}) < NewRowBudget(FullTail)

\* Fewer rows than the budget set no bound.
LEMMA NoBoundary ==
  ASSUME NEW rows \in SUBSET Op, NEW w \in Nat, NEW n \in Nat,
         Cardinality({o \in Op : Time[o] > w}) < n
  PROVE  RowCountBoundary(rows, w, n) = NoBound
<1> DEFINE new     == {o \in rows : Time[o] > w}
           UpTo(t) == {o \in new : Time[o] <= t}
<1>1. ASSUME NEW t PROVE ~ (Cardinality(UpTo(t)) >= n)
  <2>1. UpTo(t) \subseteq {o \in Op : Time[o] > w} /\ IsFiniteSet({o \in Op : Time[o] > w})
    BY CheckpointAssumption, FS_Subset
  <2> HIDE DEF UpTo
  <2>2. /\ Cardinality(UpTo(t)) <= Cardinality({o \in Op : Time[o] > w})
        /\ Cardinality(UpTo(t)) \in Nat
        /\ Cardinality({o \in Op : Time[o] > w}) \in Nat
    BY <2>1, FS_Subset, FS_CardinalityType
  <2> QED BY <2>2
<1> QED BY <1>1 DEF RowCountBoundary

\* Then no budget of new rows sets a bound.
LEMMA BudgetSetsNoBound ==
  ASSUME NewRowsFit, NEW rows \in SUBSET Op, NEW w \in Nat \ {Epoch}, NEW tail \in Nat
  PROVE  RowCountBoundary(rows, w, NewRowBudget(tail)) = NoBound
<1>1. TailAllowance(tail) <= TailAllowance(FullTail) /\ FullTail \in Nat
  BY RowCapAssumption DEF TailAllowance, FullTail
<1>2. NewRowBudget(FullTail) <= NewRowBudget(tail)
      /\ NewRowBudget(FullTail) \in Nat /\ NewRowBudget(tail) \in Nat
  BY <1>1, BudgetFitsCap, RowCapAssumption DEF NewRowBudget, Later
<1>3. Cardinality({p \in Op : Time[p] > w}) \in Nat
  BY CheckpointAssumption, FS_Subset, FS_CardinalityType
<1>4. Cardinality({p \in Op : Time[p] > w}) < NewRowBudget(tail)
  BY <1>2, <1>3 DEF NewRowsFit
<1> QED BY <1>2, <1>4, NoBoundary DEF Epoch
=============================================================================
