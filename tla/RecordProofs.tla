---------------------------- MODULE RecordProofs -----------------------------
(***************************************************************************)
(* Lemmas about the operators of SubmissionRecords, for every value of its *)
(* constants.                                                              *)
(***************************************************************************)
EXTENDS SubmissionRecords, FiniteSetTheorems, TLAPS

\* record_submission adds the new record, keeps it whatever the pruning and the
\* eviction remove, and changes no other record.
LEMMA RecordSubmissionKeeps ==
  ASSUME NEW records, NEW own, NEW record, NEW terminal, NEW processed
  PROVE  LET next == RecordSubmission(records, own, record, terminal, processed)
         IN  /\ next = [j \in DOMAIN next |-> next[j]]
             /\ DOMAIN next \subseteq DOMAIN records \cup {own}
             /\ own \in DOMAIN next
             /\ \A j \in DOMAIN next :
                    next[j] = IF j = own THEN record ELSE records[j]
<1> DEFINE with   == WithRecord(records, own, record)
           pruned == PruneSettled(with, own, terminal, processed)
<1>1. /\ DOMAIN pruned \subseteq DOMAIN records \cup {own}
      /\ own \in DOMAIN pruned
      /\ \A j \in DOMAIN pruned :
             pruned[j] = IF j = own THEN record ELSE records[j]
  BY DEF WithRecord, PruneSettled, Restrict
<1>2. \A f : own \in DOMAIN f =>
        LET kept == EvictAboveCeiling(f, own, terminal)
        IN  /\ kept = [j \in DOMAIN kept |-> kept[j]]
            /\ DOMAIN kept \subseteq DOMAIN f
            /\ own \in DOMAIN kept
            /\ \A j \in DOMAIN kept : kept[j] = f[j]
  BY DEF EvictAboveCeiling, Restrict
<1> HIDE DEF pruned
<1>3. LET kept == EvictAboveCeiling(pruned, own, terminal)
      IN  /\ kept = [j \in DOMAIN kept |-> kept[j]]
          /\ DOMAIN kept \subseteq DOMAIN pruned
          /\ own \in DOMAIN kept
          /\ \A j \in DOMAIN kept : kept[j] = pruned[j]
  BY <1>1, <1>2
<1> HIDE DEF with
<1>4. RecordSubmission(records, own, record, terminal, processed)
        = EvictAboveCeiling(pruned, own, terminal)
  BY DEF RecordSubmission, pruned, with
<1> QED BY <1>1, <1>3, <1>4

\* A record other than the new one goes for one of two reasons: its job is
\* settled, or the map with the new record in it is above its ceiling.
LEMMA RecordSubmissionRemoves ==
  ASSUME NEW records, IsFiniteSet(DOMAIN records),
         NEW own, NEW record, NEW terminal, NEW processed,
         NEW j \in DOMAIN records, j # own,
         j \notin DOMAIN RecordSubmission(records, own, record, terminal, processed)
  PROVE  \/ Settled(records, j, terminal, processed)
         \/ Cardinality(DOMAIN records) >= Ceiling
<1> DEFINE with   == WithRecord(records, own, record)
           pruned == PruneSettled(with, own, terminal, processed)
<1>1. /\ DOMAIN pruned \subseteq DOMAIN records \cup {own}
      /\ j \in DOMAIN with /\ with[j] = records[j]
  BY DEF WithRecord, PruneSettled, Restrict
<1>2. CASE j \notin DOMAIN pruned
  <2>1. Settled(with, j, terminal, processed)
    BY <1>1, <1>2 DEF PruneSettled, Restrict
  <2> QED BY <1>1, <2>1 DEF Settled
<1>3. CASE j \in DOMAIN pruned
  <2> HIDE DEF with, pruned
  <2> DEFINE evictable == DOMAIN pruned \ {own}
             ahead == {k \in evictable : EvictedBefore(pruned, terminal, k, j)}
             surplus == Cardinality(DOMAIN pruned) - Ceiling
  <2>1. j \notin DOMAIN EvictAboveCeiling(pruned, own, terminal)
    BY DEF RecordSubmission, pruned, with
  <2>2. Cardinality(ahead) < surplus
    BY <1>3, <2>1 DEF EvictAboveCeiling, Restrict
  <2>3. /\ IsFiniteSet(DOMAIN records \cup {own})
        /\ Cardinality(DOMAIN records \cup {own}) <= Cardinality(DOMAIN records) + 1
        /\ Cardinality(DOMAIN records) \in Nat
    <3> DEFINE ids == DOMAIN records
    <3>1. IsFiniteSet(ids) /\ Cardinality(ids) \in Nat
      BY FS_CardinalityType
    <3> HIDE DEF ids
    <3>2. /\ IsFiniteSet(ids \cup {own})
          /\ Cardinality(ids \cup {own})
               = IF own \in ids THEN Cardinality(ids) ELSE Cardinality(ids) + 1
      BY <3>1, FS_AddElement
    <3>3. /\ IsFiniteSet(ids \cup {own})
          /\ Cardinality(ids \cup {own}) <= Cardinality(ids) + 1
      BY <3>1, <3>2
    <3> QED BY <3>1, <3>3 DEF ids
  <2>4. /\ IsFiniteSet(DOMAIN pruned)
        /\ Cardinality(DOMAIN pruned) <= Cardinality(DOMAIN records \cup {own})
    BY <1>1, <2>3, FS_Subset
  <2>5. IsFiniteSet(ahead)
    BY <2>4, FS_Subset
  <2>6. /\ Cardinality(ahead) \in Nat /\ Cardinality(DOMAIN pruned) \in Nat
        /\ Cardinality(DOMAIN records \cup {own}) \in Nat
    BY <2>3, <2>4, <2>5, FS_CardinalityType
  <2>7. Ceiling \in Nat
    BY RecordsAssumption DEF Ceiling
  <2> HIDE DEF ahead
  <2> QED BY <2>2, <2>3, <2>4, <2>6, <2>7
<1> QED BY <1>2, <1>3

\* The eviction takes finished jobs first, so that a running job keeps its record
\* as long as those that are not known to be finished fit under the ceiling.
LEMMA RecordSubmissionKeepsRunning ==
  ASSUME NEW records, IsFiniteSet(DOMAIN records),
         NEW own, NEW record, NEW terminal, NEW processed, own \notin terminal,
         Cardinality((DOMAIN records \cup {own}) \ terminal) <= Ceiling,
         NEW j \in DOMAIN records, j \notin terminal
  PROVE  j \in DOMAIN RecordSubmission(records, own, record, terminal, processed)
<1> DEFINE with   == WithRecord(records, own, record)
           pruned == PruneSettled(with, own, terminal, processed)
           ids    == DOMAIN pruned
           ahead  == {k \in ids \ {own} : EvictedBefore(pruned, terminal, k, j)}
<1>1. CASE j = own
  BY <1>1, RecordSubmissionKeeps
<1>2. CASE j # own
  <2>1. /\ ids \subseteq DOMAIN records \cup {own}
        /\ j \in ids
    BY DEF WithRecord, PruneSettled, Settled, Restrict
  <2>2. RecordSubmission(records, own, record, terminal, processed)
          = EvictAboveCeiling(pruned, own, terminal)
    BY DEF RecordSubmission
  <2> HIDE DEF with, pruned
  <2>3. IsFiniteSet(DOMAIN records \cup {own})
    BY FS_AddElement
  <2> DEFINE all == (DOMAIN records \cup {own}) \ terminal
             done == ids \cap terminal
             open == ids \ terminal
  <2>4. /\ IsFiniteSet(ids) /\ IsFiniteSet(done) /\ IsFiniteSet(open)
        /\ IsFiniteSet(ahead) /\ IsFiniteSet(all)
    BY <2>1, <2>3, FS_Subset
  <2>5. done \subseteq ahead /\ open \subseteq all
    BY <2>1 DEF EvictedBefore
  <2> HIDE DEF all
  <2>6. Cardinality(done) <= Cardinality(ahead) /\ Cardinality(open) <= Cardinality(all)
    BY <2>4, <2>5, FS_Subset
  <2>7. ids = done \cup open /\ done \cap open = {}
    OBVIOUS
  <2> HIDE DEF done, open
  <2>8. Cardinality(ids) = Cardinality(done) + Cardinality(open)
    <3>1. Cardinality(done \cap open) = 0
      BY <2>7, FS_EmptySet
    <3> HIDE DEF ids
    <3>2. Cardinality(done \cup open)
            = Cardinality(done) + Cardinality(open) - Cardinality(done \cap open)
      BY <2>4, FS_Union
    <3>3. Cardinality(done) \in Nat /\ Cardinality(open) \in Nat
      BY <2>4, FS_CardinalityType
    <3> QED BY <2>7, <3>1, <3>2, <3>3
  <2>9. Cardinality(all) <= Ceiling
    BY DEF all
  <2>10. ~ (Cardinality(ahead) < Cardinality(ids) - Ceiling)
    <3>1. /\ Cardinality(done) \in Nat /\ Cardinality(open) \in Nat
          /\ Cardinality(ahead) \in Nat /\ Cardinality(all) \in Nat
          /\ Cardinality(ids) \in Nat
      BY <2>4, FS_CardinalityType
    <3>2. Ceiling \in Nat
      BY RecordsAssumption DEF Ceiling
    <3> HIDE DEF ids, ahead
    <3> QED BY <2>6, <2>8, <2>9, <3>1, <3>2
  <2> QED BY <1>2, <2>1, <2>2, <2>10 DEF EvictAboveCeiling, Restrict
<1> QED BY <1>1, <1>2
=============================================================================
