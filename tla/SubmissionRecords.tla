------------------------- MODULE SubmissionRecords -------------------------
(***************************************************************************)
(* The submission_records map of the state object and what one             *)
(* record_submission does to it (src/adapters/state_store.py): add the new *)
(* job's record, prune the records of settled jobs, evict above a ceiling. *)
(* The map is a function from the job ids it holds to records with at      *)
(* least the fields "at" (submitted_at) and "diagnosed".                   *)
(***************************************************************************)
EXTENDS Integers, FiniteSets, Functions

CONSTANTS MaxConcurrent,    \* MaxConcurrentJobsPerBucket
          RecordHeadroom,   \* SUBMISSION_RECORD_CEILING_HEADROOM
          TrackingOn        \* whether the stack has a completion-report topic

ASSUME RecordsAssumption ==
    /\ MaxConcurrent \in Nat \ {0}
    /\ RecordHeadroom \in Nat
    /\ TrackingOn \in BOOLEAN

Ceiling == MaxConcurrent + RecordHeadroom

\* Mutant: a finished job is settled, its report read or not.
SettledWhenTerminal(records, j, terminal, processed) == j \in terminal

\* Terminal and diagnosed is not enough while completion tracking is on: the
\* record stays until its report is merged, or the checker could not miss it.
Settled(records, j, terminal, processed) ==
    /\ j \in terminal
    /\ records[j].diagnosed
    /\ TrackingOn => j \in processed

PruneSettled(records, own, terminal, processed) ==
    Restrict(records, {j \in DOMAIN records :
                         \/ j = own
                         \/ ~ Settled(records, j, terminal, processed)})

\* Finished jobs go before running ones, the oldest first; ids break a tie as
\* the map's insertion order does.
EvictedBefore(records, terminal, j, k) ==
    \/ j \in terminal /\ k \notin terminal
    \/ /\ (j \in terminal) = (k \in terminal)
       /\ \/ records[j].at < records[k].at
          \/ records[j].at = records[k].at /\ j < k

EvictAboveCeiling(records, own, terminal) ==
    LET evictable == DOMAIN records \ {own}
        surplus   == Cardinality(DOMAIN records) - Ceiling
        Ahead(j)  == {k \in evictable : EvictedBefore(records, terminal, k, j)}
        evicted   == {j \in evictable : Cardinality(Ahead(j)) < surplus}
    IN  Restrict(records, DOMAIN records \ evicted)

WithRecord(records, own, record) ==
    [j \in DOMAIN records \cup {own} |-> IF j = own THEN record ELSE records[j]]

RecordSubmission(records, own, record, terminal, processed) ==
    EvictAboveCeiling(
        PruneSettled(WithRecord(records, own, record), own, terminal, processed),
        own, terminal)
=============================================================================
