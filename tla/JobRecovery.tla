---------------------------- MODULE JobRecovery ----------------------------
(***************************************************************************)
(* The recovery decision of src/core/job_recovery.py: what a run concludes *)
(* from the terminal outcomes it observed.  Records and outcomes are       *)
(* functions from job ids to records:                                      *)
(*   record   [failures, at, low]: the bucket's counter when the job was   *)
(*            submitted, when that was, the watermark it started from      *)
(*   outcome  one of the statuses below, as DescribeJob reports it         *)
(* A watermark_low of Epoch is the empty string of a first-ever job.       *)
(***************************************************************************)
EXTENDS Integers, FiniteSets

CONSTANT FailureThreshold   \* MaxBatchJobFailures, floored at 1 by run_interval

ASSUME RecoveryAssumption == FailureThreshold \in Nat \ {0}

\* A Complete job whose every task failed is told apart from one where some
\* task succeeded by its ProgressSummary.
TerminalStatus == {"Complete", "AllTasksFailed", "Failed", "Cancelled"}
EffectiveFailure(status) == status \in {"Failed", "Cancelled", "AllTasksFailed"}

NoRollback == -1

FailedIn(outcomes) == {j \in DOMAIN outcomes : EffectiveFailure(outcomes[j])}

\* The counter as the newest record holds it; records of one run share their
\* submission time and the largest of them counts.
SeedFailures(records) ==
    LET newest == {j \in DOMAIN records :
                     \A k \in DOMAIN records : records[k].at <= records[j].at}
    IN  IF newest = {} THEN 0
        ELSE CHOOSE n \in {records[j].failures : j \in newest} :
                 \A j \in newest : records[j].failures <= n

\* Mutant: a run without failures does not start the count over.
NeverResetFailures(records, outcomes) ==
    SeedFailures(records) + (IF FailedIn(outcomes) # {} THEN 1 ELSE 0)

\* One failing run adds one, however many jobs failed in it; a run that saw a
\* job finish and none fail starts over; a run that saw none finish learns nothing.
ConsolidatedFailures(records, outcomes) ==
    IF FailedIn(outcomes) # {} THEN SeedFailures(records) + 1
    ELSE IF DOMAIN outcomes # {} THEN 0
    ELSE SeedFailures(records)

\* The lowest start of a failed job; an empty one is skipped, since taking it
\* for the epoch would rescan the whole journal.
RollbackTarget(records, outcomes) ==
    LET lows == {records[j].low : j \in FailedIn(outcomes)} \ {0}
    IN  IF lows = {} THEN NoRollback
        ELSE CHOOSE w \in lows : \A x \in lows : w <= x

\* Mutant: the breaker trips one failure late.
PlanRecoveryLate(records, outcomes) ==
    LET n == ConsolidatedFailures(records, outcomes)
    IN  [failures |-> n,
         rollback |-> RollbackTarget(records, outcomes),
         disable  |-> n > FailureThreshold]

PlanRecovery(records, outcomes) ==
    LET n == ConsolidatedFailures(records, outcomes)
    IN  [failures |-> n,
         rollback |-> RollbackTarget(records, outcomes),
         disable  |-> n >= FailureThreshold]
=============================================================================
