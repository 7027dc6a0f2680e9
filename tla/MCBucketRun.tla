---------------------------- MODULE MCBucketRun ----------------------------
(***************************************************************************)
(* Small instances of BucketRun for TLC: the operations are numbered, and  *)
(* the number of an operation orders it within its timestamp.              *)
(***************************************************************************)
EXTENDS BucketRun

\* Timestamps of up to four operations.  Steady: one row for each instant.
\* Shared: the second and the third row share their instant.
Steady == [o \in Op |-> o]
Shared == [o \in Op |-> IF o <= 2 THEN o ELSE o - 1]

Three == 1..3
Four  == 1..4
TwoAndThree == {2, 3}

\* What may fail around a run that is alive and whose PUTs land.
Transient == {"describe", "report", "count", "read", "build", "service", "jobFails"}
=============================================================================
