------------------------ MODULE MCCompletionTracking ------------------------
(***************************************************************************)
(* Small instances of CompletionTracking for TLC.                          *)
(***************************************************************************)
EXTENDS CompletionTracking

CONSTANTS a, b   \* object versions

\* One operation for each instant; the third tags the first one's object again.
Steady == [o \in Op |-> o]
Two   == 1..2
Three == 1..3
First == {1}
TwoObjects   == {a, b}
Again == [o \in Op |-> IF o = 2 THEN b ELSE a]

\* Everything but the loss of a scan, which WholeWave needs.
StoredScans == FaultKinds \ {"scan"}
=============================================================================
