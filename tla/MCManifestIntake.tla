-------------------------- MODULE MCManifestIntake --------------------------
(***************************************************************************)
(* A small journal for ManifestIntake.  Version 1 of key k is tagged       *)
(* twice (rows 1 and 4), version 2 of k once, with its row delivered twice *)
(* (2 and 3); the only version of l is tagged (5) and moves to an archive  *)
(* (6); a tag of m matches no rule that counts (7), and its last row has   *)
(* no tags (8).                                                            *)
(***************************************************************************)
EXTENDS ManifestIntake

CONSTANTS k, l, m, red, blue   \* keys and tags

Rows        == 1..8
Versions    == {<<k, 1>>, <<k, 2>>, <<l, 1>>, <<m, 1>>}
Keys        == {k, l, m}
TagNames    == {red, blue}
RowVersion  == <<<<k, 1>>, <<k, 2>>, <<k, 2>>, <<k, 1>>, <<l, 1>>, <<l, 1>>,
                 <<m, 1>>, <<m, 1>>>>
VersionKey  == [v \in Versions |-> v[1]]
RowTags     == <<{red}, {red}, {red}, {red, blue}, {red}, {red}, {blue}, {}>>
RowTimes    == <<1, 2, 2, 3, 3, 4, 5, 6>>
RowNumbers  == [o \in Rows |-> o]
ArchivedRow == {6}

\* One rule for red objects; one that is disabled, and one without tags.
ThreeRules == {[enabled |-> TRUE,  tags |-> {red},  keys |-> {k, l}],
               [enabled |-> FALSE, tags |-> {blue}, keys |-> Keys],
               [enabled |-> TRUE,  tags |-> {},     keys |-> Keys]}

OldVersion == {<<k, 1>>}
NoVersion  == {}
QueryFaults == {"bound", "read", "preflight", "deletes", "write", "service"}
=============================================================================
