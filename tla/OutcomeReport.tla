--------------------------- MODULE OutcomeReport ---------------------------
(***************************************************************************)
(* What completion tracking promises the readers of a bucket's reports,    *)
(* without runs, records, scans or messages: the outcomes of a job become  *)
(* known once and together; an outcome that is known waits to be told, and *)
(* gives way only to a newer outcome of its object.                        *)
(***************************************************************************)
EXTENDS Naturals

CONSTANTS Object,   \* the object versions
          Job       \* the jobs, numbered in the order of their creation

VARIABLES learned,  \* the jobs whose outcomes became known
          untold,   \* the outcomes that wait, as [object, job]
          told      \* those that were reported

rvars == <<learned, untold, told>>

Newer(o, j, outcomes) == \E u \in outcomes : u.object = o /\ u.job > j

\* The outcomes of j are known: they replace older ones that wait.  An object
\* may be outdated, and must be when a newer outcome of it waits: that one
\* stays, and of j's it is never told.
Learn(j, objects, outdated) ==
    /\ j \notin learned
    /\ learned' = learned \cup {j}
    /\ \A o \in objects : Newer(o, j, untold) => o \in outdated
    /\ \A o \in outdated : Newer(o, j, untold \cup told)
    /\ untold' = {u \in untold : u.object \notin objects \ outdated}
                   \cup {[object |-> o, job |-> j] : o \in objects \ outdated}
    /\ UNCHANGED told

Tell(outcomes) ==
    /\ outcomes # {}
    /\ outcomes \subseteq untold
    /\ untold' = untold \ outcomes
    /\ told' = told \cup outcomes
    /\ UNCHANGED learned

Init == learned = {} /\ untold = {} /\ told = {}

Next ==
    \/ \E j \in Job, objects \in SUBSET Object, outdated \in SUBSET Object :
           Learn(j, objects, outdated)
    \/ \E outcomes \in SUBSET untold : Tell(outcomes)

Spec == Init /\ [][Next]_rvars
=============================================================================
