----------------------------- MODULE TagIntake -----------------------------
(***************************************************************************)
(* What the runs of a bucket promise its owner, without checkpoints,       *)
(* leases or records: tagging operations become visible, batches of those  *)
(* that should replicate are handed to jobs, and an operation is handed    *)
(* over again only after a failure: of the job that had it last, or of one *)
(* that came after that one.                                               *)
(***************************************************************************)
EXTENDS Naturals, Sequences

CONSTANTS Op,        \* the tagging operations
          Matching   \* those that should replicate

VARIABLES visible,   \* the operations the journal shows
          batches    \* what was handed over, in order: [ops, status]

ivars == <<visible, batches>>

Batch == [ops: SUBSET Op, status: {"Active", "Complete", "Failed"}]

\* Nothing has failed since the operation was last handed over.
InHand(o) == \E i \in DOMAIN batches :
                /\ o \in batches[i].ops
                /\ \A k \in DOMAIN batches : k >= i => batches[k].status # "Failed"

Appear(o) ==
    /\ o \notin visible
    /\ visible' = visible \cup {o}
    /\ UNCHANGED batches

HandOver(ops) ==
    /\ ops # {}
    /\ ops \subseteq visible \cap Matching
    /\ \A o \in ops : ~ InHand(o)
    /\ batches' = Append(batches, [ops |-> ops, status |-> "Active"])
    /\ UNCHANGED visible

End(i, status) ==
    /\ batches[i].status = "Active"
    /\ batches' = [batches EXCEPT ![i].status = status]
    /\ UNCHANGED visible

Init == visible = {} /\ batches = <<>>

Next ==
    \/ \E o \in Op : Appear(o)
    \/ \E ops \in SUBSET Op : HandOver(ops)
    \/ \E i \in DOMAIN batches, status \in {"Complete", "Failed"} : End(i, status)

Spec == Init /\ [][Next]_ivars
=============================================================================
