------------------------------ MODULE RunChain ------------------------------
(***************************************************************************)
(* Who starts the runs of ManifestIntake, and how often: the scheduler,    *)
(* and a run that hit the row cap and submitted a job, which invokes its   *)
(* own function asynchronously one deeper (handler of src/lambda_handler.py*)
(* and src/core/reinvocation.py).  The function has one reserved           *)
(* execution, so the invocations of several chains wait for each other in  *)
(* any order, and an asynchronous one is not retried                       *)
(* (deploy/template.yaml:1690-1783).                                       *)
(***************************************************************************)
EXTENDS ManifestIntake

CONSTANTS ChainLimit,   \* ReinvocationChainLimit
          MaxTicks      \* bound: scheduled triggers

ASSUME RunChainAssumption == ChainLimit \in Nat /\ MaxTicks \in Nat

VARIABLES ticks,     \* the scheduled triggers so far
          waiting,   \* the invocations waiting for the execution
          current,   \* the invocation being executed, or none
          stage,     \* whether it is to run, to decide, or there is none
          outcome,   \* what its run reports, and what its run found
          started    \* how many runs each scheduled trigger has led to

cvars == <<journal, deleted, cp, manifests, run, pc, faults,
           ticks, waiting, current, stage, outcome, started>>

Triggers    == 1..MaxTicks
Invocation  == [origin: Triggers, depth: 0..ChainLimit]
NoInvocation == [origin |-> 0, depth |-> 0]

\* again: RunOutcome.any_capped_and_progressed; stopped: whether something went
\* wrong since the run began, or its chain was cut; before, seen: the checkpoint
\* and the rows there were when it bounded its read.
NoOutcome == [again |-> FALSE, stopped |-> FALSE,
              before |-> EmptyCheckpoint, seen |-> {}]

-----------------------------------------------------------------------------
Tick ==
    /\ ticks < MaxTicks
    /\ ticks' = ticks + 1
    /\ waiting' = waiting \cup {[origin |-> ticks', depth |-> 0]}
    /\ UNCHANGED <<current, stage, outcome, started>>
    /\ UNCHANGED ivars

StartExecution(i) ==
    /\ stage = "none"
    /\ waiting' = waiting \ {i}
    /\ current' = i
    /\ stage' = "run"
    /\ outcome' = NoOutcome
    /\ started' = [started EXCEPT ![i.origin] = @ + 1]
    /\ UNCHANGED ticks
    /\ UNCHANGED ivars

\* Mutant: a run is capped when it read more rows than the cap.
CappedByCount == Cardinality(run.rows) > RowCap

Capped == run.until # NoBound

\* Mutant: a run progresses whether it submitted or not.
ProgressedAlways == TRUE

\* A job was submitted and the checkpoint advanced.
Progressed == pc = "release" /\ run.submitted

\* One step of run_interval; the handler takes over when it returns.
RunInterval ==
    /\ stage = "run"
    /\ RunStep
    /\ outcome' = [again   |-> Capped /\ Progressed,
                   stopped |-> outcome.stopped \/ faults' # faults,
                   before  |-> IF pc = "idle" THEN cp ELSE outcome.before,
                   seen    |-> IF pc = "idle" THEN journal ELSE outcome.seen]
    /\ stage' = IF pc' = "idle" THEN "decide" ELSE "run"
    /\ UNCHANGED <<ticks, waiting, current, started>>

\* Mutant: the limit itself still goes one deeper.
ReinvokeAtLimit == outcome.again /\ current.depth <= ChainLimit

ShouldReinvoke == outcome.again /\ current.depth < ChainLimit

\* Mutant: the depth is passed on as it came.
SameDepth(i) == i

NextInvocation(i) == [i EXCEPT !.depth = @ + 1]

EndExecution(stopped) ==
    /\ current' = NoInvocation
    /\ stage' = "none"
    /\ outcome' = [outcome EXCEPT !.stopped = stopped]
    /\ UNCHANGED <<ticks, started>>
    /\ UNCHANGED <<journal, deleted, cp, manifests, run, pc>>

Reinvoke ==
    /\ stage = "decide"
    /\ ShouldReinvoke
    /\ waiting' = waiting \cup {NextInvocation(current)}
    /\ EndExecution(outcome.stopped)
    /\ NoFault

\* A failing invoke is logged and swallowed.
ReinvokeFails ==
    /\ stage = "decide"
    /\ ShouldReinvoke
    /\ Fault("invoke")
    /\ EndExecution(TRUE)
    /\ UNCHANGED waiting

Finish ==
    /\ stage = "decide"
    /\ ~ ShouldReinvoke
    /\ EndExecution(outcome.stopped \/ (outcome.again /\ current.depth >= ChainLimit))
    /\ NoFault
    /\ UNCHANGED waiting

-----------------------------------------------------------------------------
ChainInit ==
    /\ Init
    /\ ticks = 0
    /\ waiting = {}
    /\ current = NoInvocation
    /\ stage = "none"
    /\ outcome = NoOutcome
    /\ started = [t \in Triggers |-> 0]

ChainNext ==
    \/ Tick
    \/ \E i \in waiting : StartExecution(i)
    \/ RunInterval
    \/ Reinvoke
    \/ ReinvokeFails
    \/ Finish
    \/ Environment /\ UNCHANGED <<ticks, waiting, current, stage, outcome, started>>

ChainSpec == ChainInit /\ [][ChainNext]_cvars

-----------------------------------------------------------------------------
\* The types of the invocations and of what the handler remembers.
ChainTypeOK ==
    /\ ticks \in 0..MaxTicks
    /\ waiting \subseteq Invocation
    /\ current \in Invocation \cup {NoInvocation}
    /\ stage \in {"none", "run", "decide"}
    /\ outcome \in [again: BOOLEAN, stopped: BOOLEAN,
                   before: Checkpoints, seen: SUBSET Op]
    /\ started \in [Triggers -> Nat]

\* One scheduled trigger leads to at most 1 + ChainLimit runs, whatever the
\* backlog and however the invocations of several chains interleave
\* (the depth that handler passes on, and should_reinvoke).
ChainBounded == \A t \in Triggers : started[t] <= ChainLimit + 1

\* A run asks for another only when it moved the checkpoint that it started
\* from: a run that fails, or finds nothing, must not keep its chain going
\* (progressed of _BucketResult; should_reinvoke: "must never storm").
ChainEarned ==
    [][\A i \in waiting' \ waiting :
          i.depth > 0 => cp # outcome.before]_cvars

\* When nothing is waiting, a run that met no fault and was not cut by the limit
\* left no matching row behind that was there when it bounded its read: a capped
\* read is never the last one of its chain (result.capped, RowCountBoundary).
\* It is meant of keys with one version each, none of them archived or deleted:
\* a second version of a key waits for the next scheduled run by design.
DrainedUnlessStopped ==
    stage = "none" /\ waiting = {} /\ ~ outcome.stopped =>
        \A o \in ValidRows(outcome.seen) :
            Matches(o) => \E i \in DOMAIN manifests :
                              VersionOf[o] \in manifests[i].versions
=============================================================================
