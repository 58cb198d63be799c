----------------------------- MODULE ReadySteps -----------------------------
(***************************************************************************)
(* readyTaskLeaseStepCandidates (internal/db/task_leases.go): the sweeps    *)
(* over a task's step runs that pick the batch of a lease, one candidate at *)
(* a time.  Candidates are numbered in the order of the query,              *)
(* (sort_order, step_key), which need not agree with the dependencies.      *)
(***************************************************************************)
EXTENDS Naturals, Sequences, StepBatch

CONSTANT N   \* number of step runs of the task

Candidates == 1..N

ASSUME NAssumption == N \in Nat

RunStatus == {"PENDING", "RUNNING", "SUCCEEDED", "FAILED", "SKIPPED"}

VARIABLES
    dependencies, run, here,   \* input: per candidate, its dependencies and status,
                               \* and which are of the executor's location
    next,                      \* candidate the inner loop looks at
    progressed,                \* the current sweep has picked one
    ready,                     \* the result so far
    done

readyVars == <<dependencies, run, here, next, progressed, ready, done>>

Selected == {ready[i] : i \in 1..Len(ready)}
SatisfiedRuns == {c \in Candidates : run[c] \in {"SUCCEEDED", "SKIPPED"}}

(* A step run is SKIPPED exactly when the plan did not include its step.    *)
Eligible == {c \in here : run[c] = "PENDING"}

ReadyTypeOK ==
    /\ dependencies \in [Candidates -> SUBSET Candidates]
    /\ run \in [Candidates -> RunStatus]
    /\ here \subseteq Candidates
    /\ next \in 1..(N + 1)
    /\ progressed \in BOOLEAN
    /\ ready \in Seq(Candidates)
    /\ done \in BOOLEAN

(* The graph was validated when the process revision was created: see       *)
(* StepGraph.                                                               *)
ReadyInit ==
    /\ dependencies \in {d \in [Candidates -> SUBSET Candidates] : Acyclic(Candidates, d)}
    /\ run \in [Candidates -> RunStatus]
    /\ here \in SUBSET Candidates
    /\ next = 1
    /\ progressed = FALSE
    /\ ready = <<>>
    /\ done = FALSE

taskLeaseDependenciesSatisfied(c) == dependencies[c] \subseteq SatisfiedRuns \cup Selected

Pick(c) ==
    /\ next = c /\ c \in Eligible \ Selected
    /\ taskLeaseDependenciesSatisfied(c)
    /\ ready' = Append(ready, c)
    /\ progressed' = TRUE
    /\ next' = next + 1
    /\ UNCHANGED <<dependencies, run, here, done>>

Continue(c) ==
    /\ next = c
    /\ ~(c \in Eligible \ Selected /\ taskLeaseDependenciesSatisfied(c))
    /\ next' = next + 1
    /\ UNCHANGED <<dependencies, run, here, progressed, ready, done>>

(* The end of a sweep: another one if this one picked a candidate.          *)
EndSweep_OnlyOne ==
    /\ next = N + 1 /\ ~done
    /\ done' = TRUE
    /\ UNCHANGED <<dependencies, run, here, next, progressed, ready>>
EndSweep_NoReset ==
    /\ next = N + 1 /\ ~done
    /\ IF progressed THEN next' = 1 /\ UNCHANGED <<progressed, done>>
                     ELSE done' = TRUE /\ UNCHANGED <<next, progressed>>
    /\ UNCHANGED <<dependencies, run, here, ready>>
EndSweep ==
    /\ next = N + 1 /\ ~done
    /\ IF progressed THEN next' = 1 /\ progressed' = FALSE /\ UNCHANGED done
                     ELSE done' = TRUE /\ UNCHANGED <<next, progressed>>
    /\ UNCHANGED <<dependencies, run, here, ready>>

ReadyNext == (\E c \in Candidates : Pick(c) \/ Continue(c)) \/ EndSweep

ReadySpec == ReadyInit /\ [][ReadyNext]_readyVars

FairReadySpec == ReadySpec /\ WF_readyVars(ReadyNext)

-----------------------------------------------------------------------------
(***************************************************************************)
(* The sweeps compute the batch: on return the result holds every pending   *)
(* step of the location whose dependencies are done or in the batch as      *)
(* well, however far apart the sort order puts them.                        *)
(***************************************************************************)
ReturnsBatch == done => Selected = Batch(Eligible, SatisfiedRuns, dependencies)

(***************************************************************************)
(* An executor that runs the batch in the order it was returned never       *)
(* starts a step before its dependencies: each is done already or earlier   *)
(* in the batch.                                                            *)
(***************************************************************************)
BatchInDependencyOrder ==
    \A i \in 1..Len(ready) : \A d \in dependencies[ready[i]] :
        d \in SatisfiedRuns \/ \E j \in 1..(i - 1) : ready[j] = d

(***************************************************************************)
(* No step is handed out twice, and only pending steps of the location are: *)
(* a step that is still running elsewhere in the task is not.               *)
(***************************************************************************)
BatchOfDistinctPendingSteps ==
    /\ \A i, j \in 1..Len(ready) : ready[i] = ready[j] => i = j
    /\ \A i \in 1..Len(ready) : run[ready[i]] = "PENDING" /\ ready[i] \in here

(***************************************************************************)
(* The outer loop ends.                                                     *)
(***************************************************************************)
SweepsEnd == <>done
=============================================================================
