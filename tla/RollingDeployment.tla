------------------------- MODULE RollingDeployment -------------------------
(***************************************************************************)
(* The rolling strategy of internal/deployments/rolling.go: the targets of *)
(* a rollout are started window by window, and every report about a target *)
(* recomputes the phase of the rollout.                                    *)
(*                                                                         *)
(* NewRollingState sorts the targets by sort order and plan target; the    *)
(* model numbers them in that order, so target i comes before i + 1.  The  *)
(* configuration never changes after the creation.                         *)
(*                                                                         *)
(* The package is a library whose callers are not written yet.  Reports    *)
(* says which calls of TransitionTarget they make: "end" ends a started    *)
(* target, "correct" gives a target that has ended another end (a late or  *)
(* repeated report), "skip" gives up a waiting target, "any" is every call *)
(* that the function accepts.  MaxWindows bounds the windows; N are enough *)
(* unless "any" makes targets wait again.                                  *)
(***************************************************************************)
EXTENDS Naturals, FiniteSets

CONSTANTS N,            \* number of targets
          Configs,      \* configurations that NewRollingState may be given
          Reports,      \* the kinds of report that callers make
          MaxWindows
Targets == 1..N

Terminal == {"SUCCEEDED", "FAILED", "SKIPPED"}
TargetState == {"PENDING", "IN_PROGRESS"} \cup Terminal
Stopped == {"PAUSED", "ABORTED"}
Phase == {"PENDING", "IN_PROGRESS", "COMPLETED"} \cup Stopped

\* RollingConfig.Validate: zero in a limit means that there is none.
ValidConfig(c) ==
  /\ c.windowSize \in Nat \ {0}
  /\ c.maximumUnavailable \in Nat
  /\ c.maxFailedTargets \in Nat
  /\ c.maxFailurePercentage \in 0..100
  /\ c.action \in {"", "PAUSE", "ABORT"}

VARIABLES config, phase, currentWindow,
          state,    \* state of each target
          window    \* WindowNumber of each target, 0 before it is started

vars == <<config, phase, currentWindow, state, window>>

\* NewRollingState resets whatever state the given targets carried.
Init ==
  /\ config \in Configs
  /\ phase = "PENDING"
  /\ currentWindow = 0
  /\ state = [t \in Targets |-> "PENDING"]
  /\ window = [t \in Targets |-> 0]

-----------------------------------------------------------------------------

effectiveWindowSize ==
  IF config.maximumUnavailable > 0 /\ config.maximumUnavailable < config.windowSize
    THEN config.maximumUnavailable
    ELSE config.windowSize

currentWindowTerminal(st) ==
  currentWindow = 0 \/ \A t \in Targets : window[t] = currentWindow => st[t] \in Terminal

pendingTargets == {t \in Targets : state[t] = "PENDING"}

failed(st) == Cardinality({t \in Targets : st[t] = "FAILED"})

failureThresholdPhase_Fault(st) ==
  \/ config.maxFailedTargets > 0 /\ failed(st) > config.maxFailedTargets
  \/ /\ config.maxFailurePercentage > 0
     /\ failed(st) * 100 > config.maxFailurePercentage * N

failureThresholdPhase(st) ==
  \/ config.maxFailedTargets > 0 /\ failed(st) >= config.maxFailedTargets
  \/ /\ config.maxFailurePercentage > 0
     /\ failed(st) * 100 >= config.maxFailurePercentage * N

\* An action that is not given is PAUSE.
thresholdAction == IF config.action = "ABORT" THEN "ABORTED" ELSE "PAUSED"

AllTerminal(st) == \A t \in Targets : st[t] \in Terminal

\* The threshold is looked at before the end of the rollout.
updatePhase(st) ==
  CASE failureThresholdPhase(st) -> thresholdAction
    [] ~failureThresholdPhase(st) /\ AllTerminal(st) -> "COMPLETED"
    [] OTHER -> IF currentWindowTerminal(st) THEN "PENDING" ELSE "IN_PROGRESS"

\* The first k targets of S, or all of them when there are fewer.
FirstOf(S, k) == {t \in S : Cardinality({u \in S : u < t}) < k}

MayStart == phase \notin Stopped \cup {"COMPLETED"} /\ currentWindowTerminal(state)

StartNextWindow ==
  /\ MayStart /\ pendingTargets # {}
  /\ currentWindow < MaxWindows
  /\ LET started == FirstOf(pendingTargets, effectiveWindowSize) IN
       /\ state' = [t \in Targets |-> IF t \in started THEN "IN_PROGRESS" ELSE state[t]]
       /\ window' = [t \in Targets |-> IF t \in started THEN currentWindow + 1 ELSE window[t]]
  /\ currentWindow' = currentWindow + 1
  /\ phase' = "IN_PROGRESS"
  /\ UNCHANGED config

\* StartNextWindow when no target waits.
CompleteRollout ==
  /\ MayStart /\ pendingTargets = {}
  /\ phase' = "COMPLETED"
  /\ UNCHANGED <<config, currentWindow, state, window>>

MayReport(t, s) ==
  \/ "end" \in Reports /\ state[t] = "IN_PROGRESS" /\ s \in Terminal
  \/ "correct" \in Reports /\ state[t] \in Terminal /\ s \in Terminal
  \/ "skip" \in Reports /\ state[t] = "PENDING" /\ s = "SKIPPED"
  \/ "any" \in Reports

TransitionTarget(t, s) ==
  /\ MayReport(t, s)
  /\ state' = [state EXCEPT ![t] = s]
  /\ phase' = updatePhase(state')
  /\ UNCHANGED <<config, currentWindow, window>>

Next ==
  \/ StartNextWindow
  \/ CompleteRollout
  \/ \E t \in Targets, s \in TargetState : TransitionTarget(t, s)

Spec == Init /\ [][Next]_vars

-----------------------------------------------------------------------------
RollingTypeOK ==
  /\ config \in Configs
  /\ phase \in Phase
  /\ currentWindow \in Nat
  /\ state \in [Targets -> TargetState]
  /\ window \in [Targets -> Nat]

\* At no time are more targets out of service than one window allows, across
\* windows, late reports and skipped targets (effectiveWindowSize).
AtMostOneWindowInProgress ==
  LET busy == Cardinality({t \in Targets : state[t] = "IN_PROGRESS"}) IN
  /\ busy <= config.windowSize
  /\ config.maximumUnavailable > 0 => busy <= config.maximumUnavailable

\* Targets are started in their order: a target that was started has no earlier
\* target that still waits (the sort of NewRollingState and StartNextWindow).
StartedInOrder ==
  \A t, u \in Targets : t < u /\ window[u] > 0 => state[t] # "PENDING"

\* The rollout is paused or aborted exactly while the failures reach the
\* threshold, whatever is reported: a correction that takes the failures below it
\* resumes the rollout (updatePhase).
StoppedExactlyAtThreshold ==
  phase \in Stopped <=>
    \/ config.maxFailedTargets > 0 /\ failed(state) >= config.maxFailedTargets
    \/ config.maxFailurePercentage > 0 /\ failed(state) * 100 >= config.maxFailurePercentage * N

\* A rollout that has not ended can go on: some target is still being worked on,
\* or the next call of StartNextWindow does something.
CanAdvance ==
  phase \in {"PENDING", "IN_PROGRESS"} =>
    (\E t \in Targets : state[t] = "IN_PROGRESS") \/ currentWindowTerminal(state)

\* The threshold contains the damage: when ends are reported once, the failures
\* that reach it come from the window in which it was reached, so at most one
\* window fails beyond the last failure that was tolerated.
FailuresContained ==
  config.maxFailedTargets > 0 =>
    failed(state) <= config.maxFailedTargets - 1 + config.windowSize

\* docs/fork/PR-041_ROLLING_DEPLOYMENT_STRATEGY.md: when all targets are
\* terminal, the phase becomes COMPLETED.
CompletedWhenAllTerminal == AllTerminal(state) => phase = "COMPLETED"
=============================================================================
