----------------------------- MODULE BlueGreen -----------------------------
(***************************************************************************)
(* The blue-green lifecycle of internal/deployments/bluegreen: two slots,  *)
(* health checks before the traffic is shifted, observations after it,     *)
(* then promotion or rollback.  One action per method of Lifecycle; a call *)
(* that returns an error changes nothing.  The package has no caller yet,  *)
(* so every order of calls is admitted.                                    *)
(*                                                                         *)
(* A slot is its name and its state; the identifiers it carries go where   *)
(* the name goes.  Checks are kept by name (upsertHealthCheck compares     *)
(* names without case), so a function from names to the last status.       *)
(***************************************************************************)
EXTENDS Naturals

CONSTANTS Check,         \* names of health checks and observations
          MaxShifts      \* how often the traffic is shifted, at most

SlotName == {"blue", "green", ""}
SlotState == {"ACTIVE", "INACTIVE", "DEPLOYING", "READY", "SHIFTING", "RETAINED",
              "SCALED_DOWN", "DESTROYED", "ROLLED_BACK", ""}
Phase == {"CREATE", "DEPLOY", "VERIFY", "SHIFT", "OBSERVE", "ROLLBACK", "COMPLETED"}
RetentionPolicy == {"KEEP", "SCALE_DOWN", "DESTROY"}
Slot == [name : SlotName, state : SlotState]
noSlot == [name |-> "", state |-> ""]
HealthStatus == {"PENDING", "PASSED", "FAILED"}
none == "NONE"    \* no check of that name was recorded
Checks == [Check -> HealthStatus \cup {none}]
noChecks == [c \in Check |-> none]

VARIABLES phase, activeSlot, inactiveSlot, previousActiveSlot, retentionPolicy,
          healthChecks, observations,
          shifts,      \* how often MarkTrafficShifted succeeded
          observed     \* the observations recorded since the last shift

vars == <<phase, activeSlot, inactiveSlot, previousActiveSlot, retentionPolicy,
          healthChecks, observations, shifts, observed>>

Init ==
  /\ phase = "CREATE"
  /\ activeSlot = [name |-> "blue", state |-> "ACTIVE"]
  /\ inactiveSlot = [name |-> "green", state |-> "INACTIVE"]
  /\ previousActiveSlot = noSlot
  /\ retentionPolicy \in RetentionPolicy
  /\ healthChecks = noChecks
  /\ observations = noChecks
  /\ shifts = 0
  /\ observed = {}

-----------------------------------------------------------------------------
allChecksPassed(checks) ==
  /\ checks # noChecks
  /\ \A c \in Check : checks[c] \in {"PASSED", none}

StartDeployInactive ==
  /\ phase = "CREATE"
  /\ phase' = "DEPLOY"
  /\ inactiveSlot' = [inactiveSlot EXCEPT !.state = "DEPLOYING"]
  /\ UNCHANGED <<activeSlot, previousActiveSlot, retentionPolicy, healthChecks, observations,
                 shifts, observed>>

MarkInactiveDeployed ==
  /\ phase = "DEPLOY"
  /\ phase' = "VERIFY"
  /\ inactiveSlot' = [inactiveSlot EXCEPT !.state = "READY"]
  /\ UNCHANGED <<activeSlot, previousActiveSlot, retentionPolicy, healthChecks, observations,
                 shifts, observed>>

RecordHealthCheck(c, status) ==
  /\ phase = "VERIFY"
  /\ healthChecks' = [healthChecks EXCEPT ![c] = status]
  /\ UNCHANGED <<phase, activeSlot, inactiveSlot, previousActiveSlot, retentionPolicy,
                 observations, shifts, observed>>

\* The phase is not looked at: a shift can be planned whenever the health checks
\* that were recorded passed.
PlanTrafficShift ==
  /\ allChecksPassed(healthChecks)
  /\ shifts < MaxShifts
  /\ previousActiveSlot' = activeSlot
  /\ phase' = "SHIFT"
  /\ inactiveSlot' = [inactiveSlot EXCEPT !.state = "SHIFTING"]
  /\ UNCHANGED <<activeSlot, retentionPolicy, healthChecks, observations, shifts, observed>>

MarkTrafficShifted ==
  /\ phase = "SHIFT"
  /\ phase' = "OBSERVE"
  /\ shifts' = shifts + 1
  /\ observed' = {}
  /\ UNCHANGED <<activeSlot, inactiveSlot, previousActiveSlot, retentionPolicy, healthChecks,
                 observations>>

RecordObservation(c, status) ==
  /\ phase = "OBSERVE"
  /\ observations' = [observations EXCEPT ![c] = status]
  /\ observed' = observed \cup {c}
  /\ UNCHANGED <<phase, activeSlot, inactiveSlot, previousActiveSlot, retentionPolicy,
                 healthChecks, shifts>>

retainedSlotState ==
  CASE retentionPolicy = "SCALE_DOWN" -> "SCALED_DOWN"
    [] retentionPolicy = "DESTROY" -> "DESTROYED"
    [] OTHER -> "RETAINED"

Promote ==
  /\ phase = "OBSERVE"
  /\ allChecksPassed(observations)
  /\ phase' = "COMPLETED"
  /\ previousActiveSlot' = [activeSlot EXCEPT !.state = retainedSlotState]
  /\ activeSlot' = [inactiveSlot EXCEPT !.state = "ACTIVE"]
  /\ inactiveSlot' = noSlot
  /\ UNCHANGED <<retentionPolicy, healthChecks, observations, shifts, observed>>

PlanRollback ==
  /\ phase \in {"SHIFT", "OBSERVE"}
  /\ phase' = "ROLLBACK"
  /\ LET kept == IF previousActiveSlot.name # "" THEN previousActiveSlot ELSE activeSlot
     IN activeSlot' = [kept EXCEPT !.state = "ACTIVE"]
  /\ inactiveSlot' = [inactiveSlot EXCEPT !.state = "ROLLED_BACK"]
  /\ UNCHANGED <<previousActiveSlot, retentionPolicy, healthChecks, observations, shifts, observed>>

Next ==
  \/ StartDeployInactive
  \/ MarkInactiveDeployed
  \/ \E c \in Check, status \in HealthStatus :
        RecordHealthCheck(c, status) \/ RecordObservation(c, status)
  \/ PlanTrafficShift
  \/ MarkTrafficShifted
  \/ Promote
  \/ PlanRollback

Spec == Init /\ [][Next]_vars

-----------------------------------------------------------------------------
BlueGreenTypeOK ==
  /\ phase \in Phase
  /\ {activeSlot, inactiveSlot, previousActiveSlot} \subseteq Slot
  /\ retentionPolicy \in RetentionPolicy
  /\ healthChecks \in Checks /\ observations \in Checks
  /\ shifts \in 0..MaxShifts
  /\ observed \subseteq Check

\* From the first shift on, the health checks that allowed it still stand: no
\* call may replace a passed check once traffic depends on it (RecordHealthCheck).
ShiftRestsOnPassedChecks ==
  phase \in {"SHIFT", "OBSERVE", "ROLLBACK", "COMPLETED"} => allChecksPassed(healthChecks)

\* The two slots are never the same deployment, over any number of shifts,
\* rollbacks and promotions (Promote empties the slot it promotes).
SlotsDistinct == activeSlot.name = inactiveSlot.name => activeSlot.name = ""

\* A rollback, whenever it is planned and however often, leaves traffic on the
\* slot that served before the shift: only a promotion changes the active slot
\* (PlanTrafficShift remembers the slot, PlanRollback restores it).
OnlyPromotionMovesTraffic ==
  [][activeSlot'.name # activeSlot.name =>
       /\ phase = "OBSERVE" /\ phase' = "COMPLETED"
       /\ activeSlot'.name = inactiveSlot.name]_vars

\* docs/fork/PR-043_BLUE_GREEN_STRATEGY.md: the inactive slot moves through deploy
\* and verify phases before a traffic shift can be planned.
ShiftsOnlyAVerifiedSlot ==
  [][phase' = "SHIFT" /\ phase # "SHIFT" => phase = "VERIFY" /\ inactiveSlot.state = "READY"]_vars

\* docs/fork/PR-043_BLUE_GREEN_STRATEGY.md: after traffic has shifted, observation
\* checks must pass before promotion.
PromotedOnFreshObservations == [][phase' = "COMPLETED" /\ phase # "COMPLETED" => observed # {}]_vars
=============================================================================
