---------------------------- MODULE MCScheduling -----------------------------
(***************************************************************************)
(* The task queue and the algorithms over one process or rollout, each on   *)
(* its own: part says which of them a behaviour runs, and the others do not *)
(* move.                                                                    *)
(*   "queue":   two plans meet on target t1: p1 also locks a component      *)
(*              there, p2 runs on t2 as well.  Every request may name a     *)
(*              custom resource, which sorts before the target locks, and   *)
(*              the lock of t2, which sorts after t1's and which is a       *)
(*              duplicate of a default lock for p2;                         *)
(*   "tx":      the same plans, of one release bundle, statement by         *)
(*              statement in two sessions, with default locks only;         *)
(*   "graph":   all graphs over three steps, with dependencies on a step    *)
(*              that does not exist;                                        *)
(*   "ready":   all acyclic graphs over three step runs, with every         *)
(*              combination of status and location;                         *)
(*   "rolling": four targets under every mix of a window of one, two or     *)
(*              three, a cap on unavailable targets, and an absolute or a   *)
(*              percentage threshold with either action (40 percent of four *)
(*              targets is not a whole number); targets are skipped and     *)
(*              ends are reported once;                                     *)
(*   "late":    the same with ends that are corrected later, and with the   *)
(*              absolute threshold alone;                                   *)
(*   "blue":    two checks and two shifts, so that a check is replaced and  *)
(*              a second shift meets what the first one left behind.        *)
(***************************************************************************)
EXTENDS TaskTransactions, StepGraph, ReadySteps, FiniteSets, TLC

CONSTANTS p1, p2, t1, t2, c1, db, Parts

CONSTANTS
    RolloutSize,      \* number of targets of a rollout
    RolloutConfigs,   \* configurations of a rolling rollout
    RolloutWindows,   \* windows of a rollout, at most
    Check,            \* health checks and observations of a blue-green rollout
    MaxShifts         \* how often its traffic is shifted, at most

VARIABLES part, config, phase, currentWindow, state, window,
          lifecycle, activeSlot, inactiveSlot, previousActiveSlot, retentionPolicy,
          healthChecks, slotObservations, shifts, observed

MCPlanTargets == (p1 :> <<t1>>) @@ (p2 :> <<t1, t2>>)
MCPlanComponents == (p1 :> {<<t1, c1>>}) @@ (p2 :> {})
MCAdditionalResource == {<<"custom", db>>, <<"deployment_target", t2>>}
MCSortKey ==
    (<<"custom", db>> :> 0)
        @@ (<<"deployment_target", t1>> :> 1) @@ (<<"deployment_target", t2>> :> 2)
        @@ (<<"target_component", t1, c1>> :> 3) @@ (<<"target_component", t2, c1>> :> 4)
MCGuardKey ==   \* the keys start with the lengths of the types, as text
    (<<"target_component", t1, c1>> :> 0) @@ (<<"target_component", t2, c1>> :> 1)
        @@ (<<"deployment_target", t1>> :> 2) @@ (<<"deployment_target", t2>> :> 3)
        @@ (<<"custom", db>> :> 4)
MCBundleOf == [p \in Plan |-> "bundle"]
MCTxRequest ==
    [default : {"QUEUE", "CANCEL_OLDER", "REJECT_NEW"}, additional : [AdditionalResource -> {"NONE"}]]

MCSymmetry == Permutations(Connection)

MCConfigs ==
    [windowSize : 1..3, maximumUnavailable : {0, 1, 2}, maxFailedTargets : {0, 2},
     maxFailurePercentage : {0, 40, 100}, action : {"", "ABORT"}]

Once == INSTANCE RollingDeployment
          WITH N <- RolloutSize, Configs <- RolloutConfigs, Reports <- {"end", "skip"},
               MaxWindows <- RolloutWindows
Late == INSTANCE RollingDeployment
          WITH N <- RolloutSize, Configs <- RolloutConfigs, Reports <- {"end", "correct", "skip"},
               MaxWindows <- RolloutWindows
Blue == INSTANCE BlueGreen
          WITH phase <- lifecycle, observations <- slotObservations

ASSUME RolloutAssumption ==
    /\ RolloutSize \in Nat
    /\ RolloutConfigs # {} /\ \A c \in RolloutConfigs : Once!ValidConfig(c)

rollingVars == <<config, phase, currentWindow, state, window>>
blueVars == <<lifecycle, activeSlot, inactiveSlot, previousActiveSlot, retentionPolicy,
              healthChecks, slotObservations, shifts, observed>>
rolloutVars == <<rollingVars, blueVars>>
mcVars == <<part, txVars, graphVars, readyVars, rolloutVars>>

IdleGraph ==
    /\ deps = [k \in Key |-> {}] /\ roots = {} /\ stack = <<>>
    /\ todo = deps /\ visited = {} /\ verdict = "NONE"

IdleReady ==
    /\ dependencies = [c \in Candidates |-> {}]
    /\ run = [c \in Candidates |-> "SUCCEEDED"] /\ here = {}
    /\ next = 1 /\ progressed = FALSE /\ ready = <<>> /\ done = TRUE

IdleRolling ==
    /\ config = CHOOSE c \in RolloutConfigs : TRUE
    /\ phase = "PENDING" /\ currentWindow = 0
    /\ state = [t \in 1..RolloutSize |-> "PENDING"] /\ window = [t \in 1..RolloutSize |-> 0]

IdleBlue == Blue!Init /\ retentionPolicy = "KEEP"

IdleQueue == TxInit /\ planStatus = [p \in Plan |-> "READY"]

MCInit ==
    /\ part \in Parts
    /\ IF part = "queue" THEN TxInit ELSE IdleQueue
    /\ IF part = "graph" THEN GraphInit ELSE IdleGraph
    /\ IF part = "ready" THEN ReadyInit ELSE IdleReady
    /\ IF part \in {"rolling", "late"} THEN Late!Init ELSE IdleRolling
    /\ part = "late" => config.maxFailurePercentage = 0
    /\ IF part = "blue" THEN Blue!Init ELSE IdleBlue

MCNext ==
    /\ UNCHANGED part
    /\ \/ part = "queue" /\ QueueNext /\ UNCHANGED <<tx, graphVars, readyVars, rolloutVars>>
       \/ part = "tx" /\ TxNext /\ UNCHANGED <<graphVars, readyVars, rolloutVars>>
       \/ part = "graph" /\ GraphNext /\ UNCHANGED <<txVars, readyVars, rolloutVars>>
       \/ part = "ready" /\ ReadyNext /\ UNCHANGED <<txVars, graphVars, rolloutVars>>
       \/ part = "rolling" /\ Once!Next /\ UNCHANGED <<txVars, graphVars, readyVars, blueVars>>
       \/ part = "late" /\ Late!Next /\ UNCHANGED <<txVars, graphVars, readyVars, blueVars>>
       \/ part = "blue" /\ Blue!Next /\ UNCHANGED <<txVars, graphVars, readyVars, rollingVars>>

(***************************************************************************)
(* Statement by statement, both ends of a task are alike, and preflight     *)
(* evidence is explored for one plan.                                       *)
(***************************************************************************)
MCBound ==
    part = "tx" => preflight[p2] # "FAILED" /\ \A t \in Task : status[t] # "FAILED"

MCSpec == MCInit /\ [][MCNext]_mcVars

-----------------------------------------------------------------------------
(***************************************************************************)
(* The rollouts (see RollingDeployment and BlueGreen): the damage that the  *)
(* failure threshold lets through when every end is reported once; with     *)
(* late reports too, the limits on targets in progress, their order and the *)
(* absence of a dead end; and traffic that only a promotion moves.          *)
(***************************************************************************)
RolloutContained ==
    /\ [](/\ part = "rolling" => Once!FailuresContained
         /\ Late!AtMostOneWindowInProgress /\ Late!StartedInOrder /\ Late!CanAdvance)
    /\ Blue!OnlyPromotionMovesTraffic
=============================================================================
