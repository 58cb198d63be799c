------------------------------ MODULE Runbooks -------------------------------
(***************************************************************************)
(* Runbooks: revisions that are written and then published as snapshots     *)
(* (internal/db/runbooks.go, internal/runbooks, api/runbook.go).            *)
(*                                                                          *)
(* Every operation on a runbook that exists locks its row first, so that    *)
(* operations are atomic.  A step is [key, order, action, valid, deps,      *)
(* refs, permissions], as in Processes; permissions is a sequence, in which *)
(* the code rejects blanks and trims the rest.                              *)
(***************************************************************************)
EXTENDS Naturals, Sequences

CONSTANTS
    Application, Nil,
    StepSets,        \* steps that requests may bring
    Registry,        \* action types
    MaxRevisions

VARIABLES
    runbook,      \* the runbook: [app], or Nil
    revisions,    \* its revisions, by number
    snapshots,    \* published revisions, by number: [app, steps]
    git           \* whether Git has authority over it

vars == <<runbook, revisions, snapshots, git>>

Init == runbook = Nil /\ revisions = <<>> /\ snapshots = [n \in {} |-> Nil] /\ git = FALSE

KeysOf(steps) == {x.key : x \in steps}

normalizeRunbookStringList(values) == \A i \in DOMAIN values : values[i] # ""

(* What a condition refers to is a dependency too, here on both layers.      *)
validateRunbookStepGraph(steps) ==
    /\ \A x \in steps : x.refs # Nil /\ x.key \notin x.deps
    /\ \A x \in steps : x.deps \cup x.refs \subseteq KeysOf(steps)
    /\ ~\E S \in (SUBSET steps) \ {{}} : \A x \in S : (x.deps \cup x.refs) \cap KeysOf(S) # {}

ValidateRunbookSteps(steps) == \A x \in steps : x.action \in Registry /\ x.valid

normalizeRunbookRevision(steps) ==
    /\ steps # {}
    /\ \A x, y \in steps : (x.key = y.key \/ x.order = y.order) => x = y
    /\ \A x \in steps : normalizeRunbookStringList(x.permissions)
    /\ ValidateRunbookSteps(steps) /\ validateRunbookStepGraph(steps)

runbookHasRevisions == revisions # <<>>
nextRunbookRevisionNumber == Len(revisions) + 1

CreateRunbook(a) ==
    /\ runbook = Nil /\ runbook' = [app |-> a]
    /\ UNCHANGED <<revisions, snapshots, git>>

UpdateRunbook(a) ==
    /\ runbook # Nil /\ ~git
    /\ runbook.app # a => ~runbookHasRevisions
    /\ runbook' = [runbook EXCEPT !.app = a]
    /\ UNCHANGED <<revisions, snapshots, git>>

(* Revisions and steps go with the runbook; snapshots keep it.               *)
DeleteRunbookWithID ==
    /\ runbook # Nil /\ ~git /\ DOMAIN snapshots = {}
    /\ runbook' = Nil /\ revisions' = <<>>
    /\ UNCHANGED <<snapshots, git>>

insertRunbookSteps(steps) == revisions' = Append(revisions, steps)
CreateRunbookRevision(steps) ==
    /\ normalizeRunbookRevision(steps)
    /\ runbook # Nil /\ ~git
    /\ nextRunbookRevisionNumber <= MaxRevisions
    /\ insertRunbookSteps(steps)
    /\ UNCHANGED <<runbook, snapshots, git>>

(* The payload lists the steps in their order.                               *)
Canonicalize(app, steps) ==
    [app |-> app,
     steps |-> [o \in {x.order : x \in steps} |-> CHOOSE x \in steps : x.order = o]]
DecodeRevision(payload) == {payload.steps[o] : o \in DOMAIN payload.steps}

(* Whoever publishes a revision again gets the first snapshot.               *)
getRunbookSnapshotByRevision(n) == n \in DOMAIN snapshots
PublishRunbookRevision(n) ==
    /\ runbook # Nil /\ ~git /\ n \in DOMAIN revisions
    /\ ~getRunbookSnapshotByRevision(n)
    /\ snapshots' = [m \in DOMAIN snapshots \cup {n} |->
                       IF m = n THEN Canonicalize(runbook.app, revisions[n]) ELSE snapshots[m]]
    /\ UNCHANGED <<runbook, revisions, git>>

UpsertConfigAsCodeAuthority(g) ==
    /\ runbook # Nil /\ git' = g
    /\ UNCHANGED <<runbook, revisions, snapshots>>

Next ==
    \/ \E a \in Application : CreateRunbook(a) \/ UpdateRunbook(a)
    \/ DeleteRunbookWithID
    \/ \E steps \in StepSets : CreateRunbookRevision(steps)
    \/ \E n \in DOMAIN revisions : PublishRunbookRevision(n)
    \/ \E g \in BOOLEAN : UpsertConfigAsCodeAuthority(g)

Spec == Init /\ [][Next]_vars

-----------------------------------------------------------------------------
(***************************************************************************)
(* What is published is the revision with its number, for the runbook's     *)
(* application, and the steps of every revision can be run in some order:   *)
(* dependencies and conditions together have no cycle.                      *)
(***************************************************************************)
RunbooksSound ==
    /\ \A n \in DOMAIN snapshots : /\ DecodeRevision(snapshots[n]) = revisions[n]
                                   /\ snapshots[n].app = runbook.app
    /\ \A n \in DOMAIN revisions :
          ~\E S \in (SUBSET revisions[n]) \ {{}} :
              \A x \in S : (x.deps \cup x.refs) \cap KeysOf(S) # {}
=============================================================================
