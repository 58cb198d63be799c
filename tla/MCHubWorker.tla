----------------------------- MODULE MCHubWorker -----------------------------
(***************************************************************************)
(* Small instances around the hub worker; Parts says what a run is about.   *)
(*   "hub":   one plan for one target, a callback-mode webhook w1 for       *)
(*            component c1, and perhaps before it a target step sa and a    *)
(*            response-mode webhook r1;                                     *)
(*   "sweep": the sweeps of ReadySteps over N step runs;                    *)
(*   "job":   the OCI job with the attempts Proc.                           *)
(***************************************************************************)
EXTENDS HubWorker, ReadySteps, TLC

CONSTANTS p1, t1, c1, sa, r1, w1, Parts, Proc, NoProc

VARIABLES part, dir, stale, mutex, lax, creating, ctr, label, code, mount, ran, staged, pc, ok, adopted,
          cancelled

Job == INSTANCE OciJob WITH HasSecrets <- TRUE

MCPlanTargets == (p1 :> <<t1>>)
MCPlanComponents == (p1 :> {<<t1, c1>>})
MCSortKey == (<<"deployment_target", t1>> :> 1) @@ (<<"target_component", t1, c1>> :> 2)
MCPlanSteps == (p1 :> Step)
MCPlanWebhooks == (p1 :> {w1})
MCLocation == [s \in Step |-> IF s = sa THEN "target" ELSE "hub"]
MCDependencies == [s \in Step |->
    IF s = w1 THEN Step \ {w1} ELSE IF s = r1 THEN Step \ {r1, w1} ELSE {}]
MCTaskRequest == {[default |-> "", additional |-> <<>>]}
MCWebhookComponent == (w1 :> c1)

jobVars == <<dir, stale, mutex, lax, creating, ctr, label, code, mount, ran, staged, pc, ok, adopted, cancelled>>
mcVars == <<part, hubVars, readyVars, jobVars>>

IdleReady ==
    /\ dependencies = [c \in Candidates |-> {}]
    /\ run = [c \in Candidates |-> "SUCCEEDED"] /\ here = {}
    /\ next = 1 /\ progressed = FALSE /\ ready = <<>> /\ done = TRUE

IdleJob ==
    /\ dir = "absent" /\ stale = FALSE /\ mutex = NoProc
    /\ lax = FALSE /\ creating = NoProc /\ ctr = "absent" /\ label = "ours" /\ code = TRUE /\ mount = NoProc /\ ran = 0
    /\ staged = {} /\ ok = {} /\ adopted = {} /\ cancelled = {}
    /\ pc = [p \in Proc |-> "dead"]

MCInit ==
    /\ part \in Parts
    /\ HubInit
    /\ IF part = "sweep" THEN ReadyInit ELSE IdleReady
    /\ IF part = "job" THEN Job!JobInit ELSE IdleJob

MCNext ==
    /\ UNCHANGED part
    /\ \/ part = "hub" /\ HubNext /\ UNCHANGED <<readyVars, jobVars>>
       \/ part = "sweep" /\ ReadyNext /\ UNCHANGED <<hubVars, jobVars>>
       \/ part = "job" /\ Job!JobNext /\ UNCHANGED <<hubVars, readyVars>>

MCSafety == MCInit /\ [][MCNext]_mcVars

(***************************************************************************)
(* The fairness of HubWorker and of the sweeps; a live attempt at the job   *)
(* goes on, the job ends, and the owner file of a dead owner ages.          *)
(***************************************************************************)
MCSpec ==
    /\ MCSafety
    /\ \A t \in Task, a \in Attempt : WF_hubVars(part = "hub" /\ SessionStep(t, a))
    /\ \A e \in Execution :
          WF_hubVars(part = "hub" /\ DeadlinePasses(e) /\ UNCHANGED <<leaseVars, workerVars>>)
    /\ WF_readyVars(part = "sweep" /\ ReadyNext)
    /\ \A p \in Proc : WF_jobVars(part = "job" /\ Job!Work(p))
    /\ WF_jobVars(part = "job" /\ Job!JobExits)
    /\ WF_jobVars(part = "job" /\ Job!OwnerAges /\ pc[dir] \in Job!AttemptEnded)

-----------------------------------------------------------------------------
(***************************************************************************)
(* Every attempt at the OCI job comes to an end: a reservation that a crash *)
(* left behind is taken over, and nobody waits for ever for the mutation    *)
(* lock.                                                                    *)
(***************************************************************************)
EveryAttemptEnds == \A p \in Proc : <>(pc[p] \in Job!AttemptEnded)
=============================================================================
