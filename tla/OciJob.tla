------------------------------- MODULE OciJob -------------------------------
(***************************************************************************)
(* The one-shot OCI job of the Docker agent                                 *)
(* (cmd/agent/docker/oci_job_action.go).                                    *)
(*                                                                          *)
(* Every attempt at a step, by an agent process that may be suspended or    *)
(* die, works on the one container whose name is derived from the           *)
(* idempotency key.  A reservation (a directory with an owner file that the *)
(* owner touches) decides whose turn it is, a mutation lock (flock) covers  *)
(* every Docker command and the removal of a stale reservation, and the     *)
(* container itself remembers that the job ran.  Secret files are staged    *)
(* per attempt and mounted into the container.                              *)
(*                                                                          *)
(* A fresh docker run is judged by the exit code of the docker CLI, which   *)
(* is 125, 126 or 127 when the daemon fails or the command cannot be        *)
(* started; expectedExitCodes may list these.  The daemon may still create  *)
(* a container when the CLI that asked for it is gone; a container that it  *)
(* is starting is inspected only when that has ended, and the CLI does not  *)
(* outlive the agent.                                                       *)
(***************************************************************************)
EXTENDS Naturals, FiniteSets

CONSTANTS
    Proc,       \* attempts at the step; each has its own owner token
    NoProc,
    HasSecrets  \* the input has a secretEnvironment

(* Owner tokens are random: none is the name of a reservation state or the  *)
(* "nobody" of the mutation lock, nor stands for another operation.         *)
ASSUME NamesDistinct ==
    NoProc \notin Proc \cup {"other"} /\ Proc \cap {"absent", "unowned", "other"} = {}

VARIABLES
    dir,        \* the reservation: "absent", "unowned" or the owner
    stale,      \* the owner file was not touched for longer than staleAfter
    mutex,      \* holder of the mutation lock
    lax,        \* expectedExitCodes lists a code of the docker CLI itself
    creating,   \* whose container the daemon is creating under the name
    ctr,        \* the container: "absent", "created", "running", "exited"
    label,      \* whose operation its labels name: "ours" or "other"
    code,       \* its exit code is one of expectedExitCodes
    mount,      \* the attempt whose secret file is mounted
    ran,        \* how often the job was started
    staged,     \* attempts whose secret file exists
    pc,         \* where each attempt is
    ok,         \* attempts that saw an expected code
    adopted,    \* attempts that went on with an existing container
    cancelled   \* attempts whose context is done

lockVars == <<dir, stale, mutex>>
ctrVars == <<lax, creating, ctr, label, code, mount, ran>>
jobVars == <<lockVars, ctrVars, staged, pc, ok, adopted, cancelled>>

InDocker == {"running", "waiting"}
AttemptEnded == {"succeeded", "failed", "dead"}
Control == {"begin", "acquire", "reclaim", "rename", "publish", "inspect", "remove",
         "sweep", "stage", "staged", "run", "conflict", "start", "wait", "stop", "verify",
         "cleanOwn", "ownMount", "cleanMount"} \cup InDocker \cup AttemptEnded

JobTypeOK ==
    /\ dir \in {"absent", "unowned"} \cup Proc
    /\ stale \in BOOLEAN
    /\ mutex \in Proc \cup {NoProc}
    /\ lax \in BOOLEAN
    /\ creating \in Proc \cup {NoProc, "other"}
    /\ ctr \in {"absent", "created", "running", "exited"}
    /\ label \in {"ours", "other"}
    /\ code \in BOOLEAN
    /\ mount \in Proc \cup {NoProc}
    /\ ran \in Nat
    /\ staged \subseteq Proc
    /\ pc \in [Proc -> Control]
    /\ ok \subseteq Proc /\ adopted \subseteq Proc /\ cancelled \subseteq Proc

(***************************************************************************)
(* Initially there is no container, or another operation that uses the same *)
(* idempotency key has left one, or died while the daemon was creating it.  *)
(***************************************************************************)
JobInit ==
    /\ dir = "absent" /\ stale = FALSE /\ mutex = NoProc
    /\ \/ ctr = "absent" /\ label = "ours" /\ creating \in {NoProc, "other"}
       \/ ctr = "exited" /\ label = "other" /\ creating = NoProc
    /\ lax \in BOOLEAN
    /\ code = TRUE /\ mount = NoProc /\ ran = 0
    /\ staged = {} /\ ok = {} /\ adopted = {} /\ cancelled = {}
    /\ pc = [p \in Proc |-> "begin"]

AttemptAt(p, step) == pc' = [pc EXCEPT ![p] = step]

(***************************************************************************)
(* Returning from runOCIJob releases the reservation: the owner file goes,  *)
(* the directory stays.  An attempt that lost it removes nothing.           *)
(***************************************************************************)
AttemptReturns(p, step) ==
    /\ AttemptAt(p, step)
    /\ dir' = IF dir = p THEN "unowned" ELSE dir
    /\ UNCHANGED <<stale, mutex>>

(***************************************************************************)
(* A failure after the secret file is staged, if any, goes through the      *)
(* deferred clean-up.                                                       *)
(***************************************************************************)
Fails(p) == AttemptAt(p, "cleanOwn") /\ ok' = ok \ {p} /\ UNCHANGED lockVars

(***************************************************************************)
(* decodeOCIJobActionInput and ociJobOperationIdentityFromStep: an input    *)
(* outside the agent's policy fails before anything is touched.             *)
(***************************************************************************)
Decode(p) ==
    /\ pc[p] = "begin"
    /\ \E step \in {"acquire", "failed"} : AttemptAt(p, step)
    /\ UNCHANGED <<lockVars, ctrVars, staged, ok, adopted, cancelled>>

-----------------------------------------------------------------------------
(***************************************************************************)
(* The reservation.                                                         *)
(***************************************************************************)
NeedsRecovery_Fault == dir = "absent"
NeedsRecovery == dir \in {"absent", "unowned"} \/ stale

Stat(p) ==
    /\ pc[p] = "acquire"
    /\ \/ dir = "absent" /\ AttemptAt(p, "publish")
       \/ dir # "absent" /\ NeedsRecovery /\ AttemptAt(p, "reclaim")
       \/ dir # "absent" /\ p \in cancelled /\ AttemptAt(p, "failed")
    /\ UNCHANGED <<lockVars, ctrVars, staged, ok, adopted, cancelled>>

(***************************************************************************)
(* recoverStaleOCIJobContainerLock, once it has the mutation lock: the      *)
(* second look, and the rename that takes whatever is there by then.        *)
(***************************************************************************)
Recheck(p) ==
    /\ pc[p] = "reclaim"
    /\ \/ /\ mutex = NoProc /\ NeedsRecovery
          /\ mutex' = p /\ AttemptAt(p, "rename")
       \/ /\ mutex = NoProc /\ ~NeedsRecovery
          /\ mutex' = mutex /\ AttemptAt(p, "acquire")
       \/ /\ p \in cancelled
          /\ mutex' = mutex /\ AttemptAt(p, "failed")
    /\ UNCHANGED <<dir, stale, ctrVars, staged, ok, adopted, cancelled>>

RenameStale(p) ==
    /\ pc[p] = "rename"
    /\ dir' = "absent" /\ stale' = FALSE /\ mutex' = NoProc
    /\ AttemptAt(p, "acquire")
    /\ UNCHANGED <<ctrVars, staged, ok, adopted, cancelled>>

tryPublishOCIJobContainerLock(p) ==
    /\ pc[p] = "publish"
    /\ IF dir = "absent"
       THEN dir' = p /\ stale' = FALSE /\ AttemptAt(p, "inspect")
       ELSE AttemptAt(p, "acquire") /\ UNCHANGED <<dir, stale>>
    /\ UNCHANGED <<mutex, ctrVars, staged, ok, adopted, cancelled>>

(***************************************************************************)
(* The owner file ages while its owner is suspended or dead; the heartbeat  *)
(* of a live owner touches it.                                              *)
(***************************************************************************)
OwnerAges ==
    /\ dir \in Proc /\ ~stale
    /\ stale' = TRUE
    /\ UNCHANGED <<dir, mutex, ctrVars, staged, pc, ok, adopted, cancelled>>

OwnerHeartbeat(p) ==
    /\ dir = p /\ stale /\ pc[p] \notin AttemptEnded
    /\ stale' = FALSE
    /\ UNCHANGED <<dir, mutex, ctrVars, staged, pc, ok, adopted, cancelled>>

-----------------------------------------------------------------------------
(***************************************************************************)
(* runDockerCommandBoundedOwned: the mutation lock, then ensureOwned.  A    *)
(* command is one step when it is short; docker run and docker wait keep    *)
(* the lock while the job runs.                                             *)
(***************************************************************************)
Command(p, step) == pc[p] = step /\ mutex = NoProc /\ dir = p

(***************************************************************************)
(* A command that is refused because the reservation is lost or the context *)
(* done, or in which the daemon fails.  Only docker run and the commands on *)
(* a started container go on to stop it, and only when the context is done. *)
(***************************************************************************)
CommandFails(p) ==
    /\ \/ pc[p] \in {"inspect", "remove", "conflict", "start", "wait"}
       \/ pc[p] = "run" /\ (dir # p \/ p \in cancelled)
    /\ CASE p \in cancelled /\ pc[p] \in {"run", "start", "wait"} ->
              AttemptAt(p, "stop") /\ UNCHANGED <<lockVars, ok>>
         [] pc[p] \in {"inspect", "remove"} -> AttemptReturns(p, "failed") /\ UNCHANGED ok
         [] OTHER -> Fails(p)
    /\ UNCHANGED <<ctrVars, staged, adopted, cancelled>>

SecretMissing == HasSecrets /\ mount \notin staged

Adopt(p, next) ==
    /\ adopted' = adopted \cup {p}
    /\ ok' = IF next = "ownMount" /\ code THEN ok \cup {p} ELSE ok
    /\ AttemptAt(p, next)
    /\ UNCHANGED lockVars

NoContainer(p) ==
    /\ ctr = "absent"
    /\ AttemptAt(p, IF HasSecrets THEN "sweep" ELSE "run")
    /\ UNCHANGED <<lockVars, adopted, ok>>

(***************************************************************************)
(* The container as docker inspect shows it decides the rest:               *)
(* validateOCIJobContainerIdentity, shouldRecreateOCIJobContainer and the   *)
(* switch of finishExistingOCIJobContainer.                                 *)
(***************************************************************************)
NextFor(state) ==
    CASE state = "created" -> "start" [] state = "running" -> "wait"
      [] state = "exited" -> "ownMount"

Inspect_Rerun(p) ==
    /\ Command(p, "inspect")
    /\ \/ NoContainer(p)
       \/ ctr # "absent" /\ label = "ours" /\ Adopt(p, IF ctr = "running" THEN "wait" ELSE "start")
    /\ UNCHANGED <<ctrVars, staged, cancelled>>
Inspect(p) ==
    /\ Command(p, "inspect")
    /\ \/ NoContainer(p)
       \/ /\ ctr # "absent" /\ label = "other"
          /\ AttemptReturns(p, "failed") /\ UNCHANGED <<adopted, ok>>
       \/ /\ ctr = "created" /\ label = "ours" /\ SecretMissing
          /\ AttemptAt(p, "remove") /\ UNCHANGED <<lockVars, adopted, ok>>
       \/ /\ ctr # "absent" /\ label = "ours" /\ ~(ctr = "created" /\ SecretMissing)
          /\ Adopt(p, NextFor(ctr))
    /\ UNCHANGED <<ctrVars, staged, cancelled>>

removeOCIJobContainer(p) ==
    /\ Command(p, "remove")
    /\ ctr' = "absent" /\ mount' = NoProc
    /\ AttemptAt(p, "sweep")
    /\ UNCHANGED <<lockVars, lax, creating, label, code, ran, staged, ok, adopted, cancelled>>

(***************************************************************************)
(* Secret files left by earlier attempts go, the mounted one excepted; each *)
(* removal follows an ensureOwned, and without an inspection nothing is     *)
(* removed.  runOCIJob's own ensureOwned comes first and fails the attempt. *)
(***************************************************************************)
cleanupOCIJobSecretStagingDir(p) ==
    /\ pc[p] = "sweep"
    /\ IF dir = p
       THEN /\ staged' \in {staged, staged \cap {mount}}
            /\ AttemptAt(p, "stage") /\ UNCHANGED lockVars
       ELSE AttemptReturns(p, "failed") /\ staged' = staged
    /\ UNCHANGED <<ctrVars, ok, adopted, cancelled>>

writeOCIJobSecretEnvFile(p) ==
    /\ pc[p] = "stage"
    /\ \/ staged' = staged \cup {p} /\ AttemptAt(p, "staged") /\ UNCHANGED lockVars
       \/ staged' = staged /\ AttemptReturns(p, "failed")
    /\ UNCHANGED <<ctrVars, ok, adopted, cancelled>>

(***************************************************************************)
(* ensureOwned after staging: its error returns before the deferred clean-  *)
(* up of the staged file is in place.                                       *)
(***************************************************************************)
OwnedAfterStaging(p) ==
    /\ pc[p] = "staged"
    /\ IF dir = p THEN AttemptAt(p, "run") /\ UNCHANGED lockVars ELSE AttemptReturns(p, "failed")
    /\ UNCHANGED <<ctrVars, staged, ok, adopted, cancelled>>

-----------------------------------------------------------------------------
(***************************************************************************)
(* docker run: the daemon reserves the name, creates the container and      *)
(* starts it, and the CLI returns when it has exited, when the daemon       *)
(* fails, or when the context kills it.  A name that is taken is a conflict *)
(* that the CLI reports at once.                                            *)
(***************************************************************************)
NameIsFree == ctr = "absent" /\ creating = NoProc

RunBegins(p) ==
    /\ Command(p, "run")
    /\ \/ /\ NameIsFree
          /\ creating' = p /\ mutex' = p /\ AttemptAt(p, "running")
       \/ /\ ~NameIsFree
          /\ AttemptAt(p, "conflict") /\ UNCHANGED <<creating, mutex>>
    /\ UNCHANGED <<dir, stale, lax, ctr, label, code, mount, ran, staged, ok, adopted, cancelled>>

(* The daemon's part, whoever still waits for it.                           *)
DaemonCreates ==
    /\ creating # NoProc
    /\ creating' = NoProc
    /\ \/ /\ ctr' = "created"
          /\ label' = IF creating \in Proc THEN "ours" ELSE "other"
          /\ mount' = IF HasSecrets /\ creating \in Proc THEN creating ELSE NoProc
       \/ UNCHANGED <<ctr, label, mount>>
    /\ UNCHANGED <<lockVars, lax, code, ran, staged, pc, ok, adopted, cancelled>>

RunStart(p) ==
    /\ pc[p] = "running" /\ ctr = "created"
    /\ ctr' = "running" /\ ran' = ran + 1
    /\ UNCHANGED <<lockVars, lax, creating, label, code, mount, staged, pc, ok, adopted, cancelled>>

(***************************************************************************)
(* The verdict on a fresh run: the CLI's code is that of the container      *)
(* after its exit, or one of the CLI's own, whatever became of the          *)
(* container.                                                               *)
(***************************************************************************)
Judged(p, exited) ==
    IF p \in cancelled THEN AttemptAt(p, "stop") /\ ok' = ok
    ELSE /\ AttemptAt(p, "cleanOwn")
         /\ \/ ((exited /\ code) \/ lax) /\ ok' = ok \cup {p}
            \/ ok' = ok

RunReturns(p) ==
    /\ pc[p] = "running"
    /\ mutex' = NoProc /\ Judged(p, ctr = "exited")
    /\ UNCHANGED <<dir, stale, ctrVars, staged, adopted, cancelled>>

(***************************************************************************)
(* The conflict: the container that has the name is inspected and, when it  *)
(* is of this operation, taken over.  While the daemon is still creating it *)
(* there is none, and the failed docker run is judged.                      *)
(***************************************************************************)
InspectConflict(p) ==
    /\ Command(p, "conflict")
    /\ \/ ctr = "absent" /\ Judged(p, FALSE) /\ UNCHANGED <<lockVars, adopted>>
       \/ ctr # "absent" /\ label = "other" /\ Fails(p) /\ UNCHANGED adopted
       \/ ctr # "absent" /\ label = "ours" /\ Adopt(p, NextFor(ctr))
    /\ UNCHANGED <<ctrVars, staged, cancelled>>

startExistingOCIJobContainer(p) ==
    /\ Command(p, "start")
    /\ ctr' = "running" /\ ran' = ran + 1 /\ AttemptAt(p, "wait")
    /\ UNCHANGED <<lockVars, lax, creating, label, code, mount, staged, ok, adopted, cancelled>>

WaitBegins(p) ==
    /\ Command(p, "wait")
    /\ mutex' = p /\ AttemptAt(p, "waiting")
    /\ UNCHANGED <<dir, stale, ctrVars, staged, ok, adopted, cancelled>>

waitOCIJobContainer(p) ==
    /\ pc[p] = "waiting"
    /\ \/ /\ p \in cancelled
          /\ AttemptAt(p, "stop") /\ ok' = ok
       \/ /\ p \notin cancelled /\ ctr = "exited"
          /\ AttemptAt(p, "ownMount") /\ ok' = IF code THEN ok \cup {p} ELSE ok
       \/ /\ p \notin cancelled      \* the daemon fails
          /\ AttemptAt(p, "cleanOwn") /\ ok' = ok
    /\ mutex' = NoProc
    /\ UNCHANGED <<dir, stale, ctrVars, staged, adopted, cancelled>>

JobExits ==
    /\ ctr = "running"
    /\ ctr' = "exited" /\ code' \in BOOLEAN
    /\ UNCHANGED <<lockVars, lax, creating, label, mount, ran, staged, pc, ok, adopted, cancelled>>

(***************************************************************************)
(* stopOCIJobContainer: docker stop, docker kill when it fails, then a look *)
(* whether the container is really down.  Its contexts are its own; after   *)
(* an error a fresh run keeps its staged secrets.                           *)
(***************************************************************************)
StopFails(p) ==
    IF p \in adopted THEN Fails(p) ELSE AttemptReturns(p, "failed") /\ UNCHANGED ok

stopOCIJobContainer(p) ==
    /\ \/ /\ Command(p, "stop") /\ ctr # "absent"
          /\ IF ctr = "running"
             THEN ctr' = "exited" /\ code' \in BOOLEAN
             ELSE UNCHANGED <<ctr, code>>
          /\ AttemptAt(p, "verify") /\ UNCHANGED <<lockVars, ok>>
       \/ /\ pc[p] = "stop"      \* the daemon fails, or there is nothing to stop
          /\ StopFails(p) /\ UNCHANGED <<ctr, code>>
    /\ UNCHANGED <<lax, creating, label, mount, ran, staged, adopted, cancelled>>

verifyOCIJobContainerStopped(p) ==
    /\ \/ /\ Command(p, "verify") /\ ctr # "running"
          /\ AttemptAt(p, IF p \in adopted THEN "ownMount" ELSE "cleanOwn")
          /\ UNCHANGED <<lockVars, ok>>
       \/ pc[p] = "verify" /\ StopFails(p)
    /\ UNCHANGED <<ctrVars, staged, adopted, cancelled>>

(***************************************************************************)
(* When an existing container was taken over, the mounted file is removed   *)
(* after an ensureOwned; then comes the deferred clean-up of the file that  *)
(* the attempt itself has staged, if it has.                                *)
(***************************************************************************)
Verdict(p) == IF p \in ok THEN "succeeded" ELSE "failed"

CleanOwn(p) ==
    /\ pc[p] = "cleanOwn"
    /\ staged' = staged \ {p}
    /\ AttemptReturns(p, Verdict(p))
    /\ UNCHANGED <<ctrVars, ok, adopted, cancelled>>

OwnedBeforeCleanup(p) ==
    /\ pc[p] = "ownMount"
    /\ IF dir = p THEN AttemptAt(p, "cleanMount") /\ UNCHANGED <<lockVars, ok>> ELSE Fails(p)
    /\ UNCHANGED <<ctrVars, staged, adopted, cancelled>>

cleanupOCIJobSecretMountSource(p) ==
    /\ pc[p] = "cleanMount"
    /\ staged' = staged \ {mount}
    /\ AttemptAt(p, "cleanOwn")
    /\ UNCHANGED <<lockVars, ctrVars, ok, adopted, cancelled>>

-----------------------------------------------------------------------------
(***************************************************************************)
(* A timeout or a failed lease heartbeat ends the context, which is looked  *)
(* at in these places: one that ends elsewhere has ended at the next.  A    *)
(* crash takes the process, its docker CLI and its flock, and nothing else. *)
(***************************************************************************)
ContextEnds(p) ==
    /\ pc[p] \in {"acquire", "reclaim", "run", "conflict", "start", "wait"} \cup InDocker
    /\ p \notin cancelled
    /\ cancelled' = cancelled \cup {p}
    /\ UNCHANGED <<lockVars, ctrVars, staged, pc, ok, adopted>>

AttemptDies(p) ==
    /\ pc[p] \notin AttemptEnded \cup {"begin"}
    /\ AttemptAt(p, "dead")
    /\ mutex' = IF mutex = p THEN NoProc ELSE mutex
    /\ UNCHANGED <<dir, stale, ctrVars, staged, ok, adopted, cancelled>>

Work(p) ==
    \/ Decode(p) \/ Stat(p) \/ Recheck(p) \/ RenameStale(p)
    \/ tryPublishOCIJobContainerLock(p)
    \/ Inspect(p) \/ CommandFails(p) \/ removeOCIJobContainer(p)
    \/ cleanupOCIJobSecretStagingDir(p) \/ writeOCIJobSecretEnvFile(p) \/ OwnedAfterStaging(p)
    \/ RunBegins(p) \/ RunStart(p) \/ RunReturns(p) \/ InspectConflict(p)
    \/ startExistingOCIJobContainer(p) \/ WaitBegins(p) \/ waitOCIJobContainer(p)
    \/ stopOCIJobContainer(p) \/ verifyOCIJobContainerStopped(p)
    \/ CleanOwn(p) \/ OwnedBeforeCleanup(p) \/ cleanupOCIJobSecretMountSource(p)

JobNext ==
    \/ \E p \in Proc : Work(p) \/ OwnerHeartbeat(p) \/ ContextEnds(p) \/ AttemptDies(p)
    \/ OwnerAges
    \/ DaemonCreates \/ JobExits

JobSpec == JobInit /\ [][JobNext]_jobVars

-----------------------------------------------------------------------------
(***************************************************************************)
(* While docker run or docker wait is under way, the attempt that issued it *)
(* is the owner: no other attempt can have taken the container over in the  *)
(* middle of a command (the fence of runDockerCommandBoundedOwned).         *)
(***************************************************************************)
CommandsByOwner ==
    \A p \in Proc : pc[p] \in InDocker => dir = p /\ mutex = p

(***************************************************************************)
(* However attempts crash, time out and take over from each other, the job  *)
(* is started at most once (docs/adr/0026: at-most-once execution for the   *)
(* same idempotency key).                                                   *)
(***************************************************************************)
RunsAtMostOnce == ran <= 1

(***************************************************************************)
(* A successful attempt means that the job really ran and that its          *)
(* container exited with an expected code; a container that was found is    *)
(* not taken for a finished one when it was only created (docs/adr/0026:    *)
(* "restart/reclaim does not falsely mark an unexecuted job successful").   *)
(* The exception is a fresh run when expectedExitCodes lists a code of the  *)
(* docker CLI: that it could not run the job is then a success, too.        *)
(***************************************************************************)
SuccessMeansExecuted ==
    \A p \in Proc : pc[p] = "succeeded" =>
        \/ label = "ours" /\ ran = 1 /\ ctr = "exited" /\ code
        \/ lax /\ p \notin adopted

(***************************************************************************)
(* A container that another operation left under the same name, or that the *)
(* daemon makes for it belatedly, is neither started nor removed, nor taken *)
(* over as this job.                                                        *)
(***************************************************************************)
OtherOperationRespected ==
    label = "other" => ctr \in {"created", "exited"} /\ ran = 0 /\ adopted = {}

(***************************************************************************)
(* What the reservation, the fence and the container's memory are for: one  *)
(* execution per idempotency key, by the owner, truthfully reported, and    *)
(* never in the place of another operation.                                 *)
(***************************************************************************)
JobRunsOnce ==
    RunsAtMostOnce /\ CommandsByOwner /\ SuccessMeansExecuted /\ OtherOperationRespected

(***************************************************************************)
(* A live attempt whose owner file is fresh keeps the reservation until it  *)
(* gives it back (docs/fork/PR-026: concurrent attempts adopt one execution *)
(* "instead of racing into false failures").                                *)
(***************************************************************************)
FreshReservationKept ==
    [][\A p \in Proc : dir = p /\ ~stale /\ pc[p] \notin AttemptEnded /\ dir' # p
                        => pc'[p] \in AttemptEnded]_jobVars

(***************************************************************************)
(* The secret file of an attempt that returned is there only while a        *)
(* container mounts it (docs/adr/0026: "removed after command completion"). *)
(***************************************************************************)
SecretsRemoved ==
    \A p \in staged : pc[p] \in {"succeeded", "failed"} => mount = p /\ ctr # "absent"

(***************************************************************************)
(* The job never starts without its secrets.                                *)
(***************************************************************************)
SecretsAtStart ==
    [][ctr = "created" /\ ctr' = "running" /\ HasSecrets => mount \in staged]_jobVars
=============================================================================
