-------------------------- MODULE Platform_proofs --------------------------
(***************************************************************************)
(* The platform keeps its promises for any number of deployments, releases, *)
(* clients, tags and manifests: the records of the Docker agent tell the    *)
(* truth, the Kubernetes agent neither undoes what others have done to a    *)
(* release nor reports as healthy what does not run, the registry is whole  *)
(* (by Registry_proofs), and the API answers what is true and lets nobody   *)
(* change what is not theirs, for every table of routes that is written as  *)
(* RoutesWritten says.                                                      *)
(***************************************************************************)
EXTENDS MCPlatform, FiniteSetTheorems, TLAPS

-----------------------------------------------------------------------------
(* The Docker agent.  While a deployment is applied its record does not say *)
(* ready, unless the write that should have said so failed.                 *)

DockerTypes ==
    /\ desired \in [Deployment -> Revision \cup {NoRevision}]
    /\ want \in [Deployment -> Revision \cup {NoRevision}]
    /\ record \in [Deployment \cup TaskRecord -> [state : {"none", "torn", "ready", "failed", "progressing"},
                                                  rev : Revision \cup {NoRevision}]]
    /\ running \in [Deployment \cup TaskRecord -> Revision \cup {NoRevision, "mixed", "partial", "task"}]
    /\ pc \in {"poll", "cleanup", "deploy", "apply", "applied", "failed"}
    /\ todo \subseteq Deployment
Applying ==
    pc \in {"apply", "applied", "failed"} =>
        /\ cur \in Deployment
        /\ record[cur].state # "ready" \/ cur \in unsaved
        /\ pc = "applied" => running[cur] = want[cur]
ReadyRuns ==
    \A d \in Deployment : record[d].state = "ready" /\ d \notin unsaved => running[d] \in {record[d].rev, "partial", NoRevision}
DockerInv == DockerTypes /\ Applying /\ ReadyRuns /\ Docker!TaskDeploymentsKept

LEMMA DockerInit == ASSUME Docker!Init PROVE DockerInv
BY RecordsApart DEF Docker!Init, Docker!Record, Docker!NoRecord, DockerInv, DockerTypes, Applying, ReadyRuns,
   Docker!TaskDeploymentsKept

(* Writing the record of a deployment that is not to be trusted yet, or     *)
(* that runs what is written.                                               *)
LEMMA DockerSaves ==
    ASSUME DockerTypes, NEW d \in Deployment, NEW s \in {"progressing", "ready", "failed"},
           Docker!SaveDeployment(d, s)
    PROVE  /\ record' \in [Deployment \cup TaskRecord -> [state : {"none", "torn", "ready", "failed", "progressing"},
                                                          rev : Revision \cup {NoRevision}]]
           /\ \A o \in Deployment \cup TaskRecord : o # d =>
                 record'[o] = record[o] /\ (o \in unsaved' <=> o \in unsaved)
           /\ \/ record'[d] = record[d] /\ (d \in unsaved' <=> d \in unsaved \/ s = "progressing")
              \/ record'[d].state = "torn" /\ d \notin unsaved'
              \/ record'[d] = [state |-> s, rev |-> want[d]] /\ d \notin unsaved'
<1>1. PICK r \in {record[d], Docker!Torn, [state |-> s, rev |-> want[d]]} :
          /\ record' = [record EXCEPT ![d] = r]
          /\ unsaved' = IF s = "progressing" /\ r = record[d] THEN unsaved \cup {d}
                        ELSE IF r # record[d] THEN unsaved \ {d} ELSE unsaved
    BY DEF Docker!SaveDeployment
<1>2. r \in [state : {"none", "torn", "ready", "failed", "progressing"}, rev : Revision \cup {NoRevision}]
    BY <1>1 DEF DockerTypes, Docker!Torn
<1>3. /\ record' \in [Deployment \cup TaskRecord -> [state : {"none", "torn", "ready", "failed", "progressing"},
                                                     rev : Revision \cup {NoRevision}]]
      /\ \A o \in Deployment \cup TaskRecord : record'[o] = IF o = d THEN r ELSE record[o]
    BY <1>1, <1>2 DEF DockerTypes
<1>4. Docker!Torn.state = "torn"
    BY DEF Docker!Torn
<1> QED BY <1>1, <1>3, <1>4

LEMMA DockerNext == ASSUME DockerInv, Docker!Next PROVE DockerInv'
<1> USE DEF DockerInv, Docker!Record
<1>1. ASSUME NEW d \in Deployment, NEW r \in Revision \cup {NoRevision}, Docker!SetResource(d, r) PROVE DockerInv'
    BY <1>1 DEF Docker!SetResource, DockerTypes, Applying, ReadyRuns, Docker!TaskDeploymentsKept
<1>2. CASE Docker!Poll
    BY <1>2 DEF Docker!Poll, Docker!shouldCleanupDeployment, DockerTypes, Applying, ReadyRuns,
                Docker!TaskDeploymentsKept
<1>3. ASSUME NEW d \in Deployment \cup TaskRecord, Docker!cleanupOldDeployments(d) PROVE DockerInv'
    <2>1. /\ pc = "cleanup" /\ d \in Deployment /\ todo' = todo \ {d}
          /\ \E v \in {running[d], NoRevision, "partial"} : running' = [running EXCEPT ![d] = v]
          /\ record' \in {record, [record EXCEPT ![d] = Docker!NoRecord]}
          /\ UNCHANGED <<desired, want, pc, cur, unsaved>>
        BY <1>3 DEF Docker!cleanupOldDeployments, Docker!Uninstalled, DockerTypes
    <2>2. Docker!NoRecord \in [state : {"none", "torn", "ready", "failed", "progressing"},
                               rev : Revision \cup {NoRevision}]
          /\ Docker!NoRecord.state = "none"
        BY DEF Docker!NoRecord
    <2>3. DockerTypes'
        BY <2>1, <2>2 DEF DockerTypes
    <2>4. Applying' /\ ReadyRuns'
        BY <2>1, <2>2 DEF DockerTypes, Applying, ReadyRuns
    <2>5. Docker!TaskDeploymentsKept'
        BY <2>1, RecordsApart DEF DockerTypes, Docker!TaskDeploymentsKept
    <2> QED BY <2>3, <2>4, <2>5
<1>4. CASE Docker!CleanedUp
    BY <1>4 DEF Docker!CleanedUp, DockerTypes, Applying, ReadyRuns, Docker!TaskDeploymentsKept
<1>5. ASSUME NEW d \in Deployment, Docker!CheckStatus(d) PROVE DockerInv'
    BY <1>5 DEF Docker!CheckStatus, DockerTypes, Applying, ReadyRuns, Docker!TaskDeploymentsKept
<1>6. ASSUME NEW d \in Deployment, Docker!DockerEngineApply(d) PROVE DockerInv'
    <2>1. /\ pc' = "apply" /\ cur' = d /\ todo' = todo \ {d} /\ UNCHANGED <<desired, running, want>>
          /\ Docker!SaveDeployment(d, "progressing")
        BY <1>6 DEF Docker!DockerEngineApply
    <2>2. /\ record' \in [Deployment \cup TaskRecord -> [state : {"none", "torn", "ready", "failed", "progressing"},
                                                         rev : Revision \cup {NoRevision}]]
          /\ \A o \in Deployment \cup TaskRecord : o # d =>
                 record'[o] = record[o] /\ (o \in unsaved' <=> o \in unsaved)
          /\ \/ record'[d] = record[d] /\ (d \in unsaved' <=> d \in unsaved \/ "progressing" = "progressing")
             \/ record'[d].state = "torn" /\ d \notin unsaved'
             \/ record'[d] = [state |-> "progressing", rev |-> want[d]] /\ d \notin unsaved'
        BY <2>1, DockerSaves
    <2>3. record'[d].state # "ready" \/ d \in unsaved'
        BY <2>2
    <2>4. DockerTypes' /\ Applying' /\ ReadyRuns'
        BY <2>1, <2>2, <2>3 DEF DockerTypes, Applying, ReadyRuns
    <2>5. Docker!TaskDeploymentsKept'
        BY <2>1, <2>2, RecordsApart DEF Docker!TaskDeploymentsKept
    <2> QED BY <2>4, <2>5
<1>7. ASSUME NEW ok \in BOOLEAN, Docker!ApplyComposeFile(ok) PROVE DockerInv'
    <2>1. /\ pc = "apply" /\ running' = [running EXCEPT ![cur] = IF ok THEN want[cur] ELSE "mixed"]
          /\ pc' = (IF ok THEN "applied" ELSE "failed")
          /\ UNCHANGED <<desired, record, want, todo, cur, unsaved>>
        BY <1>7 DEF Docker!ApplyComposeFile
    <2>2. cur \in Deployment /\ (record[cur].state # "ready" \/ cur \in unsaved)
        BY <2>1 DEF Applying
    <2>3. DockerTypes' /\ Applying' /\ ReadyRuns'
        BY <2>1, <2>2 DEF DockerTypes, Applying, ReadyRuns
    <2>4. Docker!TaskDeploymentsKept'
        BY <2>1, <2>2, RecordsApart DEF DockerTypes, Docker!TaskDeploymentsKept
    <2> QED BY <2>3, <2>4
<1>8. CASE Docker!SaveResult
    <2> DEFINE s == IF pc = "applied" THEN "ready" ELSE "failed"
    <2>1. /\ pc \in {"applied", "failed"} /\ Docker!SaveDeployment(cur, s)
          /\ pc' = "deploy" /\ UNCHANGED <<desired, running, want, todo>>
        BY <1>8 DEF Docker!SaveResult
    <2>2. /\ cur \in Deployment /\ (record[cur].state # "ready" \/ cur \in unsaved)
          /\ s = "ready" => running[cur] = want[cur]
        BY <2>1 DEF Applying
    <2>3. s \in {"ready", "failed"}
        OBVIOUS
    <2> HIDE DEF s
    <2>4. /\ record' \in [Deployment \cup TaskRecord -> [state : {"none", "torn", "ready", "failed", "progressing"},
                                                         rev : Revision \cup {NoRevision}]]
          /\ \A o \in Deployment \cup TaskRecord : o # cur =>
                 record'[o] = record[o] /\ (o \in unsaved' <=> o \in unsaved)
          /\ \/ record'[cur] = record[cur] /\ (cur \in unsaved' <=> cur \in unsaved)
             \/ record'[cur].state = "torn"
             \/ record'[cur] = [state |-> s, rev |-> want[cur]]
        BY <2>1, <2>2, <2>3, DockerSaves
    <2>5. DockerTypes' /\ Applying'
        BY <2>1, <2>4 DEF DockerTypes, Applying
    <2>6. ReadyRuns'
        BY <2>1, <2>2, <2>3, <2>4 DEF DockerTypes, ReadyRuns
    <2>7. Docker!TaskDeploymentsKept'
        BY <2>1, <2>2, <2>4, RecordsApart DEF Docker!TaskDeploymentsKept
    <2> QED BY <2>5, <2>6, <2>7
<1>9. CASE Docker!PollEnds
    BY <1>9 DEF Docker!PollEnds, DockerTypes, Applying, ReadyRuns, Docker!TaskDeploymentsKept
<1>10. CASE Docker!Crash
    <2>1. /\ pc' = "poll" /\ todo' = {} /\ UNCHANGED <<desired, want>>
          /\ (pc = "apply" /\ running' = [running EXCEPT ![cur] = "mixed"]) \/ UNCHANGED running
          /\ \/ pc \in {"applied", "failed"} /\ record' = [record EXCEPT ![cur] = Docker!Torn]
                  /\ unsaved' = unsaved \ {cur}
             \/ UNCHANGED <<record, unsaved>>
        BY <1>10 DEF Docker!Crash
    <2>2. Docker!Torn \in [state : {"none", "torn", "ready", "failed", "progressing"}, rev : Revision \cup {NoRevision}]
          /\ Docker!Torn.state = "torn"
        BY DEF Docker!Torn
    <2>3. pc \in {"apply", "applied", "failed"} =>
              cur \in Deployment /\ (record[cur].state # "ready" \/ cur \in unsaved)
        BY DEF Applying
    <2>4. DockerTypes'
        BY <2>1, <2>2, <2>3 DEF DockerTypes
    <2>5. Applying'
        BY <2>1 DEF Applying
    <2>6. ReadyRuns'
        <3> SUFFICES ASSUME NEW d \in Deployment, record'[d].state = "ready", d \notin unsaved'
                     PROVE  running'[d] \in {record'[d].rev, "partial", NoRevision}
            BY DEF ReadyRuns
        <3>1. record'[d] = record[d] /\ d \notin unsaved
            BY <2>1, <2>2, <2>3 DEF DockerTypes
        <3>2. running'[d] = running[d]
            BY <2>1, <2>3, <3>1 DEF DockerTypes
        <3> QED BY <3>1, <3>2 DEF ReadyRuns
    <2>7. Docker!TaskDeploymentsKept'
        BY <2>1, <2>3, RecordsApart DEF DockerTypes, Docker!TaskDeploymentsKept
    <2> QED BY <2>4, <2>5, <2>6, <2>7
<1> QED BY <1>1, <1>2, <1>3, <1>4, <1>5, <1>6, <1>7, <1>8, <1>9, <1>10 DEF Docker!Next

(* A record by which a deployment is left alone says ready.                 *)
LEMMA DockerLeftAlone == ASSUME DockerInv PROVE Docker!LeftAloneMeansRunning
<1> SUFFICES ASSUME NEW d \in Deployment, NEW r \in Revision, record[d].state \notin {"none", "torn"},
                    ~Docker!Outdated(record[d], r), d \notin unsaved
             PROVE  running[d] \in {r, "partial", NoRevision}
    BY DEF Docker!LeftAloneMeansRunning
<1>1. record[d].rev = r /\ record[d].state = "ready"
    BY DEF DockerInv, DockerTypes, Docker!Outdated
<1> QED BY <1>1 DEF DockerInv, ReadyRuns

-----------------------------------------------------------------------------
(* The Kubernetes agent.  A tracking secret that is still of the wanted     *)
(* deployment, and what a poll has read of it, never names a version of the *)
(* release that runs anything else than it says, or than Helm went back to. *)

Version == [id : Nat \ {0}, rev : Revision \cup {"foreign"}, by : {"agent", "foreign"}]
Secret == [id : 1..MaxID, rev : Revision, helm : Nat, state : {"progressing", "ready", "failed"}]
Wanted == [id : 1..MaxID, rev : Revision]

HelmTypes ==
    /\ hDesired = Helm!None \/ hDesired \in Wanted
    /\ hRecord = Helm!None \/ hRecord \in Secret
    /\ known = Helm!None \/ known \in Secret
    /\ release = Helm!None \/ release \in Version
    /\ hpc # "poll" => hWant \in Wanted
    /\ made \in Nat /\ raced \in BOOLEAN
    /\ hpc \in {"poll", "orphan", "verify", "install", "installing", "installed", "installFailed", "upgrade",
                "upgraded", "rolledBack", "check"}

Trusted(k) ==
    k.helm # Helm!NoHelm =>
        /\ release # Helm!None /\ k.helm <= release.id
        /\ k.helm = release.id => /\ release.rev = k.rev \/ k.rev \in tried
                                  /\ release.by = "agent" \/ raced \/ IgnoreSkew

IdsGrow ==
    /\ hRecord.id <= hDesired.id
    /\ hpc # "poll" => hWant.id <= hDesired.id /\ hRecord.id <= hWant.id
    /\ hpc = "orphan" => hRecord.id < hWant.id
RecordTrusted == hRecord # Helm!None /\ hRecord.id = hDesired.id => Trusted(hRecord)
KnownTrusted == hpc \notin {"poll", "orphan"} /\ known # Helm!None => Trusted(known)

(* Where an action begins, unless somebody has intervened.                  *)
ChecksHold ==
    /\ hpc \in {"upgrade", "check"} => known # Helm!None /\ known.helm # Helm!NoHelm
    /\ hpc \in {"upgrade", "check"} /\ ~raced /\ ~IgnoreSkew => known.helm = release.id
    /\ hpc = "check" => known.rev = hWant.rev
    /\ hpc = "installed" =>
          release # Helm!None /\ (release.id = 1 => release.rev = hWant.rev /\ release.by = "agent")
    /\ hpc = "upgraded" =>
          /\ release # Helm!None /\ made <= release.id
          /\ made = release.id => release.rev = hWant.rev /\ release.by = "agent"
    /\ hpc = "rolledBack" =>
          /\ release # Helm!None /\ hWant.rev \in tried
          /\ release.by = "agent" \/ raced \/ IgnoreSkew
          /\ known # Helm!None

HelmInv == HelmTypes /\ IdsGrow /\ RecordTrusted /\ KnownTrusted /\ ChecksHold /\ Helm!HealthyExplained

LEMMA HelmNone == Helm!None.id = 0 /\ Helm!NoHelm = 0
BY DEF Helm!None, Helm!NoHelm

LEMMA HelmInit == ASSUME Helm!Init PROVE HelmInv
<1> USE DEF Helm!Init
<1>1. HelmTypes
    BY DEF HelmTypes
<1>2. IdsGrow
    BY HelmNone DEF IdsGrow
<1>3. RecordTrusted /\ KnownTrusted /\ ChecksHold
    BY DEF RecordTrusted, KnownTrusted, ChecksHold
<1>4. Helm!HealthyExplained
    BY DEF Helm!HealthyExplained
<1> QED BY <1>1, <1>2, <1>3, <1>4 DEF HelmInv

(* Something is there if it has a number.                                   *)
LEMMA Ids ==
    ASSUME HelmTypes
    PROVE  /\ release # Helm!None <=> release.id # 0
           /\ hRecord # Helm!None <=> hRecord.id # 0
           /\ known # Helm!None <=> known.id # 0
           /\ hDesired # Helm!None <=> hDesired.id # 0
           /\ release.id \in Nat /\ hRecord.id \in Nat /\ known.id \in Nat /\ hDesired.id \in Nat
           /\ release # Helm!None => release \in Version
           /\ hRecord # Helm!None => hRecord \in Secret
           /\ known # Helm!None => known \in Secret
BY HelmNone, VersionsCounted DEF HelmTypes, Version, Secret, Wanted

(* What is trusted stays so while versions only grow.                       *)
LEMMA TrustStays ==
    ASSUME HelmTypes, NEW k \in Secret, Trusted(k), release' \in Version, release'.id >= release.id,
           release'.id = release.id => release' = release,
           tried \subseteq tried', raced => raced'
    PROVE  Trusted(k)'
<1>1. release'.id \in Nat /\ release'.id # 0 /\ Helm!None.id = 0
    BY HelmNone DEF Version
<1>2. release'.id # 0 => release' # Helm!None
    BY <1>1
<1> SUFFICES ASSUME k.helm # Helm!NoHelm
             PROVE  /\ release' # Helm!None /\ k.helm <= release'.id
                    /\ k.helm = release'.id => /\ release'.rev = k.rev \/ k.rev \in tried'
                                               /\ release'.by = "agent" \/ raced' \/ IgnoreSkew
    BY DEF Trusted
<1>3. /\ k.helm <= release.id
      /\ k.helm = release.id => /\ release.rev = k.rev \/ k.rev \in tried
                                /\ release.by = "agent" \/ raced \/ IgnoreSkew
    BY DEF Trusted
<1>4. k.helm \in Nat /\ release.id \in Nat
    BY Ids DEF Secret
<1>5. k.helm = release'.id => release' = release /\ k.helm = release.id
    BY <1>1, <1>3, <1>4
<1> QED BY <1>1, <1>2, <1>3, <1>4, <1>5

(* A step that leaves the release and the record alone, and goes nowhere    *)
(* where something is expected of them.                                     *)
LEMMA HelmGoes ==
    ASSUME HelmInv, UNCHANGED <<hDesired, hWant, hRecord, release, known, healthy>>,
           hpc # "poll", hpc # "orphan", hpc' \in {"poll", "install", "installing", "installFailed"},
           made' = made, raced' = raced, tried \subseteq tried'
    PROVE  HelmInv'
<1> USE DEF HelmInv
<1>1. HelmTypes'
    BY DEF HelmTypes
<1>2. IdsGrow'
    BY DEF IdsGrow
<1>3. RecordTrusted' /\ KnownTrusted'
    BY DEF RecordTrusted, KnownTrusted, Trusted
<1>4. ChecksHold'
    BY DEF ChecksHold
<1>5. Helm!HealthyExplained'
    BY DEF Helm!HealthyExplained
<1> QED BY <1>1, <1>2, <1>3, <1>4, <1>5

LEMMA HelmSetResource ==
    ASSUME HelmInv, NEW id \in 1..MaxID, NEW r \in Revision, Helm!SetResource(id, r)
    PROVE  HelmInv'
<1> USE DEF HelmInv
<1>1. /\ id >= hDesired.id /\ hDesired' = [id |-> id, rev |-> r]
      /\ UNCHANGED <<hRecord, release, hpc, hWant, known, tried, made, raced, healthy>>
    BY DEF Helm!SetResource
<1>2. hDesired' \in Wanted /\ hDesired'.id = id /\ id \in Nat
    BY <1>1, VersionsCounted DEF Wanted
<1>3. HelmTypes'
    BY <1>1, <1>2 DEF HelmTypes
<1>4. hRecord.id \in Nat /\ hDesired.id \in Nat /\ (hpc # "poll" => hWant.id \in Nat)
    BY Ids, VersionsCounted DEF HelmTypes, Wanted
<1>5. IdsGrow'
    BY <1>1, <1>2, <1>4 DEF IdsGrow
<1>6. RecordTrusted'
    <2> SUFFICES ASSUME hRecord # Helm!None, hRecord.id = id PROVE Trusted(hRecord)'
        BY <1>1, <1>2 DEF RecordTrusted
    <2>1. hRecord.id = hDesired.id
        BY <1>1, <1>2, <1>4 DEF IdsGrow
    <2>2. Trusted(hRecord)
        BY <2>1 DEF RecordTrusted
    <2> QED BY <1>1, <2>2 DEF Trusted
<1>7. KnownTrusted' /\ ChecksHold' /\ Helm!HealthyExplained'
    BY <1>1 DEF KnownTrusted, Trusted, ChecksHold, Helm!HealthyExplained
<1> QED BY <1>3, <1>5, <1>6, <1>7

LEMMA HelmPoll == ASSUME HelmInv, Helm!Poll PROVE HelmInv'
<1> USE DEF HelmInv
<1>1. /\ hpc = "poll" /\ hDesired # Helm!None /\ hWant' = hDesired /\ known' = hRecord
      /\ hpc' = (IF hRecord # Helm!None /\ known'.id # hWant'.id THEN "orphan" ELSE "verify")
      /\ UNCHANGED <<hDesired, hRecord, release, tried, made, raced, healthy>>
    BY DEF Helm!Poll, Helm!isSameDeployment, Helm!Goto
<1>2. HelmTypes'
    BY <1>1 DEF HelmTypes
<1>3. hRecord.id \in Nat /\ hDesired.id \in Nat
    BY Ids
<1>4. IdsGrow'
    BY <1>1, <1>3 DEF IdsGrow
<1>5. RecordTrusted' /\ Helm!HealthyExplained' /\ ChecksHold'
    BY <1>1 DEF RecordTrusted, Trusted, ChecksHold, Helm!HealthyExplained
<1>6. KnownTrusted'
    BY <1>1 DEF KnownTrusted, RecordTrusted, Trusted
<1> QED BY <1>2, <1>4, <1>5, <1>6

(* Nothing is trusted of an orphan, and what its release was is gone.       *)
LEMMA HelmUninstall == ASSUME HelmInv, Helm!RunHelmUninstall PROVE HelmInv'
<1> USE DEF HelmInv
<1>1. /\ hpc = "orphan" /\ known' = Helm!None /\ hpc' = "verify"
      /\ release' \in {release, Helm!None} /\ hRecord' \in {hRecord, Helm!None}
      /\ UNCHANGED <<hDesired, hWant, tried, made, raced, healthy>>
    BY DEF Helm!RunHelmUninstall, Helm!Goto
<1>2. HelmTypes'
    BY <1>1 DEF HelmTypes
<1>3. /\ hRecord.id \in Nat /\ hDesired.id \in Nat /\ hWant.id \in Nat /\ Helm!None.id = 0
      /\ hRecord.id < hWant.id /\ hWant.id <= hDesired.id
    BY <1>1, Ids, HelmNone, VersionsCounted DEF HelmTypes, Wanted, IdsGrow
<1>4. hRecord'.id < hWant.id
    BY <1>1, <1>3
<1>5. IdsGrow'
    BY <1>1, <1>3 DEF IdsGrow
<1>6. RecordTrusted'
    BY <1>1, <1>3 DEF RecordTrusted
<1>7. KnownTrusted' /\ ChecksHold' /\ Helm!HealthyExplained'
    BY <1>1 DEF KnownTrusted, ChecksHold, Helm!HealthyExplained
<1> QED BY <1>2, <1>5, <1>6, <1>7

LEMMA HelmVerify == ASSUME HelmInv, Helm!Verify PROVE HelmInv'
<1> USE DEF HelmInv
<1>1. /\ hpc = "verify" /\ hpc' = (IF Helm!verifyLatestHelmRelease THEN Helm!NextAction ELSE "poll")
      /\ UNCHANGED <<hDesired, hRecord, release, hWant, known, tried, made, raced, healthy>>
    BY DEF Helm!Verify, Helm!Goto
<1>2. CASE hpc' \in {"poll", "install"}
    BY <1>1, <1>2, HelmGoes
<1>3. CASE hpc' \notin {"poll", "install"}
    <2>1. /\ known # Helm!None /\ known.helm # Helm!NoHelm
          /\ hpc' = (IF known.rev # hWant.rev THEN "upgrade" ELSE "check")
          /\ release = Helm!None \/ known.helm = release.id \/ IgnoreSkew
        BY <1>1, <1>3 DEF Helm!NextAction, Helm!verifyLatestHelmRelease
    <2>2. release # Helm!None
        BY <1>1, <2>1 DEF KnownTrusted, Trusted
    <2>3. HelmTypes' /\ IdsGrow'
        BY <1>1, <2>1 DEF HelmTypes, IdsGrow
    <2>4. RecordTrusted' /\ KnownTrusted' /\ Helm!HealthyExplained'
        BY <1>1 DEF RecordTrusted, KnownTrusted, Trusted, Helm!HealthyExplained
    <2>5. ChecksHold'
        BY <1>1, <2>1, <2>2 DEF ChecksHold
    <2> QED BY <2>3, <2>4, <2>5
<1> QED BY <1>2, <1>3

(* The record is written, at the end or the beginning of an action.         *)
LEMMA HelmSaves ==
    ASSUME HelmInv, NEW helm \in Nat, NEW st \in {"progressing", "ready", "failed"},
           hpc \notin {"poll", "orphan"}, Helm!SaveDeployment(helm, st),
           helm # 0 => /\ release # Helm!None /\ helm <= release.id
                       /\ helm = release.id => /\ release.rev = hWant.rev \/ hWant.rev \in tried
                                               /\ release.by = "agent" \/ raced \/ IgnoreSkew,
           hpc' \in {"poll", "installing"},
           UNCHANGED <<hDesired, hWant, known, healthy, release, tried, made, raced>>
    PROVE  HelmInv'
<1> USE DEF HelmInv
<1>0. PICK k : k = [id |-> hWant.id, rev |-> hWant.rev, helm |-> helm, state |-> st]
    OBVIOUS
<1>1. hRecord' \in {hRecord, k}
    BY <1>0 DEF Helm!SaveDeployment
<1>2. k \in Secret /\ hWant.id \in Nat
    BY <1>0, VersionsCounted DEF HelmTypes, Wanted, Secret
<1>3. k.helm = helm /\ k.rev = hWant.rev /\ k.id = hWant.id
    BY <1>0
<1>4. HelmTypes'
    BY <1>1, <1>2 DEF HelmTypes
<1>5. hRecord.id <= hWant.id /\ hWant.id <= hDesired.id
    BY DEF IdsGrow
<1>6. IdsGrow'
    BY <1>1, <1>2, <1>3, <1>5 DEF IdsGrow
<1>7. Trusted(k)'
    BY <1>3, HelmNone DEF Trusted
<1>8. RecordTrusted'
    BY <1>1, <1>7 DEF RecordTrusted, Trusted
<1>9. KnownTrusted' /\ ChecksHold' /\ Helm!HealthyExplained'
    BY DEF KnownTrusted, Trusted, ChecksHold, Helm!HealthyExplained
<1> QED BY <1>4, <1>6, <1>8, <1>9

LEMMA HelmInstall ==
    ASSUME HelmInv, Helm!InstallBegins \/ Helm!RunHelmInstall \/ Helm!InstallSaved
    PROVE  HelmInv'
<1> USE DEF HelmInv, Helm!Goto, Helm!Keep
<1>1. CASE Helm!InstallBegins
    <2>1. CASE UNCHANGED hRecord
        BY <1>1, <2>1, HelmGoes DEF Helm!InstallBegins
    <2>2. CASE Helm!SaveDeployment(Helm!NoHelm, "progressing") /\ hpc' = "installing"
        BY <1>1, <2>2, HelmSaves, HelmNone DEF Helm!InstallBegins
    <2> QED BY <1>1, <2>1, <2>2 DEF Helm!InstallBegins
<1>2. CASE Helm!RunHelmInstall
    <2>1. /\ hpc = "installing" /\ UNCHANGED <<hDesired, hWant, hRecord, known, healthy, tried, made, raced>>
        BY <1>2 DEF Helm!RunHelmInstall
    <2>2. CASE release' = release /\ hpc' = "installFailed"
        BY <2>1, <2>2, HelmGoes
    <2>3. CASE release = Helm!None /\ release' = [id |-> 1, rev |-> hWant.rev, by |-> "agent"] /\ hpc' = "installed"
        <3>1. release' \in Version /\ release'.id = 1 /\ release'.rev = hWant.rev /\ release'.by = "agent"
            BY <2>1, <2>3 DEF HelmTypes, Version, Wanted
        <3>2. release' # Helm!None
            BY <3>1, HelmNone
        <3>3. HelmTypes' /\ IdsGrow'
            BY <2>1, <2>3, <3>1 DEF HelmTypes, IdsGrow
        <3>4. RecordTrusted'
            BY <2>1, <2>3 DEF RecordTrusted, Trusted
        <3>5. KnownTrusted'
            BY <2>1, <2>3 DEF KnownTrusted, Trusted
        <3>6. ChecksHold' /\ Helm!HealthyExplained'
            BY <2>1, <2>3, <3>1, <3>2 DEF ChecksHold, Helm!HealthyExplained
        <3> QED BY <3>3, <3>4, <3>5, <3>6
    <2> QED BY <1>2, <2>2, <2>3 DEF Helm!RunHelmInstall
<1>3. CASE Helm!InstallSaved
    <2>1. hpc' = "poll" /\ UNCHANGED <<hDesired, hWant, known, healthy, release, tried, made, raced>>
        BY <1>3 DEF Helm!InstallSaved
    <2>2. CASE hpc = "installed"
        <3>1. release # Helm!None /\ (release.id = 1 => release.rev = hWant.rev /\ release.by = "agent")
            BY <2>2 DEF ChecksHold
        <3>2. release.id >= 1
            BY <3>1, Ids
        <3>3. Helm!SaveDeployment(1, "ready")
            BY <1>3, <2>2 DEF Helm!InstallSaved
        <3> QED BY <2>1, <2>2, <3>1, <3>2, <3>3, HelmSaves
    <2>3. CASE hpc = "installFailed"
        BY <1>3, <2>1, <2>3, HelmSaves, HelmNone DEF Helm!InstallSaved
    <2> QED BY <1>3, <2>2, <2>3 DEF Helm!InstallSaved
<1> QED BY <1>1, <1>2, <1>3

(* A new version of the release, by the agent or by hand.                   *)
LEMMA HelmGrows ==
    ASSUME HelmInv, UNCHANGED <<hDesired, hWant, hRecord, known, healthy>>,
           release' \in Version, release'.id > release.id, tried \subseteq tried', made' \in Nat, raced' \in BOOLEAN,
           raced => raced', hpc' = hpc \/ (hpc # "poll" /\ hpc # "orphan" /\ hpc' \in {"upgraded", "rolledBack"})
    PROVE  HelmTypes' /\ IdsGrow' /\ RecordTrusted' /\ KnownTrusted' /\ Helm!HealthyExplained'
<1> USE DEF HelmInv
<1>1. release.id \in Nat /\ release'.id \in Nat
    BY Ids DEF Version
<1>2. HelmTypes'
    BY DEF HelmTypes
<1>3. IdsGrow'
    BY DEF IdsGrow
<1>4. ASSUME NEW k \in Secret, Trusted(k) PROVE Trusted(k)'
    BY <1>1, <1>4, TrustStays
<1>5. RecordTrusted'
    <2> SUFFICES ASSUME hRecord # Helm!None, hRecord.id = hDesired.id PROVE Trusted(hRecord)'
        BY DEF RecordTrusted
    <2>1. hRecord \in Secret /\ Trusted(hRecord)
        BY Ids DEF RecordTrusted
    <2> QED BY <2>1, <1>4 DEF Trusted
<1>6. KnownTrusted'
    <2> SUFFICES ASSUME hpc \notin {"poll", "orphan"}, known # Helm!None PROVE Trusted(known)'
        BY DEF KnownTrusted
    <2>1. known \in Secret /\ Trusted(known)
        BY Ids DEF KnownTrusted
    <2> QED BY <2>1, <1>4 DEF Trusted
<1>7. Helm!HealthyExplained'
    BY DEF Helm!HealthyExplained
<1> QED BY <1>2, <1>3, <1>5, <1>6, <1>7

LEMMA HelmUpgrade == ASSUME HelmInv, Helm!RunHelmUpgrade PROVE HelmInv'
<1> USE DEF HelmInv, Helm!Goto, Helm!Keep
<1>1. /\ hpc = "upgrade" /\ release # Helm!None
      /\ UNCHANGED <<hDesired, hWant, known, healthy, hRecord, raced>>
    BY DEF Helm!RunHelmUpgrade
<1>2. release \in Version /\ release.id \in Nat /\ hWant \in Wanted
    BY <1>1, Ids DEF HelmTypes
<1>3. CASE /\ release' = [id |-> release.id + 1, rev |-> hWant.rev, by |-> "agent"]
           /\ tried' = tried /\ made' = release.id + 1 /\ hpc' = "upgraded"
    <2>1. /\ release' \in Version /\ release'.id = release.id + 1
          /\ release'.rev = hWant.rev /\ release'.by = "agent"
        BY <1>2, <1>3 DEF Version, Wanted
    <2>2. release' # Helm!None
        BY <1>2, <2>1, HelmNone
    <2>3. ChecksHold'
        BY <1>1, <1>2, <1>3, <2>1, <2>2 DEF ChecksHold
    <2>4. raced \in BOOLEAN
        BY DEF HelmTypes
    <2> QED BY <1>1, <1>2, <1>3, <2>1, <2>3, <2>4, HelmGrows
<1>4. CASE /\ release' = [release EXCEPT !.id = @ + 2, !.by = "agent"]
           /\ tried' = tried \cup {hWant.rev} /\ made' = made /\ hpc' = "rolledBack"
    <2>1. release' \in Version /\ release'.id = release.id + 2 /\ release'.by = "agent"
        <3>1. release' = [id |-> release.id + 2, rev |-> release.rev, by |-> "agent"]
            BY <1>2, <1>4 DEF Version
        <3>2. release.rev \in Revision \cup {"foreign"} /\ release.id + 2 \in Nat \ {0}
            BY <1>2 DEF Version
        <3> QED BY <3>1, <3>2 DEF Version
    <2>2. release' # Helm!None
        BY <1>2, <2>1, HelmNone
    <2>3. ChecksHold'
        BY <1>1, <1>2, <1>4, <2>1, <2>2 DEF ChecksHold
    <2>4. raced \in BOOLEAN /\ made \in Nat
        BY DEF HelmTypes
    <2> QED BY <1>1, <1>2, <1>4, <2>1, <2>3, <2>4, HelmGrows
<1> QED BY <1>3, <1>4 DEF Helm!RunHelmUpgrade

LEMMA HelmRefused == ASSUME HelmInv, Helm!UpgradeRefused PROVE HelmInv'
<1> USE DEF HelmInv, Helm!Goto, Helm!Keep
<1>1. /\ hpc = "upgrade" /\ tried' = tried \cup {hWant.rev}
      /\ hpc' = (IF release = Helm!None THEN "poll" ELSE "rolledBack")
      /\ UNCHANGED <<hDesired, hWant, known, healthy, hRecord, release, made, raced>>
    BY DEF Helm!UpgradeRefused
<1>2. CASE release = Helm!None
    BY <1>1, <1>2, HelmGoes
<1>3. CASE release # Helm!None
    <2>1. HelmTypes' /\ IdsGrow'
        BY <1>1, <1>3 DEF HelmTypes, IdsGrow
    <2>2. RecordTrusted' /\ KnownTrusted' /\ Helm!HealthyExplained'
        BY <1>1 DEF RecordTrusted, KnownTrusted, Trusted, Helm!HealthyExplained
    <2>3. known # Helm!None /\ known.helm # Helm!NoHelm /\ (~raced /\ ~IgnoreSkew => known.helm = release.id)
        BY <1>1 DEF ChecksHold
    <2>4. release.by = "agent" \/ raced \/ IgnoreSkew
        BY <1>1, <2>3 DEF KnownTrusted, Trusted
    <2>5. ChecksHold'
        BY <1>1, <1>3, <2>3, <2>4 DEF ChecksHold
    <2> QED BY <2>1, <2>2, <2>5
<1> QED BY <1>2, <1>3

LEMMA HelmUpgradeSaved == ASSUME HelmInv, Helm!UpgradeSaved \/ Helm!SyncAfterRollback PROVE HelmInv'
<1> USE DEF HelmInv, Helm!Goto, Helm!Keep
<1>1. CASE Helm!UpgradeSaved
    <2>1. /\ hpc = "upgraded" /\ Helm!SaveDeployment(made, "ready") /\ hpc' = "poll" /\ made \in Nat
          /\ UNCHANGED <<hDesired, hWant, known, healthy, release, tried, made, raced>>
        BY <1>1 DEF Helm!UpgradeSaved, HelmTypes
    <2>2. /\ release # Helm!None /\ made <= release.id
          /\ made = release.id => release.rev = hWant.rev /\ release.by = "agent"
        BY <2>1 DEF ChecksHold
    <2> QED BY <2>1, <2>2, HelmSaves
<1>2. CASE Helm!SyncAfterRollback
    <2>1. /\ hpc = "rolledBack" /\ hpc' = "poll"
          /\ UNCHANGED <<hDesired, hWant, known, healthy, release, tried, made, raced>>
          /\ UNCHANGED hRecord \/ Helm!SaveDeployment(release.id, "failed")
        BY <1>2 DEF Helm!SyncAfterRollback
    <2>2. /\ release # Helm!None /\ hWant.rev \in tried /\ (release.by = "agent" \/ raced \/ IgnoreSkew)
          /\ release.id \in Nat
        BY <2>1, Ids DEF ChecksHold
    <2>3. CASE UNCHANGED hRecord
        BY <2>1, <2>3, HelmGoes
    <2>4. CASE Helm!SaveDeployment(release.id, "failed")
        BY <2>1, <2>2, <2>4, HelmSaves
    <2> QED BY <2>1, <2>3, <2>4
<1> QED BY <1>1, <1>2

(* What is reported as healthy.                                             *)
LEMMA HelmCheck == ASSUME HelmInv, Helm!CheckStatus PROVE HelmInv'
<1> USE DEF HelmInv, Helm!Goto
<1>1. /\ hpc = "check" /\ hpc' = "poll"
      /\ UNCHANGED <<hDesired, hRecord, release, hWant, known, tried, made, raced>>
      /\ \/ healthy' = healthy
         \/ release # Helm!None /\ healthy' = [id |-> hWant.id, rev |-> hWant.rev, runs |-> release.rev]
    BY DEF Helm!CheckStatus
<1>2. HelmTypes' /\ IdsGrow'
    BY <1>1 DEF HelmTypes, IdsGrow
<1>3. RecordTrusted' /\ KnownTrusted' /\ ChecksHold'
    BY <1>1 DEF RecordTrusted, KnownTrusted, Trusted, ChecksHold
<1>4. Helm!HealthyExplained'
    <2>1. CASE healthy' = healthy
        BY <1>1, <2>1 DEF Helm!HealthyExplained
    <2>2. CASE healthy' = [id |-> hWant.id, rev |-> hWant.rev, runs |-> release.rev]
        <3>1. healthy'.rev = hWant.rev /\ healthy'.runs = release.rev
            BY <2>2
        <3>2. raced \/ IgnoreSkew \/ release.rev = hWant.rev \/ hWant.rev \in tried
            BY <1>1 DEF ChecksHold, KnownTrusted, Trusted
        <3> QED BY <1>1, <3>1, <3>2 DEF Helm!HealthyExplained
    <2> QED BY <1>1, <2>1, <2>2
<1> QED BY <1>2, <1>3, <1>4

LEMMA HelmCrash == ASSUME HelmInv, Helm!Crash PROVE HelmInv'
<1> USE DEF HelmInv, Helm!Goto
<1>1. hpc' = "poll" /\ UNCHANGED <<hDesired, hRecord, release, hWant, known, tried, made, raced, healthy>>
    BY DEF Helm!Crash
<1> QED BY <1>1 DEF HelmTypes, IdsGrow, RecordTrusted, KnownTrusted, Trusted, ChecksHold, Helm!HealthyExplained

LEMMA HelmForeign == ASSUME HelmInv, Helm!ForeignUpgrade PROVE HelmInv'
<1> USE DEF HelmInv
<1>1. /\ release' = [id |-> release.id + 1, rev |-> "foreign", by |-> "foreign"]
      /\ raced' = (raced \/ hpc \in {"install", "installing", "upgrade", "rolledBack", "check"})
      /\ UNCHANGED <<hDesired, hRecord, hpc, hWant, known, tried, made, healthy>>
    BY DEF Helm!ForeignUpgrade
<1>2. release.id \in Nat
    BY Ids
<1>3. release' \in Version /\ release'.id = release.id + 1
    BY <1>1, <1>2 DEF Version
<1>4. release' # Helm!None
    BY <1>2, <1>3, HelmNone
<1>5. /\ made \in Nat /\ raced' \in BOOLEAN /\ (raced => raced')
      /\ hpc \in {"install", "installing", "upgrade", "rolledBack", "check"} => raced'
    BY <1>1 DEF HelmTypes
<1> HIDE DEF HelmInv
<1>6. HelmTypes' /\ IdsGrow' /\ RecordTrusted' /\ KnownTrusted' /\ Helm!HealthyExplained'
    <2>1. UNCHANGED <<hDesired, hWant, hRecord, known, healthy, tried, made, hpc>> /\ release'.id > release.id
        BY <1>1, <1>2, <1>3
    <2> QED BY <1>3, <1>5, <2>1, HelmGrows
<1>7. hpc = "installed" => release.id >= 1
    BY Ids DEF ChecksHold, HelmInv
<1>8. ChecksHold'
    <2>1. UNCHANGED <<hWant, known, tried, made, hpc>>
        BY <1>1
    <2> QED BY <1>2, <1>3, <1>4, <1>5, <1>7, <2>1 DEF ChecksHold, HelmInv
<1> QED BY <1>6, <1>8 DEF HelmInv

LEMMA HelmNext == ASSUME HelmInv, Helm!Next PROVE HelmInv'
BY HelmSetResource, HelmPoll, HelmUninstall, HelmVerify, HelmInstall, HelmUpgrade, HelmRefused, HelmUpgradeSaved,
   HelmCheck, HelmCrash, HelmForeign DEF Helm!Next

(* The agent makes a new version only of a release that was its own when it *)
(* checked.                                                                 *)
LEMMA HelmKeepsForeign ==
    ASSUME HelmInv, Helm!Next, release # Helm!None, release' # Helm!None, ~IgnoreSkew,
           release.by = "foreign", release'.by = "agent"
    PROVE  raced
<1> USE DEF HelmInv
<1>1. CASE Helm!RunHelmUpgrade
    BY <1>1 DEF Helm!RunHelmUpgrade, ChecksHold, KnownTrusted, Trusted
<1>2. CASE Helm!ForeignUpgrade
    BY <1>2 DEF Helm!ForeignUpgrade
<1>3. CASE Helm!RunHelmInstall \/ Helm!RunHelmUninstall
    BY <1>3 DEF Helm!RunHelmInstall, Helm!RunHelmUninstall
<1>4. CASE release' = release
    BY <1>4
<1>5. ASSUME NEW id, NEW r, Helm!SetResource(id, r) PROVE release' = release
    BY <1>5 DEF Helm!SetResource
<1> QED BY <1>1, <1>2, <1>3, <1>4, <1>5 DEF Helm!Next, Helm!Poll, Helm!Verify, Helm!InstallBegins,
           Helm!InstallSaved, Helm!UpgradeRefused, Helm!UpgradeSaved, Helm!SyncAfterRollback, Helm!CheckStatus,
           Helm!Crash

-----------------------------------------------------------------------------
(* The registry, by Registry_proofs: its constants are as assumed there.    *)

LEMMA ListedContent == Listed \in [Image \cup Index -> SUBSET ((Image \cup Index) \cup Layer)]
BY DEF Listed
(* The instances of Registry_proofs bring their own IsFiniteSet.            *)
LEMMA SameFinite ==
    ASSUME NEW S
    PROVE  /\ IsFiniteSet(S) => RegPush!IsFiniteSet(S)
           /\ IsFiniteSet(S) => RegPull!IsFiniteSet(S)
           /\ IsFiniteSet(S) => RegSync!IsFiniteSet(S)
BY DEF IsFiniteSet, RegPush!IsFiniteSet, RegPull!IsFiniteSet, RegSync!IsFiniteSet
LEMMA PushConstants == RegPush!RegistryAssumption
<1>1. {} \subseteq Artifact
    OBVIOUS
<1> QED BY <1>1, ListedContent, NamesApart, TablesFinite, SameFinite DEF RegPush!RegistryAssumption
LEMMA PullConstants == RegPull!RegistryAssumption
<1>1. {} \subseteq Artifact /\ 9 \in Nat
    OBVIOUS
<1> QED BY <1>1, ListedContent, NamesApart, TablesFinite, SameFinite DEF RegPull!RegistryAssumption
LEMMA SyncConstants == RegSync!RegistryAssumption
<1>1. IsFiniteSet(SyncedTag) /\ SyncedTag \cap (Image \cup Index) = {}
    BY NamesApart, TablesFinite, FS_Subset
<1>2. Artifact \subseteq Artifact /\ 9 \in Nat
    OBVIOUS
<1> QED BY <1>1, <1>2, ListedContent, NamesApart, TablesFinite, SameFinite DEF RegSync!RegistryAssumption

RegistryInv ==
    /\ part = "push" => RegPush!RegistryInv
    /\ part = "pull" => RegPull!RegistryInv
    /\ part = "sync" => RegSync!RegistryInv

LEMMA RegistryBegins == ASSUME MCInit PROVE RegistryInv
<1>1. ASSUME part = "push" PROVE RegPush!RegistryInv
    BY <1>1, PushConstants, RegPush!InvInit DEF MCInit
<1>2. ASSUME part = "pull" PROVE RegPull!RegistryInv
    BY <1>2, PullConstants, RegPull!InvInit DEF MCInit
<1>3. ASSUME part = "sync" PROVE RegSync!RegistryInv
    BY <1>3, SyncConstants, RegSync!InvInit DEF MCInit
<1> QED BY <1>1, <1>2, <1>3 DEF RegistryInv

LEMMA RegistryContinues == ASSUME RegistryInv, [MCNext]_mcVars PROVE RegistryInv'
<1>1. part' = part
    BY DEF MCNext, mcVars
<1>2. ASSUME part = "push" PROVE RegPush!RegistryInv'
    <2>1. RegPush!Next \/ UNCHANGED RegPush!vars
        BY <1>2 DEF MCNext, mcVars, registryVars, RegPush!Next, RegPush!vars
    <2> QED BY <1>2, <2>1, PushConstants, RegPush!InvNext DEF RegistryInv
<1>3. ASSUME part = "pull" PROVE RegPull!RegistryInv'
    <2>1. RegPull!Next \/ UNCHANGED RegPull!vars
        BY <1>3 DEF MCNext, mcVars, registryVars, RegPull!Next, RegPull!vars
    <2> QED BY <1>3, <2>1, PullConstants, RegPull!InvNext DEF RegistryInv
<1>4. ASSUME part = "sync" PROVE RegSync!RegistryInv'
    <2>1. RegSync!Next \/ UNCHANGED RegSync!vars
        BY <1>4 DEF MCNext, mcVars, registryVars, RegSync!Next, RegSync!vars
    <2> QED BY <1>4, <2>1, SyncConstants, RegSync!InvNext DEF RegistryInv
<1> QED BY <1>1, <1>2, <1>3, <1>4 DEF RegistryInv

LEMMA RegistryHolds == ASSUME RegistryInv PROVE RegistrySafe
<1>1. ASSUME part = "push" PROVE RegPush!RegistrySafe
    BY <1>1, PushConstants, RegPush!InvSafe DEF RegistryInv
<1>2. ASSUME part = "pull" PROVE RegPull!RegistrySafe
    BY <1>2, PullConstants, RegPull!InvSafe DEF RegistryInv
<1>3. ASSUME part = "sync" PROVE RegSync!RegistrySafe
    BY <1>3, SyncConstants, RegSync!InvSafe DEF RegistryInv
<1> QED BY <1>1, <1>2, <1>3 DEF RegistrySafe

-----------------------------------------------------------------------------
(* The requests: what a path says about its transactions (see Requests) is  *)
(* what holds when it is walked.                                            *)

Walked(i) == Api!Before(path, i, "ok") \cup Api!Before(path, i, "refuse")

RequestTypes ==
    /\ route \in DeliveryRoutes \cup AccountRoutes \cup PlatformRoutes
    /\ path \in route.run /\ caller \in Caller
    /\ rpc \in 1..(Len(path) + 1) /\ depth \in Nat
    /\ pending \cup stored \subseteq {i \in DOMAIN path : path[i].do = "write"}
    /\ sent \subseteq {i \in DOMAIN path : path[i].do = "send"}
    /\ answer \in {"none", "ok", "error"}
    /\ state \in {"new", "running", "done", "crashed"}
(* Up to the next step: how deep it is, what was written and where it is.   *)
Underway ==
    state \in {"new", "running"} =>
        /\ depth = Api!DepthAt(path, rpc)
        /\ depth = 0 => pending = {}
        /\ \A i \in pending \cup stored \cup sent : i < rpc
        /\ \A j \in Api!Due(path) : j < rpc => j \in pending \cup stored
        /\ answer = "none" => Walked(rpc) = {}
        /\ unsure \/ \A j \in stored : Api!Durable(path, j, rpc)
Admission ==
    /\ state = "new" => answer = "none" /\ stored = {} /\ sent = {}
    /\ state = "running" \/ stored # {} \/ sent # {} => Api!Passes(route, caller)
OkStored == answer = "ok" /\ Api!AnswersLast(path) => Api!Due(path) \subseteq stored
OnlyRecords == sent = {} /\ \A i \in stored : path[i].on \in Api!Records
RefusedEarly ==
    answer = "error" /\ Api!FailsEarly(path) =>
        /\ state = "running" => Api!Harmless(path, Len(path) + 1)
        /\ Api!Over /\ ~unsure => OnlyRecords
SentAfter ==
    Api!SendsOutside(path) => \A i \in sent, j \in Api!Due(path) : j < i => j \in stored
RequestInv == RequestTypes /\ Underway /\ Admission /\ OkStored /\ RefusedEarly /\ SentAfter

(* The instance of Requests brings its own Cardinality.                     *)
LEMMA SameCardinality == \A S : Api!Cardinality(S) = Cardinality(S)
BY DEF Api!Cardinality, Cardinality, Api!IsFiniteSet, IsFiniteSet

LEMMA PathsAreOrdered ==
    ASSUME RequestTypes
    PROVE  /\ Api!Nests(path)
           /\ path \in Seq(Api!PathStep)
           /\ route.handler \notin Early \cup Mute => Api!AnswersLast(path)
           /\ route.handler \notin Partial => Api!FailsEarly(path)
           /\ route.handler \notin Ahead => Api!SendsOutside(path)
BY RoutesWritten DEF RequestTypes, Api!RoutesOrdered, Api!Nests

(* One step further along a path.                                           *)
LEMMA OneStepFurther ==
    ASSUME NEW p \in Seq(Api!PathStep), NEW i \in 1..Len(p), NEW do \in Api!StepKinds
    PROVE  /\ p[i].do = do => Api!Before(p, i + 1, do) = Api!Before(p, i, do) \cup {i}
           /\ p[i].do # do => Api!Before(p, i + 1, do) = Api!Before(p, i, do)
           /\ Cardinality(Api!Before(p, i, do)) \in Nat
           /\ Cardinality(Api!Before(p, i + 1, do))
                = Cardinality(Api!Before(p, i, do)) + (IF p[i].do = do THEN 1 ELSE 0)
<1>1. Len(p) \in Nat /\ DOMAIN p = 1..Len(p) /\ i \in Nat
    OBVIOUS
<1>2. /\ p[i].do = do => Api!Before(p, i + 1, do) = Api!Before(p, i, do) \cup {i}
      /\ p[i].do # do => Api!Before(p, i + 1, do) = Api!Before(p, i, do)
      /\ Api!Before(p, i, do) \subseteq 1..Len(p) /\ i \notin Api!Before(p, i, do)
    BY <1>1 DEF Api!Before
<1>3. IsFiniteSet(1..Len(p))
    BY <1>1, FS_Interval
<1>4. IsFiniteSet(Api!Before(p, i, do)) /\ Cardinality(Api!Before(p, i, do)) \in Nat
    BY <1>2, <1>3, FS_Subset, FS_CardinalityType
<1>5. Cardinality(Api!Before(p, i, do) \cup {i}) = Cardinality(Api!Before(p, i, do)) + 1
    BY <1>2, <1>4, FS_AddElement
<1>6. ASSUME p[i].do = do PROVE Cardinality(Api!Before(p, i + 1, do)) = Cardinality(Api!Before(p, i, do)) + 1
    BY <1>2, <1>5, <1>6
<1>7. ASSUME p[i].do # do PROVE Cardinality(Api!Before(p, i + 1, do)) = Cardinality(Api!Before(p, i, do))
    BY <1>2, <1>7
<1> QED BY <1>2, <1>4, <1>6, <1>7

LEMMA DepthFurther ==
    ASSUME NEW p \in Seq(Api!PathStep), NEW i \in 1..Len(p)
    PROVE  /\ Api!DepthAt(p, i) \in Int
           /\ p[i].do = "begin" => Api!DepthAt(p, i + 1) = Api!DepthAt(p, i) + 1
           /\ p[i].do = "commit" => Api!DepthAt(p, i + 1) = Api!DepthAt(p, i) - 1
           /\ p[i].do \notin {"begin", "commit"} => Api!DepthAt(p, i + 1) = Api!DepthAt(p, i)
<1> DEFINE b == Cardinality(Api!Before(p, i, "begin"))  c == Cardinality(Api!Before(p, i, "commit"))
           bb == Cardinality(Api!Before(p, i + 1, "begin"))  cc == Cardinality(Api!Before(p, i + 1, "commit"))
<1>1. b \in Nat /\ c \in Nat
    BY OneStepFurther DEF Api!StepKinds
<1>2. bb = b + (IF p[i].do = "begin" THEN 1 ELSE 0) /\ cc = c + (IF p[i].do = "commit" THEN 1 ELSE 0)
    BY OneStepFurther DEF Api!StepKinds
<1>3. Api!DepthAt(p, i) = b - c /\ Api!DepthAt(p, i + 1) = bb - cc
    BY SameCardinality DEF Api!DepthAt
<1> HIDE DEF b, c, bb, cc
<1> QED BY <1>1, <1>2, <1>3

LEMMA NothingBeforeFirst ==
    ASSUME NEW p \in Seq(Api!PathStep)
    PROVE  Api!DepthAt(p, 1) = 0 /\ \A do \in Api!StepKinds : Api!Before(p, 1, do) = {}
<1>1. \A do \in Api!StepKinds : Api!Before(p, 1, do) = {}
    BY DEF Api!Before
<1>2. Api!Cardinality({}) = 0
    BY SameCardinality, FS_EmptySet
<1>3. Api!Before(p, 1, "begin") = {} /\ Api!Before(p, 1, "commit") = {}
    BY <1>1 DEF Api!StepKinds
<1>4. Api!DepthAt(p, 1) = Api!Cardinality({}) - Api!Cardinality({})
    BY <1>3, Zenon DEF Api!DepthAt
<1>5. Api!DepthAt(p, 1) = 0
    BY <1>2, <1>4
<1> QED BY <1>1, <1>5

LEMMA DurableStays ==
    ASSUME NEW p \in Seq(Api!PathStep), NEW j, NEW i \in Nat, NEW k \in Nat, i <= k, Api!Durable(p, j, i)
    PROVE  Api!Durable(p, j, k)
BY DEF Api!Durable, Api!Before

(* What the next state of the walk has to be explained by.                  *)
LEMMA AfterStep ==
    ASSUME RequestInv, Api!Running
    PROVE  /\ path \in Seq(Api!PathStep) /\ rpc \in DOMAIN path /\ rpc + 1 \in 1..(Len(path) + 1)
           /\ path[rpc].do = "begin" => Api!DepthAt(path, rpc + 1) = depth + 1
           /\ path[rpc].do = "commit" => Api!DepthAt(path, rpc + 1) = depth - 1
           /\ path[rpc].do \notin {"begin", "commit"} => Api!DepthAt(path, rpc + 1) = depth
           /\ depth = Api!DepthAt(path, rpc)
           /\ path[rpc].do = "commit" => depth > 0
           /\ depth = 0 => pending = {} /\ Api!Durable(path, rpc, rpc + 1)
           /\ path[rpc].do = "commit" /\ depth = 1 => \A j \in pending : Api!Durable(path, j, rpc + 1)
           /\ path[rpc].do \in {"begin", "commit"} => path[rpc].fail # "logged"
           /\ \A i \in pending \cup stored \cup sent : i < rpc
           /\ \A j \in Api!Due(path) : j < rpc + 1 => j \in pending \cup stored \/ (j = rpc /\ path[rpc].do = "write")
           /\ answer = "none" => Walked(rpc) = {}
           /\ answer = "none" /\ path[rpc].do \notin {"ok", "refuse"} => Walked(rpc + 1) = {}
           /\ unsure \/ \A j \in stored : Api!Durable(path, j, rpc + 1)
<1>1. path \in Seq(Api!PathStep) /\ rpc \in 1..Len(path) /\ state = "running"
    BY PathsAreOrdered DEF RequestInv, RequestTypes, Api!Running
<1>2. path \in Seq(Api!PathStep) /\ rpc \in DOMAIN path /\ rpc + 1 \in 1..(Len(path) + 1)
    BY <1>1
<1>3. /\ depth = Api!DepthAt(path, rpc)
      /\ depth = 0 => pending = {}
      /\ \A i \in pending \cup stored \cup sent : i < rpc
      /\ answer = "none" => Walked(rpc) = {}
    BY <1>1 DEF RequestInv, Underway
<1>4. /\ path[rpc].do = "commit" => depth > 0
      /\ path[rpc].do \in {"begin", "commit"} => path[rpc].fail # "logged"
    <2>1. Api!Nests(path)
        BY PathsAreOrdered DEF RequestInv
    <2> QED BY <1>2, <1>3, <2>1 DEF Api!Nests
<1>5. \A j \in Api!Due(path) : j < rpc + 1 => j \in pending \cup stored \/ (j = rpc /\ path[rpc].do = "write")
    <2> SUFFICES ASSUME NEW j \in Api!Due(path), j < rpc + 1
                 PROVE  j \in pending \cup stored \/ (j = rpc /\ path[rpc].do = "write")
        OBVIOUS
    <2>1. j \in Nat /\ path[j].do = "write"
        BY <1>1 DEF Api!Due
    <2>2. j < rpc => j \in pending \cup stored
        BY <1>1 DEF RequestInv, Underway
    <2> QED BY <1>1, <2>1, <2>2
<1>6. ASSUME answer = "none", path[rpc].do \notin {"ok", "refuse"} PROVE Walked(rpc + 1) = {}
    <2>1. /\ Api!Before(path, rpc + 1, "ok") = Api!Before(path, rpc, "ok")
          /\ Api!Before(path, rpc + 1, "refuse") = Api!Before(path, rpc, "refuse")
        BY <1>1, <1>6, OneStepFurther DEF Api!StepKinds
    <2> QED BY <1>3, <1>6, <2>1 DEF Walked
<1>7. unsure \/ \A j \in stored : Api!Durable(path, j, rpc + 1)
    <2>1. unsure \/ \A j \in stored : Api!Durable(path, j, rpc)
        BY <1>1 DEF RequestInv, Underway
    <2>2. rpc \in Nat /\ rpc + 1 \in Nat /\ rpc <= rpc + 1
        BY <1>1
    <2> QED BY <1>1, <2>1, <2>2, DurableStays
<1>8. /\ path[rpc].do = "begin" => Api!DepthAt(path, rpc + 1) = depth + 1
      /\ path[rpc].do = "commit" => Api!DepthAt(path, rpc + 1) = depth - 1
      /\ path[rpc].do \notin {"begin", "commit"} => Api!DepthAt(path, rpc + 1) = depth
    BY <1>1, <1>3, DepthFurther
<1>9. ASSUME depth = 0 PROVE Api!Durable(path, rpc, rpc + 1)
    BY <1>3, <1>9 DEF Api!Durable
<1>10. ASSUME path[rpc].do = "commit", depth = 1, NEW j \in pending PROVE Api!Durable(path, j, rpc + 1)
    <2>1. rpc \in Api!Before(path, rpc + 1, "commit")
        BY <1>1, <1>10 DEF Api!Before
    <2>2. j < rpc /\ Api!DepthAt(path, rpc) = 1
        BY <1>3, <1>10
    <2> QED BY <2>1, <2>2 DEF Api!Durable
<1> QED BY <1>2, <1>3, <1>4, <1>5, <1>6, <1>7, <1>8, <1>9, <1>10

LEMMA RequestBegins == ASSUME Api!Init PROVE RequestInv
<1>1. RequestTypes
    <2>1. path \in Seq(Api!PathStep)
        BY RoutesWritten DEF Api!Init, Api!RoutesOrdered, Api!Nests
    <2> QED BY <2>1 DEF Api!Init, RequestTypes
<1>2. path \in Seq(Api!PathStep)
    BY <1>1, PathsAreOrdered
<1>3. Underway
    <2>1. Api!DepthAt(path, 1) = 0 /\ Walked(1) = {}
        BY <1>2, NothingBeforeFirst DEF Walked, Api!StepKinds
    <2>2. \A j \in Api!Due(path) : ~(j < 1)
        BY <1>2 DEF Api!Due
    <2> QED BY <2>1, <2>2 DEF Api!Init, Underway
<1> QED BY <1>1, <1>3 DEF Api!Init, RequestInv, Admission, OkStored, RefusedEarly, SentAfter

(* The middlewares.                                                         *)
LEMMA RequestAdmits == ASSUME RequestInv, Api!Admit \/ Api!Forbid PROVE RequestInv'
<1>1. UNCHANGED <<route, caller, path, rpc, depth, pending, stored, sent, unsure>> /\ state = "new"
    BY DEF Api!Admit, Api!Forbid
<1>2. RequestTypes'
    BY <1>1 DEF Api!Admit, Api!Forbid, RequestInv, RequestTypes
<1>3. CASE Api!Admit
    <2>1. answer' = "none" /\ state' = "running" /\ Api!Passes(route, caller)
        BY <1>1, <1>3 DEF RequestInv, Admission, Api!Admit, Api!Admitted
    <2>2. Underway'
        BY <1>1, <1>3, <2>1 DEF RequestInv, Underway, Walked, Api!Admit
    <2>3. SentAfter'
        BY <1>1 DEF RequestInv, SentAfter
    <2> QED BY <1>1, <1>2, <2>1, <2>2, <2>3 DEF RequestInv, Admission, OkStored, RefusedEarly
<1>4. CASE Api!Forbid
    <2>1. answer' = "error" /\ state' = "done" /\ stored' = {} /\ sent' = {}
        BY <1>1, <1>4 DEF RequestInv, Admission, Api!Forbid
    <2> QED BY <1>1, <1>2, <2>1 DEF RequestInv, Underway, Admission, OkStored, RefusedEarly, OnlyRecords, SentAfter
<1> QED BY <1>3, <1>4

LEMMA RequestCheckOrRead == ASSUME RequestInv, Api!CheckOrRead PROVE RequestInv'
<1>1. /\ UNCHANGED <<route, caller, path, depth, pending, stored, sent, answer, unsure, state>>
      /\ rpc' = rpc + 1 /\ Api!Running /\ state = "running" /\ path[rpc].do \in {"check", "read"}
    BY DEF Api!CheckOrRead, Api!goOn, Api!step, Api!Running
<1>2. RequestTypes'
    BY <1>1, AfterStep DEF RequestInv, RequestTypes
<1>3. Underway'
    BY <1>1, AfterStep DEF RequestInv, RequestTypes, Underway, Walked
<1>4. SentAfter' /\ Admission' /\ OkStored' /\ RefusedEarly'
    BY <1>1 DEF RequestInv, Admission, OkStored, RefusedEarly, SentAfter, OnlyRecords, Api!Over
<1> QED BY <1>2, <1>3, <1>4 DEF RequestInv

LEMMA RequestWriteRow == ASSUME RequestInv, Api!WriteRow PROVE RequestInv'
<1>1. /\ UNCHANGED <<route, caller, path, depth, sent, answer, unsure, state>>
      /\ rpc' = rpc + 1 /\ Api!Running /\ state = "running" /\ path[rpc].do = "write"
      /\ depth > 0 => pending' = pending \cup {rpc} /\ stored' = stored
      /\ ~(depth > 0) => stored' = stored \cup {rpc} /\ pending' = pending
    BY DEF Api!WriteRow, Api!goOn, Api!step, Api!Running
<1>2. RequestTypes'
    BY <1>1, AfterStep DEF RequestInv, RequestTypes
<1>3. depth \in Nat /\ rpc \in Nat
    BY <1>1, AfterStep DEF RequestInv, RequestTypes
<1>4. Underway'
    <2>1. /\ Api!DepthAt(path, rpc + 1) = depth
          /\ depth = 0 => pending' = {}
          /\ answer = "none" => Walked(rpc + 1) = {}
        BY <1>1, <1>3, AfterStep
    <2>2. \A i \in pending' \cup stored' \cup sent : i < rpc + 1
        BY <1>1, <1>2, <1>3, AfterStep DEF RequestTypes
    <2>3. \A j \in Api!Due(path) : j < rpc + 1 => j \in pending' \cup stored'
        BY <1>1, <1>3, AfterStep
    <2>4. unsure \/ \A j \in stored' : Api!Durable(path, j, rpc + 1)
        BY <1>1, <1>3, AfterStep
    <2> QED BY <1>1, <2>1, <2>2, <2>3, <2>4 DEF Underway, Walked
<1>5. SentAfter' /\ Admission' /\ OkStored' /\ RefusedEarly'
    BY <1>1, <1>3 DEF RequestInv, Admission, OkStored, RefusedEarly, SentAfter, Api!Over
<1> QED BY <1>2, <1>4, <1>5 DEF RequestInv

LEMMA RequestCallOut == ASSUME RequestInv, Api!CallOut PROVE RequestInv'
<1>1. /\ UNCHANGED <<route, caller, path, depth, pending, stored, answer, unsure, state>>
      /\ rpc' = rpc + 1 /\ Api!Running /\ state = "running" /\ path[rpc].do = "send"
      /\ sent' = sent \cup {rpc}
    BY DEF Api!CallOut, Api!goOn, Api!step, Api!Running
<1>2. RequestTypes'
    BY <1>1, AfterStep DEF RequestInv, RequestTypes
<1>3. Underway'
    BY <1>1, AfterStep DEF RequestInv, RequestTypes, Underway, Walked
<1>4. SentAfter'
    <2>1. ASSUME Api!SendsOutside(path), NEW j \in Api!Due(path), j < rpc PROVE j \in stored
        <3>1. depth = 0
            BY <1>1, <2>1, AfterStep DEF Api!SendsOutside
        <3>2. j < rpc + 1 /\ j # rpc
            BY <1>1, <2>1, AfterStep DEF Api!Due
        <3> QED BY <1>1, <2>1, <3>1, <3>2, AfterStep
    <2> QED BY <1>1, <2>1 DEF RequestInv, SentAfter
<1>5. Admission' /\ OkStored' /\ RefusedEarly'
    BY <1>1 DEF RequestInv, Admission, OkStored, RefusedEarly, Api!Over
<1> QED BY <1>2, <1>3, <1>4, <1>5 DEF RequestInv

LEMMA RequestBegin == ASSUME RequestInv, Api!Begin PROVE RequestInv'
<1>1. /\ UNCHANGED <<route, caller, path, pending, stored, sent, answer, unsure, state>>
      /\ rpc' = rpc + 1 /\ Api!Running /\ state = "running" /\ path[rpc].do = "begin" /\ depth' = depth + 1
    BY DEF Api!Begin, Api!goOn, Api!step, Api!Running
<1>2. RequestTypes'
    BY <1>1, AfterStep DEF RequestInv, RequestTypes
<1>3. Underway'
    BY <1>1, AfterStep DEF RequestInv, RequestTypes, Underway, Walked
<1>4. SentAfter' /\ Admission' /\ OkStored' /\ RefusedEarly'
    BY <1>1 DEF RequestInv, Admission, OkStored, RefusedEarly, SentAfter, Api!Over
<1> QED BY <1>2, <1>3, <1>4 DEF RequestInv

LEMMA RequestCommit == ASSUME RequestInv, Api!Commit PROVE RequestInv'
<1>1. /\ UNCHANGED <<route, caller, path, sent, answer, unsure, state>>
      /\ rpc' = rpc + 1 /\ Api!Running /\ state = "running" /\ path[rpc].do = "commit" /\ depth' = depth - 1
      /\ depth = 1 => stored' = stored \cup pending /\ pending' = {}
      /\ depth # 1 => stored' = stored /\ pending' = pending
    BY DEF Api!Commit, Api!goOn, Api!step, Api!Running
<1>2. depth \in Nat /\ depth > 0
    BY <1>1, AfterStep DEF RequestInv, RequestTypes
<1>3. RequestTypes'
    BY <1>1, <1>2, AfterStep DEF RequestInv, RequestTypes
<1>4. Underway'
    BY <1>1, <1>2, AfterStep DEF RequestInv, RequestTypes, Underway, Walked
<1>5. SentAfter' /\ Admission' /\ OkStored' /\ RefusedEarly'
    BY <1>1 DEF RequestInv, Admission, OkStored, RefusedEarly, SentAfter, Api!Over
<1> QED BY <1>3, <1>4, <1>5 DEF RequestInv

LEMMA RequestResponds == ASSUME RequestInv, Api!RespondJSONWithStatus PROVE RequestInv'
<1>1. /\ UNCHANGED <<route, caller, path, depth, pending, stored, sent, unsure, state>>
      /\ rpc' = rpc + 1 /\ Api!Running /\ state = "running" /\ path[rpc].do \in {"ok", "refuse"}
      /\ answer # "none" => answer' = answer
      /\ answer = "none" => answer' = IF path[rpc].do = "ok" THEN "ok" ELSE "error"
    BY DEF Api!RespondJSONWithStatus, Api!FirstAnswer, Api!goOn, Api!step, Api!Running
<1>2. RequestTypes'
    BY <1>1, AfterStep DEF RequestInv, RequestTypes
<1>3. answer' # "none"
    BY <1>1
<1>4. Underway'
    BY <1>1, <1>3, AfterStep DEF RequestInv, RequestTypes, Underway, Walked
<1>5. OkStored'
    <2>1. ASSUME answer = "none", path[rpc].do = "ok", Api!AnswersLast(path), NEW j \in Api!Due(path)
          PROVE  j \in stored
        <3>1. depth = 0 /\ j < rpc
            BY <1>1, <2>1, AfterStep DEF Api!AnswersLast
        <3>2. j < rpc + 1
            BY <1>1, <2>1, <3>1, AfterStep DEF Api!Due
        <3> QED BY <1>1, <2>1, <3>1, <3>2, AfterStep
    <2> QED BY <1>1, <2>1 DEF RequestInv, OkStored
<1>6. RefusedEarly'
    <2>1. ASSUME answer = "none", path[rpc].do = "refuse", Api!FailsEarly(path)
          PROVE  Api!Harmless(path, Len(path) + 1)
        BY <1>1, <2>1, AfterStep DEF Api!FailsEarly, Walked
    <2> QED BY <1>1, <2>1 DEF RequestInv, RefusedEarly, Api!Over
<1>7. SentAfter' /\ Admission'
    BY <1>1 DEF RequestInv, Admission, SentAfter
<1> QED BY <1>2, <1>4, <1>5, <1>6, <1>7 DEF RequestInv

(* A handler that returns early, or comes to its end.                       *)
LEMMA HarmlessIsKept ==
    ASSUME RequestTypes, NEW i \in Nat, NEW k \in Nat, i <= k, Api!Harmless(path, k),
           \A j \in stored \cup sent : j < i, \A j \in stored : Api!Durable(path, j, i)
    PROVE  OnlyRecords
<1>1. path \in Seq(Api!PathStep)
    BY PathsAreOrdered
<1>2. sent = {}
    <2> SUFFICES ASSUME NEW j \in sent PROVE FALSE
        OBVIOUS
    <2>1. j \in DOMAIN path /\ path[j].do = "send" /\ j < k
        BY <1>1 DEF RequestTypes
    <2> QED BY <2>1 DEF Api!Harmless, Api!Before
<1>3. ASSUME NEW j \in stored PROVE path[j].on \in Api!Records
    <2>1. j \in DOMAIN path /\ path[j].do = "write" /\ j < k
        BY <1>1, <1>3 DEF RequestTypes
    <2>2. Api!Durable(path, j, k)
        BY <1>1, <1>3, <2>1, DurableStays
    <2> QED BY <2>1, <2>2 DEF Api!Harmless, Api!Before
<1> QED BY <1>2, <1>3 DEF OnlyRecords

LEMMA RequestEnds ==
    ASSUME RequestInv, Api!Running, NEW keeps \in SUBSET (pending \cup {rpc}),
           path[rpc].fail # "logged", Api!runTxFunc(keeps), ~unsure' => ~unsure /\ keeps = {},
           path[rpc].do \notin {"ok", "refuse"}, rpc \in keeps => path[rpc].do = "write"
    PROVE  RequestInv'
<1>1. /\ UNCHANGED <<route, caller, path, sent>> /\ state = "running" /\ state' = "done" /\ depth' = 0 /\ pending' = {}
      /\ rpc' = Len(path) + 1 /\ stored' = stored \cup keeps
      /\ answer # "none" => answer' = answer
      /\ answer = "none" => answer' = IF path[rpc].fail = "mute" THEN "ok" ELSE "error"
    BY DEF Api!runTxFunc, Api!FirstAnswer, Api!step, Api!Running
<1>2. RequestTypes'
    BY <1>1, AfterStep DEF RequestInv, RequestTypes
<1>3. OkStored'
    BY <1>1, AfterStep DEF RequestInv, OkStored, Api!AnswersLast
<1>4. ASSUME Api!FailsEarly(path), answer' = "error", ~unsure' PROVE OnlyRecords'
    <2>1. stored' = stored /\ ~unsure /\ sent' = sent
        BY <1>1, <1>4
    <2>2. PICK k \in Nat : rpc <= k /\ Api!Harmless(path, k)
        <3>1. CASE answer = "none"
            <4>1. path[rpc] \in Api!PathStep
                BY AfterStep
            <4>2. path[rpc].fail \in {"told", "mute", "logged"}
                BY <4>1 DEF Api!PathStep
            <4>3. path[rpc].fail = "told"
                BY <1>1, <1>4, <3>1, <4>2
            <4>4. Api!Harmless(path, rpc)
                BY <1>4, <3>1, <4>3, AfterStep DEF Api!FailsEarly, Walked
            <4> QED BY <4>4, AfterStep
        <3>2. CASE answer # "none"
            <4>1. Api!Harmless(path, Len(path) + 1)
                BY <1>1, <1>4, <3>2 DEF RequestInv, RefusedEarly
            <4>2. Len(path) + 1 \in Nat /\ rpc <= Len(path) + 1
                BY AfterStep
            <4> QED BY <4>1, <4>2
        <3> QED BY <3>1, <3>2
    <2>3. \A j \in stored : Api!Durable(path, j, rpc)
        BY <1>1, <2>1 DEF RequestInv, Underway
    <2>4. OnlyRecords
        BY <2>2, <2>3, AfterStep, HarmlessIsKept DEF RequestInv
    <2> QED BY <1>1, <2>1, <2>4 DEF OnlyRecords
<1>5. RefusedEarly'
    BY <1>1, <1>4 DEF RefusedEarly
<1>6. SentAfter' /\ Admission' /\ Underway'
    BY <1>1 DEF RequestInv, Admission, SentAfter, Underway
<1> QED BY <1>2, <1>3, <1>5, <1>6 DEF RequestInv

(* A step whose failure is logged only; a write may have been carried out.  *)
LEMMA RequestGoesOn ==
    ASSUME RequestInv, Api!Running, NEW keeps \in SUBSET {rpc},
           path[rpc].fail = "logged", Api!runTxFunc(keeps), ~unsure' => ~unsure /\ keeps = {},
           path[rpc].do \notin {"ok", "refuse"}, rpc \in keeps => path[rpc].do = "write"
    PROVE  RequestInv'
<1>1. /\ UNCHANGED <<route, caller, path, sent, depth, pending, answer, state>>
      /\ rpc' = rpc + 1 /\ stored' = stored \cup keeps /\ state = "running"
    BY DEF Api!runTxFunc, Api!step, Api!Running
<1>2. RequestTypes'
    BY <1>1, AfterStep DEF RequestInv, RequestTypes
<1>3. rpc \in Nat
    BY AfterStep
<1>4. Underway'
    <2>1. /\ Api!DepthAt(path, rpc + 1) = depth
          /\ depth = 0 => pending = {}
          /\ answer = "none" => Walked(rpc + 1) = {}
        BY AfterStep
    <2>2. \A i \in pending \cup stored' \cup sent : i < rpc + 1
        BY <1>1, <1>2, <1>3, AfterStep DEF RequestTypes
    <2>3. \A j \in Api!Due(path) : j < rpc + 1 => j \in pending \cup stored'
        BY <1>1, <1>3, AfterStep DEF Api!Due
    <2>4. unsure' \/ \A j \in stored' : Api!Durable(path, j, rpc + 1)
        BY <1>1, AfterStep
    <2> QED BY <1>1, <2>1, <2>2, <2>3, <2>4 DEF Underway, Walked
<1>5. SentAfter' /\ Admission' /\ OkStored' /\ RefusedEarly'
    BY <1>1 DEF RequestInv, Admission, OkStored, RefusedEarly, SentAfter, Api!Over
<1> QED BY <1>2, <1>4, <1>5 DEF RequestInv

LEMMA RequestFails == ASSUME RequestInv, Api!Fails PROVE RequestInv'
<1>1. /\ Api!Running /\ Api!runTxFunc({}) /\ unsure' = unsure /\ path[rpc].do \notin {"ok", "refuse"}
    BY DEF Api!Fails, Api!step
<1>2. ~unsure' => ~unsure /\ {} = {}
    BY <1>1
<1>3. {} \in SUBSET (pending \cup {rpc}) /\ {} \in SUBSET {rpc} /\ rpc \notin {}
    OBVIOUS
<1> QED BY <1>1, <1>2, <1>3, RequestEnds, RequestGoesOn

LEMMA RequestAnswerLost == ASSUME RequestInv, Api!AnswerLost PROVE RequestInv'
<1>1. Api!Running /\ unsure' = TRUE
    BY DEF Api!AnswerLost
<1>2. CASE path[rpc].do = "write" /\ Api!runTxFunc({rpc})
    <2>1. {rpc} \in SUBSET (pending \cup {rpc}) /\ {rpc} \in SUBSET {rpc}
        OBVIOUS
    <2> QED BY <1>1, <1>2, <2>1, RequestEnds, RequestGoesOn
<1>3. CASE path[rpc].do = "commit" /\ Api!runTxFunc(pending)
    <2>1. path[rpc].fail # "logged" /\ rpc \notin pending
        BY <1>1, <1>3, AfterStep DEF RequestInv, RequestTypes
    <2>2. pending \in SUBSET (pending \cup {rpc})
        OBVIOUS
    <2> QED BY <1>1, <1>3, <2>1, <2>2, RequestEnds
<1> QED BY <1>2, <1>3 DEF Api!AnswerLost, Api!step

LEMMA RequestReturns == ASSUME RequestInv, Api!Return PROVE RequestInv'
<1>1. /\ UNCHANGED <<route, caller, path, rpc, depth, pending, stored, sent, unsure>>
      /\ state = "running" /\ rpc = Len(path) + 1 /\ state' = "done"
      /\ answer' = IF answer = "none" THEN "ok" ELSE answer
    BY DEF Api!Return, Api!FirstAnswer
<1>2. RequestTypes'
    BY <1>1 DEF RequestInv, RequestTypes
<1>3. path \in Seq(Api!PathStep) /\ Api!DepthAt(path, Len(path) + 1) = 0
    BY PathsAreOrdered DEF RequestInv, Api!Nests
<1>4. Len(path) + 1 \in Nat /\ Len(path) + 1 <= Len(path) + 1
    BY <1>3
<1>5. OkStored'
    <2>1. pending = {}
        BY <1>1, <1>3 DEF RequestInv, Underway
    <2>2. ASSUME NEW j \in Api!Due(path) PROVE j \in stored
        <3>1. j < rpc
            BY <1>1, <1>3 DEF Api!Due
        <3> QED BY <1>1, <2>1, <3>1 DEF RequestInv, Underway
    <2> QED BY <1>1, <2>2 DEF OkStored
<1>6. ASSUME answer' = "error", Api!FailsEarly(path), ~unsure PROVE OnlyRecords
    <2>1. Api!Harmless(path, Len(path) + 1)
        BY <1>1, <1>6 DEF RequestInv, RefusedEarly
    <2>2. /\ \A j \in stored \cup sent : j < Len(path) + 1
          /\ \A j \in stored : Api!Durable(path, j, Len(path) + 1)
        BY <1>1, <1>6 DEF RequestInv, Underway
    <2> QED BY <1>4, <2>1, <2>2, HarmlessIsKept DEF RequestInv
<1>7. RefusedEarly'
    BY <1>1, <1>6 DEF RefusedEarly, OnlyRecords
<1>8. SentAfter' /\ Admission' /\ Underway'
    BY <1>1 DEF RequestInv, Admission, SentAfter, Underway
<1> QED BY <1>2, <1>5, <1>7, <1>8 DEF RequestInv

LEMMA RequestCrashes == ASSUME RequestInv, Api!Crash PROVE RequestInv'
<1>1. /\ UNCHANGED <<route, caller, path, rpc, stored, sent, answer, unsure>>
      /\ state = "running" /\ state' = "crashed" /\ depth' = 0 /\ pending' = {}
    BY DEF Api!Crash
<1>2. RequestTypes'
    BY <1>1 DEF RequestInv, RequestTypes
<1>3. path \in Seq(Api!PathStep) /\ rpc \in Nat /\ Len(path) + 1 \in Nat /\ rpc <= Len(path) + 1
    BY PathsAreOrdered DEF RequestInv, RequestTypes
<1>4. ASSUME answer = "error", Api!FailsEarly(path), ~unsure PROVE OnlyRecords
    <2>1. Api!Harmless(path, Len(path) + 1)
        BY <1>1, <1>4 DEF RequestInv, RefusedEarly
    <2>2. (\A j \in stored \cup sent : j < rpc) /\ \A j \in stored : Api!Durable(path, j, rpc)
        BY <1>1, <1>4 DEF RequestInv, Underway
    <2> QED BY <1>3, <2>1, <2>2, HarmlessIsKept DEF RequestInv
<1>5. RefusedEarly'
    BY <1>1, <1>4 DEF RefusedEarly, OnlyRecords
<1>6. SentAfter' /\ Admission' /\ Underway' /\ OkStored'
    BY <1>1 DEF RequestInv, Admission, SentAfter, Underway, OkStored
<1> QED BY <1>2, <1>5, <1>6 DEF RequestInv

LEMMA RequestNext == ASSUME RequestInv, Api!Next PROVE RequestInv'
BY RequestAdmits, RequestCheckOrRead, RequestWriteRow, RequestCallOut, RequestBegin, RequestCommit,
   RequestResponds, RequestFails, RequestAnswerLost, RequestReturns, RequestCrashes DEF Api!Next

(* Where the walk has ended, the answer is true.                            *)
LEMMA RequestAnswersTrue ==
    ASSUME RequestInv
    PROVE  Api!OkMeansStored(Early, Mute) /\ Api!ErrorMeansUnchanged(Partial) /\ Api!SentIsStored(Ahead)
<1>1. Api!OkMeansStored(Early, Mute)
    BY PathsAreOrdered DEF RequestInv, OkStored, Api!OkMeansStored, Api!Is, Api!Demanded
<1>2. Api!ErrorMeansUnchanged(Partial)
    BY PathsAreOrdered DEF RequestInv, RefusedEarly, OnlyRecords, Api!ErrorMeansUnchanged, Api!Is
<1>3. Api!SentIsStored(Ahead)
    BY PathsAreOrdered DEF RequestInv, SentAfter, Api!SentIsStored, Api!Is, Api!Demanded
<1> QED BY <1>1, <1>2, <1>3

LEMMA RequestRolesHold == ASSUME RequestInv PROVE Api!RolesHold(Own, Supers, Theirs)
<1> SUFFICES ASSUME "Authentication" \in route.needs, stored # {} \/ sent # {}
             PROVE  Api!MayCall(route, caller, Own, Supers, Theirs)
    BY DEF Api!RolesHold
<1>1. Api!Passes(route, caller)
    BY DEF RequestInv, Admission
<1>2. \E i \in DOMAIN path : path[i].do \in {"write", "send"}
    BY DEF RequestInv, RequestTypes
<1> QED BY <1>1, <1>2, RoutesWritten DEF RequestInv, RequestTypes, Api!RoutesGuarded

-----------------------------------------------------------------------------
(* The platform as a whole.                                                 *)

LEMMA AgentsBegin == ASSUME MCInit PROVE DockerInv /\ HelmInv
BY DockerInit, HelmInit DEF MCInit

LEMMA AgentsContinue == ASSUME DockerInv, HelmInv, [MCNext]_mcVars PROVE DockerInv' /\ HelmInv'
<1>1. Docker!Next \/ UNCHANGED dockerVars
    BY DEF MCNext, mcVars
<1>2. Helm!Next \/ UNCHANGED helmVars
    BY DEF MCNext, mcVars
<1>3. ASSUME UNCHANGED dockerVars PROVE DockerInv'
    BY <1>3 DEF dockerVars, DockerInv, DockerTypes, Applying, ReadyRuns, Docker!TaskDeploymentsKept
<1>4. ASSUME UNCHANGED helmVars PROVE HelmInv'
    BY <1>4 DEF helmVars, HelmInv, HelmTypes, IdsGrow, RecordTrusted, KnownTrusted, Trusted, ChecksHold,
               Helm!HealthyExplained
<1> QED BY <1>1, <1>2, <1>3, <1>4, DockerNext, HelmNext

RequestsInv == part = "requests" => RequestInv
LEMMA RequestsBegin == ASSUME MCInit PROVE RequestsInv
BY RequestBegins DEF MCInit, RequestsInv

LEMMA RequestsContinue == ASSUME RequestsInv, [MCNext]_mcVars PROVE RequestsInv'
<1>1. part' = part
    BY DEF MCNext, mcVars
<1>2. part = "requests" => Api!Next \/ UNCHANGED requestVars
    BY DEF MCNext, mcVars
<1>3. ASSUME RequestInv, UNCHANGED requestVars PROVE RequestInv'
    BY <1>3 DEF requestVars, RequestInv, RequestTypes, Underway, Walked, Admission, OkStored, RefusedEarly,
                OnlyRecords, SentAfter, Api!Over
<1> QED BY <1>1, <1>2, <1>3, RequestNext DEF RequestsInv

(***************************************************************************)
(* The records of both agents tell the truth: a deployment that is left     *)
(* alone runs what its record says, what tasks deployed stays, and a        *)
(* release that is reported as healthy runs what is wanted or what Helm     *)
(* went back to (cmd/agent/docker/main.go, cmd/agent/kubernetes/main.go).   *)
(***************************************************************************)
THEOREM RecordsTellTheTruth == MCSpec => []LeftAloneMeansRunning
<1> DEFINE Inv == DockerInv /\ HelmInv
<1>1. MCInit => Inv
    BY AgentsBegin
<1>2. Inv /\ [MCNext]_mcVars => Inv'
    BY AgentsContinue
<1>3. Inv => LeftAloneMeansRunning
    BY DockerLeftAlone DEF DockerInv, HelmInv, LeftAloneMeansRunning
<1> HIDE DEF Inv
<1> QED BY <1>1, <1>2, <1>3, PTL DEF MCSpec

(***************************************************************************)
(* The registry is whole: pushes, deletions, entitlements, pulls, syncs and *)
(* clean-ups in any order (internal/registry, internal/db/artifacts.go,     *)
(* internal/cleanup/artifact_blobs.go).                                     *)
(***************************************************************************)
THEOREM RegistryIsWhole == MCSpec => []RegistrySafe
<1>1. MCInit => RegistryInv
    BY RegistryBegins
<1>2. RegistryInv /\ [MCNext]_mcVars => RegistryInv'
    BY RegistryContinues
<1>3. RegistryInv => RegistrySafe
    BY RegistryHolds
<1> QED BY <1>1, <1>2, <1>3, PTL DEF MCSpec

(***************************************************************************)
(* What others have put in place is not replaced: a release that somebody   *)
(* has upgraded by hand, unless that came between a check of the agent and  *)
(* its use, and a tag that has been pushed (cmd/agent/kubernetes/           *)
(* helm_actions.go, internal/registry/manifest/db/handler.go).              *)
(***************************************************************************)
THEOREM OthersAreRespected == MCSpec => ForeignChangesKept
<1> DEFINE Inv == DockerInv /\ HelmInv /\ RegistryInv
           Release == release # Helm!None /\ release' # Helm!None /\ ~IgnoreSkew
                        => ~(release.by = "foreign" /\ release'.by = "agent" /\ ~raced)
<1>1. MCInit => Inv
    BY AgentsBegin, RegistryBegins
<1>2. Inv /\ [MCNext]_mcVars => Inv'
    BY AgentsContinue, RegistryContinues
<1>3. Inv /\ [MCNext]_mcVars => [Release]_(Helm!vars)
    <2> SUFFICES ASSUME HelmInv, [MCNext]_mcVars PROVE Release \/ UNCHANGED Helm!vars
        OBVIOUS
    <2>1. Helm!Next \/ UNCHANGED helmVars
        BY DEF MCNext, mcVars
    <2>2. ASSUME Helm!Next PROVE Release
        BY <2>2, HelmKeepsForeign
    <2> QED BY <2>1, <2>2 DEF helmVars, Helm!vars
<1>4. Inv /\ [MCNext]_mcVars => [part = "push" => RegPush!PushedTagKept]_registryVars
    <2> SUFFICES ASSUME RegistryInv, [MCNext]_mcVars, part = "push"
                 PROVE  RegPush!PushedTagKept \/ UNCHANGED registryVars
        OBVIOUS
    <2>1. RegPush!Next \/ UNCHANGED registryVars
        BY DEF MCNext, mcVars, RegPush!Next
    <2>2. ASSUME RegPush!Next PROVE RegPush!PushedTagKept
        BY <2>2, PushConstants, RegPush!InvKeepsTags DEF RegistryInv
    <2> QED BY <2>1, <2>2
<1> HIDE DEF Inv
<1> QED BY <1>1, <1>2, <1>3, <1>4, PTL DEF MCSpec, ForeignChangesKept, Helm!ForeignChangesKept

(***************************************************************************)
(* What the API answers is true, whatever fails and whenever, for every     *)
(* table of routes whose handlers answer after their writes, write after    *)
(* what may fail and send outside of transactions, but for the handlers     *)
(* that are named (internal/handlers, internal/db/tx.go).                   *)
(***************************************************************************)
THEOREM AnswersAreTrue == MCSpec => []AnswersTrue
<1>1. MCInit => RequestsInv
    BY RequestsBegin
<1>2. RequestsInv /\ [MCNext]_mcVars => RequestsInv'
    BY RequestsContinue
<1>3. RequestsInv => AnswersTrue
    BY RequestAnswersTrue DEF RequestsInv, AnswersTrue
<1> QED BY <1>1, <1>2, <1>3, PTL DEF MCSpec

(***************************************************************************)
(* Nothing is written or sent by a request that its middlewares have not    *)
(* all let through; so viewers, super admins and customers change nothing   *)
(* but what is listed (internal/routing/routing.go, internal/middleware).   *)
(***************************************************************************)
THEOREM RolesAreHeld == MCSpec => []RolesHold
<1>1. MCInit => RequestsInv
    BY RequestsBegin
<1>2. RequestsInv /\ [MCNext]_mcVars => RequestsInv'
    BY RequestsContinue
<1>3. RequestsInv => RolesHold
    BY RequestRolesHold DEF RequestsInv, RolesHold
<1> QED BY <1>1, <1>2, <1>3, PTL DEF MCSpec
=============================================================================
