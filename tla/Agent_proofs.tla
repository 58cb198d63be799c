---------------------------- MODULE Agent_proofs ----------------------------
(***************************************************************************)
(* Proofs about the agents.  About AgentWorker, for every set of plans,     *)
(* steps, actions and attempts: the agent may die anywhere and every answer *)
(* may be lost.  About the actions of the Docker agent: the one-shot OCI    *)
(* job runs at most once, for any number of attempts, with and without      *)
(* secrets; the file render keeps files whole, private and backed up for    *)
(* any number of executions, crashes and foreign files; and a webhook stays *)
(* within its limits, dials checked addresses only and leaves a trail that  *)
(* tells what happened.                                                     *)
(***************************************************************************)
EXTENDS AgentWorker, Tasks_proofs, OciJob, FileRender, WebhookRun, FiniteSetTheorems


-----------------------------------------------------------------------------
(* The worker: the inductive invariant.                                     *)

Place ==
    [pc: {"poll", "next", "replay", "start", "run", "post", "fail", "succeed"},
     task: Task \cup {NoTask},
     attempt: Nat,
     todo: SUBSET Step,
     step: Step \cup {NoStep},
     sequence: Nat,
     tries: Nat]

(***************************************************************************)
(* What the agent's place w says about the timelines ev, the requests sn    *)
(* and the deployments ap: success is reported for work that was done, and  *)
(* a request about to be sent has a progress event of its own.              *)
(***************************************************************************)
Sound(w, ev, sn, ap) ==
    /\ w.pc # "poll" => w.task \in Task /\ w.attempt \in Attempt
    /\ w.pc \notin {"poll", "next"} => w.step \in Step
    /\ w.pc = "succeed" => w.attempt \in ap[w.task][w.step]
    /\ w.pc = "post" =>
          sn[w.task][w.step][w.attempt] < Announced(ev[w.task][w.step][w.attempt])

AgentRows ==
    /\ sent \in [Task -> [Step -> [Attempt -> Nat]]]
    /\ applied \in [Task -> [Step -> SUBSET Attempt]]

AgentInv ==
    /\ LeaseTypeOK /\ AgentRows
    /\ work \in Place /\ Sound(work, events, sent, applied)
    /\ SuccessWasCarriedOut /\ RequestsAnnounced

-----------------------------------------------------------------------------
(* Facts about timelines and places.                                        *)

LEMMA ProgressIsFinite ==
    ASSUME NEW ev \in Seq(EventType)
    PROVE  IsFiniteSet({i \in DOMAIN ev : ev[i] = "PROGRESS"})
<1>1. DOMAIN ev = 1..Len(ev) /\ Len(ev) \in Nat
  OBVIOUS
<1>2. IsFiniteSet(1..Len(ev))
  BY <1>1, FS_Interval
<1>. QED  BY <1>1, <1>2, FS_Subset

LEMMA AnnouncedIsNumber == \A ev \in Seq(EventType) : Announced(ev) \in Nat
  BY ProgressIsFinite, FS_CardinalityType DEF Announced

(* A timeline that grows by one event.                                      *)
LEMMA AnnouncedGrows ==
    ASSUME NEW ev \in Seq(EventType), NEW ty \in EventType
    PROVE  /\ Announced(Append(ev, ty)) =
                 IF ty = "PROGRESS" THEN Announced(ev) + 1 ELSE Announced(ev)
           /\ Has(Append(ev, ty), "SUCCEEDED") => ty = "SUCCEEDED" \/ Has(ev, "SUCCEEDED")
<1>. DEFINE long == Append(ev, ty)
            old == {i \in DOMAIN ev : ev[i] = "PROGRESS"}
            new == {i \in DOMAIN long : long[i] = "PROGRESS"}
            last == Len(ev) + 1
<1>1. /\ DOMAIN ev = 1..Len(ev) /\ Len(ev) \in Nat
      /\ DOMAIN long = 1..last /\ long[last] = ty
      /\ \A i \in 1..Len(ev) : long[i] = ev[i]
  OBVIOUS
<1>2. last \notin old
  BY <1>1
<1>3. IsFiniteSet(old)
  BY ProgressIsFinite
<1>. HIDE DEF long, last
<1>4. Announced(ev) = Cardinality(old) /\ Announced(long) = Cardinality(new)
  BY DEF Announced
<1>5. ASSUME Has(long, "SUCCEEDED") PROVE ty = "SUCCEEDED" \/ Has(ev, "SUCCEEDED")
  <2>1. PICK i \in DOMAIN long : long[i] = "SUCCEEDED"
    BY <1>5 DEF Has
  <2>2. i = last \/ i \in DOMAIN ev
    BY <1>1, <2>1 DEF last
  <2>. QED  BY <1>1, <2>1, <2>2 DEF Has
<1>6. CASE ty = "PROGRESS"
  <2>1. new = old \cup {last}
    BY <1>1, <1>6 DEF last
  <2>2. Cardinality(old \cup {last}) = Cardinality(old) + 1
    BY <1>2, <1>3, FS_AddElement
  <2>. QED  BY <1>6, <1>4, <1>5, <2>1, <2>2 DEF long
<1>7. CASE ty # "PROGRESS"
  <2>1. new = old
    BY <1>1, <1>7 DEF last
  <2>. QED  BY <1>7, <1>4, <1>5, <2>1 DEF long
<1>. QED  BY <1>6, <1>7

LEMMA PollingIsSound ==
    ASSUME NEW ev, NEW sn, NEW ap
    PROVE  Polling \in Place /\ Sound(Polling, ev, sn, ap) /\ Polling.pc = "poll"
  BY DEF Polling, Place, Sound

(* Places that differ from the current one in pc, and in the sequence.      *)
LEMMA Places ==
    ASSUME work \in Place, NEW where \in {"next", "start", "run", "post", "fail", "succeed"}, NEW w,
           w \in {With(where), Spent(where)}
    PROVE  /\ w \in Place /\ w.pc = where
           /\ w.task = T /\ w.step = S /\ w.attempt = A
<1>1. /\ With(where) \in Place /\ With(where).pc = where
      /\ With(where).task = T /\ With(where).step = S /\ With(where).attempt = A
  BY DEF With, Place, T, S, A
<1>2. ASSUME NEW x \in Place
      PROVE  /\ [x EXCEPT !.sequence = @ + 1] \in Place
             /\ [x EXCEPT !.sequence = @ + 1].pc = x.pc
             /\ [x EXCEPT !.sequence = @ + 1].task = x.task
             /\ [x EXCEPT !.sequence = @ + 1].step = x.step
             /\ [x EXCEPT !.sequence = @ + 1].attempt = x.attempt
  <2>1. x.sequence + 1 \in Nat
    BY DEF Place
  <2>. QED  BY <2>1 DEF Place
<1>3. /\ Spent(where) \in Place /\ Spent(where).pc = where
      /\ Spent(where).task = T /\ Spent(where).step = S /\ Spent(where).attempt = A
  BY <1>1, <1>2 DEF Spent
<1>. QED  BY <1>1, <1>3

-----------------------------------------------------------------------------
(* Every step of the agent is one the hub allows.                           *)

LEMMA AgentNextAllowed == AgentInv /\ [AgentNext]_agentVars => [Next]_vars
<1>. SUFFICES ASSUME AgentInv, [AgentNext]_agentVars PROVE [Next]_vars
  OBVIOUS
<1>1. /\ work.pc # "poll" => T \in Task /\ A \in Attempt
      /\ work.pc \notin {"poll", "next"} => S \in Step
  BY DEF AgentInv, Sound, T, S, A
<1>2. ASSUME work.pc \notin {"poll", "next"}, NEW n, NEW ty \in EventType, NEW success, NEW err,
             recordStepEvent(n, ty, success, err)
      PROVE  [Next]_vars
  BY <1>1, <1>2 DEF recordStepEvent, NoCall, Next
<1>3. CASE StartStep \/ updateStatus \/ emitProgress
  BY <1>2, <1>3 DEF StartStep, updateStatus, emitProgress, At, EventType
<1>4. CASE recordFailure \/ RecordSuccess
  BY <1>2, <1>4 DEF recordFailure, RecordSuccess, At, EventType
<1>5. ASSUME NEW t \in Task, Poll(t) PROVE [Next]_vars
  BY <1>5 DEF Poll, Next, Executor
<1>6. CASE \/ \E s \in Step : HeartbeatTaskLease(s)
           \/ LeaseExecuted \/ webhookReplayResult \/ apply \/ PostWebhook
           \/ startTaskLeaseHeartbeat \/ Crash
  BY <1>6 DEF HeartbeatTaskLease, LeaseExecuted, webhookReplayResult, apply, PostWebhook,
     startTaskLeaseHeartbeat, Crash, NoCall
<1>7. CASE HubStep
  BY <1>7 DEF HubStep, Next
<1>8. CASE UNCHANGED agentVars
  BY <1>8 DEF agentVars
<1>. QED  BY <1>3, <1>4, <1>5, <1>6, <1>7, <1>8 DEF AgentNext, AgentStep

-----------------------------------------------------------------------------
(* The invariant is kept.                                                   *)

(* The agent's rows after a step, types aside.                              *)
RowsKept ==
    /\ AgentRows' /\ work' \in Place /\ Sound(work', events', sent', applied')
    /\ SuccessWasCarriedOut' /\ RequestsAnnounced'

(* Nothing is recorded, sent or deployed.                                   *)
LEMMA QuietKeeps ==
    ASSUME AgentInv, UNCHANGED <<events, sent, applied>>, work' \in Place,
           Sound(work', events, sent, applied)
    PROVE  RowsKept
  BY DEF AgentInv, RowsKept, AgentRows, SuccessWasCarriedOut, RequestsAnnounced

(* An event is recorded for the step at hand.                               *)
LEMMA RecordKeeps ==
    ASSUME AgentInv, NEW n, NEW ty \in EventType, NEW success, NEW err,
           recordStepEvent(n, ty, success, err), UNCHANGED <<sent, applied>>,
           work.pc \notin {"poll", "next"}, success \in Place, err \in Place,
           ty = "SUCCEEDED" => work.pc = "succeed",
           success = Polling \/ (/\ success.pc \in {"run", "fail", "post", "next"}
                                 /\ success.task = T /\ success.step = S /\ success.attempt = A
                                 /\ success.pc = "post" => ty = "PROGRESS"),
           err = Polling \/ (/\ err.pc = "fail"
                             /\ err.task = T /\ err.step = S /\ err.attempt = A)
    PROVE  RowsKept
<1>1. /\ T \in Task /\ A \in Attempt /\ S \in Step /\ Attempt \subseteq Nat
      /\ work.pc = "succeed" => A \in applied[T][S]
  BY AttemptsAreNumbers DEF AgentInv, Sound, T, S, A
<1>2. Sound(err, events, sent, applied) /\ Sound(err, events', sent, applied)
  BY <1>1, PollingIsSound DEF Sound
<1>3. CASE NoCall /\ work' = err
  <2>1. UNCHANGED events
    BY <1>3 DEF NoCall, vars, leaseVars
  <2>. QED  BY <1>2, <1>3, <2>1, QuietKeeps
<1>4. CASE RecordStepRunEvent(T, S, A, n, ty) /\ work' \in {success, err}
  <2>1. /\ events \in [Task -> [Step -> [Attempt -> Seq(EventType)]]]
        /\ events' = [events EXCEPT ![T][S][A] = Append(@, ty)]
    BY <1>4 DEF RecordStepRunEvent, AgentInv, LeaseTypeOK
  <2>2. /\ events[T][S][A] \in Seq(EventType)
        /\ events'[T][S][A] = Append(events[T][S][A], ty)
        /\ \A u \in Task, r \in Step, b \in Attempt :
              ~(u = T /\ r = S /\ b = A) => events'[u][r][b] = events[u][r][b]
    BY <1>1, <2>1
  <2>0. /\ sent[T][S][A] \in Nat /\ sent[T][S][A] <= Announced(events[T][S][A])
        /\ Announced(events[T][S][A]) \in Nat
    BY <1>1, <2>2, AnnouncedIsNumber DEF AgentInv, AgentRows, RequestsAnnounced
  <2>3. /\ Announced(events'[T][S][A]) =
              IF ty = "PROGRESS" THEN Announced(events[T][S][A]) + 1
                                 ELSE Announced(events[T][S][A])
        /\ Has(events'[T][S][A], "SUCCEEDED")
              => ty = "SUCCEEDED" \/ Has(events[T][S][A], "SUCCEEDED")
    BY <2>2, AnnouncedGrows
  <2>4. RequestsAnnounced'
    <3>. SUFFICES ASSUME NEW u \in Task, NEW r \in Step, NEW b \in Attempt
                  PROVE  sent'[u][r][b] <= Announced(events'[u][r][b])
      BY DEF RequestsAnnounced, Announced
    <3>1. CASE u = T /\ r = S /\ b = A
      BY <2>0, <2>3, <3>1
    <3>2. CASE ~(u = T /\ r = S /\ b = A)
      BY <2>2, <3>2 DEF AgentInv, RequestsAnnounced
    <3>. QED  BY <3>1, <3>2
  <2>5. SuccessWasCarriedOut'
    <3>. SUFFICES ASSUME NEW u \in Task, NEW r \in Step, NEW b \in Attempt,
                         Has(events'[u][r][b], "SUCCEEDED")
                  PROVE  b \in applied'[u][r]
      BY DEF SuccessWasCarriedOut, Has
    <3>1. CASE u = T /\ r = S /\ b = A
      BY <1>1, <2>3, <3>1 DEF AgentInv, SuccessWasCarriedOut
    <3>2. CASE ~(u = T /\ r = S /\ b = A)
      BY <2>2, <3>2 DEF AgentInv, SuccessWasCarriedOut
    <3>. QED  BY <3>1, <3>2
  <2>6. Sound(success, events', sent, applied)
    <3>1. CASE success = Polling
      BY <3>1, PollingIsSound
    <3>2. CASE success # Polling
      BY <1>1, <2>0, <2>3, <3>2 DEF Sound
    <3>. QED  BY <3>1, <3>2
  <2>7. work' \in Place /\ Sound(work', events', sent', applied')
    BY <1>2, <1>4, <2>6
  <2>. QED  BY <2>4, <2>5, <2>7 DEF RowsKept, AgentInv, AgentRows
<1>. QED  BY <1>3, <1>4 DEF recordStepEvent

(* Place is done, a request perhaps sent, and nothing recorded.              *)
LEMMA EffectKeeps ==
    ASSUME AgentInv, NoCall, work.pc \in {"run", "post"}, work' \in Place,
           work'.task = T /\ work'.step = S /\ work'.attempt = A,
           work'.pc \in {"run", "succeed", "fail"},
           applied' = applied \/ applied' = [applied EXCEPT ![T][S] = @ \cup {A}],
           work'.pc = "succeed" => applied' = [applied EXCEPT ![T][S] = @ \cup {A}],
           \/ sent' = sent
           \/ work.pc = "post" /\ sent' = [sent EXCEPT ![T][S][A] = @ + 1]
    PROVE  RowsKept
<1>1. /\ T \in Task /\ A \in Attempt /\ S \in Step
      /\ work.pc = "post" => sent[T][S][A] < Announced(events[T][S][A])
      /\ events \in [Task -> [Step -> [Attempt -> Seq(EventType)]]]
      /\ sent \in [Task -> [Step -> [Attempt -> Nat]]]
      /\ applied \in [Task -> [Step -> SUBSET Attempt]]
  BY DEF AgentInv, AgentRows, LeaseTypeOK, Sound, T, S, A
<1>2. events' = events
  BY DEF NoCall, vars, leaseVars
<1>3. /\ applied' \in [Task -> [Step -> SUBSET Attempt]]
      /\ \A u \in Task, r \in Step : applied[u][r] \subseteq applied'[u][r]
      /\ work'.pc = "succeed" => A \in applied'[T][S]
  <2>1. CASE applied' = applied /\ work'.pc # "succeed"
    BY <1>1, <2>1
  <2>2. CASE applied' = [applied EXCEPT ![T][S] = @ \cup {A}]
    <3>1. applied[T][S] \cup {A} \in SUBSET Attempt
      BY <1>1
    <3>2. [applied[T] EXCEPT ![S] = @ \cup {A}] \in [Step -> SUBSET Attempt]
      BY <1>1, <3>1
    <3>. QED  BY <1>1, <2>2, <3>2
  <2>. QED  BY <2>1, <2>2
<1>4. sent' \in [Task -> [Step -> [Attempt -> Nat]]] /\ RequestsAnnounced'
  <2>1. CASE sent' = sent
    BY <1>1, <1>2, <2>1 DEF AgentInv, RequestsAnnounced, Announced
  <2>2. CASE work.pc = "post" /\ sent' = [sent EXCEPT ![T][S][A] = @ + 1]
    <3>1. sent[T][S][A] \in Nat /\ Announced(events[T][S][A]) \in Nat
      <4>1. events[T][S][A] \in Seq(EventType)
        BY <1>1
      <4>. QED  BY <1>1, <4>1, AnnouncedIsNumber
    <3>2. [sent[T][S] EXCEPT ![A] = @ + 1] \in [Attempt -> Nat]
      BY <1>1, <3>1
    <3>3. [sent[T] EXCEPT ![S][A] = @ + 1] \in [Step -> [Attempt -> Nat]]
      BY <1>1, <3>2
    <3>4. sent' \in [Task -> [Step -> [Attempt -> Nat]]]
      BY <1>1, <2>2, <3>3
    <3>. SUFFICES ASSUME NEW u \in Task, NEW r \in Step, NEW b \in Attempt
                  PROVE  sent'[u][r][b] <= Announced(events'[u][r][b])
      BY <3>4 DEF RequestsAnnounced, Announced
    <3>5. CASE u = T /\ r = S /\ b = A
      <4>1. sent'[u][r][b] = sent[T][S][A] + 1
        BY <1>1, <2>2, <3>5
      <4>. QED  BY <1>1, <1>2, <2>2, <3>1, <3>5, <4>1
    <3>6. CASE ~(u = T /\ r = S /\ b = A)
      <4>1. sent'[u][r][b] = sent[u][r][b]
        BY <1>1, <2>2, <3>6
      <4>. QED  BY <1>2, <4>1 DEF AgentInv, RequestsAnnounced
    <3>. QED  BY <3>5, <3>6
  <2>. QED  BY <2>1, <2>2
<1>5. SuccessWasCarriedOut'
  BY <1>2, <1>3 DEF AgentInv, SuccessWasCarriedOut, Has
<1>6. Sound(work', events', sent', applied')
  BY <1>1, <1>3 DEF Sound
<1>. QED  BY <1>3, <1>4, <1>5, <1>6 DEF RowsKept, AgentRows

LEMMA AgentNextKeeps == AgentInv /\ [AgentNext]_agentVars => RowsKept
<1>. SUFFICES ASSUME AgentInv, [AgentNext]_agentVars PROVE RowsKept
  OBVIOUS
<1>0. work \in Place /\ Sound(work, events, sent, applied) /\ Attempt \subseteq Nat
  BY AttemptsAreNumbers DEF AgentInv
<1>1. /\ work.pc # "poll" => T \in Task /\ A \in Attempt
      /\ work.pc \notin {"poll", "next"} => S \in Step
  BY <1>0 DEF Sound, T, S, A
<1>2. Polling \in Place /\ Sound(Polling, events, sent, applied)
  BY PollingIsSound
<1>3. ASSUME NoCall PROVE UNCHANGED events
  BY <1>3 DEF NoCall, vars, leaseVars
<1>4. ASSUME NEW t \in Task, Poll(t) PROVE RowsKept
  <2>1. UNCHANGED <<events, sent, applied>>
    BY <1>4 DEF Poll, NoEffect, LeaseTask, ClaimQueuedTask, ReclaimRunningTask,
       ReleaseExpiredLease
  <2>2. CASE UNCHANGED work
    BY <1>0, <2>1, <2>2, QuietKeeps
  <2>3. CASE Begins(t)
    <3>. DEFINE batch == readyTaskLeaseStepCandidates(stepStatus'[t], "target")
    <3>1. PICK a \in Attempt : work' = [Polling EXCEPT !.pc = "next", !.task = t, !.attempt = a,
                                          !.todo = batch]
      BY <2>3 DEF Begins
    <3>2. batch \in SUBSET Step
      BY StepAssumption DEF readyTaskLeaseStepCandidates, Batch
    <3>. HIDE DEF batch
    <3>3. work' \in Place /\ work'.pc = "next" /\ work'.task = t /\ work'.attempt = a
      BY <1>0, <1>2, <3>1, <3>2 DEF Place
    <3>4. Sound(work', events, sent, applied)
      BY <3>3 DEF Sound
    <3>. QED  BY <2>1, <3>3, <3>4, QuietKeeps
  <2>. QED  BY <1>4, <2>2, <2>3 DEF Poll
<1>5. ASSUME NoCall, NoEffect, work' = Polling PROVE RowsKept
  BY <1>2, <1>3, <1>5, QuietKeeps DEF NoEffect
<1>6. ASSUME NEW s \in Step, HeartbeatTaskLease(s) PROVE RowsKept
  <2>1. work.pc = "next" /\ NoCall /\ NoEffect
    BY <1>6 DEF HeartbeatTaskLease, At
  <2>2. CASE work' = [work EXCEPT !.pc = IF ActionType[s] = "webhook" THEN "replay" ELSE "start",
                        !.step = s, !.todo = @ \ {s}, !.sequence = 0, !.tries = 0]
    <3>. DEFINE where == IF ActionType[s] = "webhook" THEN "replay" ELSE "start"
                rest == work.todo \ {s}
    <3>1. rest \in SUBSET Step /\ where \in {"replay", "start"}
      BY <1>0 DEF Place
    <3>2. work' = [work EXCEPT !.pc = where, !.step = s, !.todo = rest, !.sequence = 0, !.tries = 0]
      BY <1>0, <2>2 DEF Place
    <3>. HIDE DEF where, rest
    <3>3. /\ work' \in Place /\ work'.pc = where /\ work'.step = s
          /\ work'.task = T /\ work'.attempt = A
      BY <1>0, <3>1, <3>2 DEF Place, T, A
    <3>4. Sound(work', events, sent, applied)
      BY <1>1, <2>1, <3>1, <3>3 DEF Sound
    <3>. QED  BY <1>3, <2>1, <3>3, <3>4, QuietKeeps DEF NoEffect
  <2>. QED  BY <1>5, <1>6, <2>1, <2>2 DEF HeartbeatTaskLease
<1>7. CASE LeaseExecuted \/ Crash
  BY <1>5, <1>7 DEF LeaseExecuted, Crash
(* Going somewhere without a call and without an effect.                    *)
<1>8. ASSUME NEW where \in {"start", "next", "fail"}, work.pc \notin {"poll", "next"},
             work' = With(where), NoCall, NoEffect
      PROVE  RowsKept
  <2>1. /\ work' \in Place /\ work'.pc = where
        /\ work'.task = T /\ work'.step = S /\ work'.attempt = A
    BY <1>0, <1>8, Places
  <2>2. Sound(work', events, sent, applied)
    BY <1>1, <1>8, <2>1 DEF Sound
  <2>. QED  BY <1>3, <1>8, <2>1, <2>2, QuietKeeps DEF NoEffect
<1>9. CASE webhookReplayResult
  BY <1>5, <1>8, <1>9 DEF webhookReplayResult, At
<1>10. CASE startTaskLeaseHeartbeat
  BY <1>8, <1>10 DEF startTaskLeaseHeartbeat
<1>11. CASE StartStep
  <2>1. PICK where \in {"run", "fail"} : recordStepEvent(1, "STARTED", Spent(where), Polling)
    BY <1>11 DEF StartStep
  <2>2. /\ Spent(where) \in Place /\ Spent(where).pc = where
        /\ Spent(where).task = T /\ Spent(where).step = S /\ Spent(where).attempt = A
    BY <1>0, Places
  <2>3. work.pc = "start" /\ UNCHANGED <<sent, applied>> /\ "STARTED" \in EventType
    BY <1>11 DEF StartStep, At, NoEffect, EventType
  <2>. QED  BY <1>2, <2>1, <2>2, <2>3, RecordKeeps
<1>12. CASE updateStatus
  <2>1. /\ work.pc = "run" /\ UNCHANGED <<sent, applied>> /\ "PROGRESS" \in EventType
        /\ recordStepEvent(work.sequence + 1, "PROGRESS", Spent("run"), Polling)
    BY <1>12 DEF updateStatus, At, NoEffect, EventType
  <2>2. /\ Spent("run") \in Place /\ Spent("run").pc = "run"
        /\ Spent("run").task = T /\ Spent("run").step = S /\ Spent("run").attempt = A
    BY <1>0, Places
  <2>. QED  BY <1>2, <2>1, <2>2, RecordKeeps
<1>13. CASE emitProgress
  <2>1. /\ work.pc = "run" /\ UNCHANGED <<sent, applied>> /\ "PROGRESS" \in EventType
        /\ recordStepEvent(work.sequence + 1, "PROGRESS", Spent("post"), Spent("fail"))
    BY <1>13 DEF emitProgress, At, NoEffect, EventType
  <2>2. /\ Spent("post") \in Place /\ Spent("post").pc = "post"
        /\ Spent("post").task = T /\ Spent("post").step = S /\ Spent("post").attempt = A
    BY <1>0, Places
  <2>3. /\ Spent("fail") \in Place /\ Spent("fail").pc = "fail"
        /\ Spent("fail").task = T /\ Spent("fail").step = S /\ Spent("fail").attempt = A
    BY <1>0, Places
  <2>. QED  BY <2>1, <2>2, <2>3, RecordKeeps
<1>14. CASE recordFailure
  <2>1. /\ work.pc = "fail" /\ UNCHANGED <<sent, applied>> /\ "FAILED" \in EventType
        /\ recordStepEvent(work.sequence + 1, "FAILED", Polling, Polling)
    BY <1>14 DEF recordFailure, At, NoEffect, EventType
  <2>. QED  BY <1>2, <2>1, RecordKeeps
<1>15. CASE RecordSuccess
  <2>1. /\ work.pc = "succeed" /\ UNCHANGED <<sent, applied>> /\ "SUCCEEDED" \in EventType
        /\ recordStepEvent(work.sequence + 1, "SUCCEEDED", With("next"), Polling)
    BY <1>15 DEF RecordSuccess, At, NoEffect, EventType
  <2>2. /\ With("next") \in Place /\ With("next").pc = "next"
        /\ With("next").task = T /\ With("next").step = S /\ With("next").attempt = A
    BY <1>0, Places
  <2>. QED  BY <1>2, <2>1, <2>2, RecordKeeps
<1>16. ASSUME NEW where \in {"succeed", "fail"}
       PROVE  /\ With(where) \in Place /\ With(where).pc = where
              /\ With(where).task = T /\ With(where).step = S /\ With(where).attempt = A
  BY <1>0, Places
<1>17. CASE apply
  <2>1. /\ work.pc = "run" /\ NoCall /\ sent' = sent
        /\ \/ applied' = [applied EXCEPT ![T][S] = @ \cup {A}] /\ work' = With("succeed")
           \/ applied' = applied /\ work' = With("fail")
    BY <1>17 DEF apply, At
  <2>. QED  BY <1>16, <2>1, EffectKeeps
<1>18. CASE PostWebhook
  <2>1. work.pc = "post" /\ NoCall /\ sent' = [sent EXCEPT ![T][S][A] = @ + 1]
    BY <1>18 DEF PostWebhook, At
  <2>2. CASE applied' = [applied EXCEPT ![T][S] = @ \cup {A}] /\ work' = With("succeed")
    BY <1>16, <2>1, <2>2, EffectKeeps
  <2>3. CASE applied' = applied /\ work' = With("fail")
    BY <1>16, <2>1, <2>3, EffectKeeps
  <2>4. CASE work' = [With("run") EXCEPT !.tries = @ + 1] /\ applied' = applied
    <3>. DEFINE w == With("run")
    <3>1. /\ w \in Place /\ w.pc = "run" /\ w.task = T /\ w.step = S /\ w.attempt = A
      BY <1>0, Places
    <3>2. work' = [w EXCEPT !.tries = @ + 1]
      BY <2>4
    <3>. HIDE DEF w
    <3>3. w.tries + 1 \in Nat
      BY <3>1 DEF Place
    <3>4. /\ work' \in Place /\ work'.pc = "run"
          /\ work'.task = T /\ work'.step = S /\ work'.attempt = A
      BY <3>1, <3>2, <3>3 DEF Place
    <3>. QED  BY <2>1, <2>4, <3>4, EffectKeeps
  <2>. QED  BY <1>18, <2>2, <2>3, <2>4 DEF PostWebhook
<1>19. CASE HubStep
  <2>1. UNCHANGED <<events, work, sent, applied>>
    BY <1>19 DEF HubStep, CreatePlanTasks, StartTaskByHand, FinishTaskByHand, LeaseExpires,
       leaseVars
  <2>. QED  BY <1>0, <2>1, QuietKeeps
<1>20. CASE UNCHANGED agentVars
  BY <1>0, <1>20, QuietKeeps DEF agentVars, vars, leaseVars
<1>. QED
  BY <1>4, <1>6, <1>7, <1>9, <1>10, <1>11, <1>12, <1>13, <1>14, <1>15, <1>17, <1>18, <1>19, <1>20
     DEF AgentNext, AgentStep

-----------------------------------------------------------------------------
(* The theorems.                                                            *)

LEMMA AgentInvInit == AgentInit => AgentInv
<1>. SUFFICES ASSUME AgentInit PROVE AgentInv
  OBVIOUS
<1>1. LeaseTypeOK
  BY LeaseTypeInit DEF AgentInit
<1>2. /\ work = Polling
      /\ sent = [t \in Task |-> [s \in Step |-> [a \in Attempt |-> 0]]]
      /\ applied = [t \in Task |-> [s \in Step |-> {}]]
      /\ events = [t \in Task |-> [s \in Step |-> [a \in Attempt |-> <<>>]]]
  BY DEF AgentInit, Init
<1>3. AgentRows /\ work \in Place /\ Sound(work, events, sent, applied)
  BY <1>2, PollingIsSound DEF AgentRows
<1>4. Announced(<<>>) \in Nat /\ ~Has(<<>>, "SUCCEEDED")
  <2>1. <<>> \in Seq(EventType)
    OBVIOUS
  <2>2. Announced(<<>>) \in Nat
    BY <2>1, AnnouncedIsNumber, Zenon
  <2>3. DOMAIN <<>> = {}
    OBVIOUS
  <2>. QED  BY <2>2, <2>3, Zenon DEF Has
<1>5. SuccessWasCarriedOut /\ RequestsAnnounced
  BY <1>2, <1>4 DEF SuccessWasCarriedOut, RequestsAnnounced
<1>. QED  BY <1>1, <1>3, <1>5 DEF AgentInv

LEMMA AgentInvNext == AgentInv /\ [AgentNext]_agentVars => AgentInv'
<1>. SUFFICES ASSUME AgentInv, [AgentNext]_agentVars PROVE AgentInv'
  OBVIOUS
<1>1. LeaseTypeOK'
  BY AgentNextAllowed, LeaseTypeNext DEF AgentInv
<1>. QED  BY <1>1, AgentNextKeeps DEF AgentInv, RowsKept, Sound

LEMMA AgentInvariant == AgentSpec => []AgentInv
  BY AgentInvInit, AgentInvNext, PTL DEF AgentSpec

(***************************************************************************)
(* However the agent dies, loses answers or loses its lease, what it asks   *)
(* of the hub is what the lease protocol allows: the results about leases   *)
(* and the queue hold with the agent on top.                                *)
(***************************************************************************)
THEOREM AgentImplementsLeases == AgentSpec => Spec
<1>1. AgentInit => Init
  BY DEF AgentInit
<1>. QED  BY <1>1, AgentInvariant, AgentNextAllowed, PTL DEF AgentSpec, Spec

(***************************************************************************)
(* A step the hub shows as succeeded was carried out by the attempt that    *)
(* reported it.                                                             *)
(***************************************************************************)
THEOREM SuccessIsReal == AgentSpec => []SuccessWasCarriedOut
<1>1. AgentInv => SuccessWasCarriedOut
  BY DEF AgentInv
<1>. QED  BY <1>1, AgentInvariant, PTL

(***************************************************************************)
(* No webhook request leaves the agent without a progress event of its own  *)
(* in the hub's history.                                                    *)
(***************************************************************************)
THEOREM RequestsAreAnnounced == AgentSpec => []RequestsAnnounced
<1>1. AgentInv => RequestsAnnounced
  BY DEF AgentInv
<1>. QED  BY <1>1, AgentInvariant, PTL

-----------------------------------------------------------------------------
(* The OCI job.                                                             *)

(* Whoever is between taking and giving back the mutation lock holds it.    *)
MutexHeld == \A p \in Proc : pc[p] \in InDocker \cup {"rename"} => mutex = p

(* The container remembers: it is past "created" exactly when the job was   *)
(* started.                                                                 *)
ContainerRemembers ==
    ran = IF label = "ours" /\ ctr \in {"running", "exited"} THEN 1 ELSE 0

(* The daemon creates one container under the name at a time, and a docker  *)
(* run that is under way has none but its own.                              *)
DaemonHolds ==
    /\ creating # NoProc => ctr = "absent"
    /\ \A p \in Proc : pc[p] = "running" =>
          creating \in {p, NoProc} /\ (ctr # "absent" => label = "ours")

(* What an attempt learnt from docker inspect is still true when it removes *)
(* or starts the container, as long as it owns the reservation.             *)
InspectionHolds ==
    \A p \in Proc : dir = p /\ pc[p] \in {"remove", "start"} => ctr = "created" /\ label = "ours"

(* An attempt with a result is about to return; one that may still judge a  *)
(* fresh run has taken over nothing.                                        *)
Returning == {"ownMount", "cleanMount", "cleanOwn", "succeeded", "dead"}
Fresh == {"begin", "acquire", "reclaim", "rename", "publish", "inspect", "remove", "sweep",
          "stage", "staged", "run", "running", "conflict"}

StagesInOrder ==
    /\ \A p \in ok : pc[p] \in Returning
    /\ \A p \in adopted : pc[p] \notin Fresh
    /\ \A p \in Proc : pc[p] = "succeeded" => p \in ok

(* A result is that of a job of ours that ended and stays ended, or that of *)
(* the docker CLI, for which the input allows it.                           *)
ResultsStand ==
    \A p \in ok : \/ label = "ours" /\ ctr = "exited" /\ code
                  \/ lax /\ p \notin adopted

(* Another operation's container is there, or will be, as long as nothing   *)
(* of ours is; no attempt gets as far as doing something to it.             *)
OtherUntouched ==
    label = "other" \/ creating = "other" =>
        /\ ctr \in {"created", "exited"} \/ (ctr = "absent" /\ label = "ours")
        /\ adopted = {}
        /\ \A p \in Proc : pc[p] \notin {"remove", "start", "wait", "waiting", "running",
                                        "ownMount", "cleanMount"}

JobInv ==
    /\ JobTypeOK /\ MutexHeld /\ CommandsByOwner /\ ContainerRemembers /\ DaemonHolds
    /\ InspectionHolds /\ StagesInOrder /\ ResultsStand /\ OtherUntouched

LEMMA JobInvInit == JobInit => JobInv
<1>. SUFFICES ASSUME JobInit PROVE JobInv
  OBVIOUS
<1>1. JobTypeOK
  BY DEF JobInit, JobTypeOK, Control
<1>2. \A p \in Proc : pc[p] = "begin"
  BY DEF JobInit
<1>3. MutexHeld /\ CommandsByOwner /\ InspectionHolds
  BY <1>2 DEF MutexHeld, CommandsByOwner, InspectionHolds, InDocker
<1>4. ContainerRemembers /\ DaemonHolds /\ OtherUntouched
  BY <1>2, NamesDistinct DEF JobInit, ContainerRemembers, DaemonHolds, OtherUntouched
<1>5. StagesInOrder /\ ResultsStand
  BY <1>2 DEF JobInit, StagesInOrder, ResultsStand
<1>. QED  BY <1>1, <1>3, <1>4, <1>5 DEF JobInv

LEMMA JobInvSuffices == JobInv => JobRunsOnce
  BY DEF JobInv, JobTypeOK, JobRunsOnce, RunsAtMostOnce, SuccessMeansExecuted,
         OtherOperationRespected, ContainerRemembers, StagesInOrder, ResultsStand, OtherUntouched

(***************************************************************************)
(* The type.                                                                *)
(***************************************************************************)
LEMMA JobTypeNext == JobTypeOK /\ JobNext => JobTypeOK'
<1>. SUFFICES ASSUME JobTypeOK, JobNext PROVE JobTypeOK'
  OBVIOUS
<1>. USE DEF JobTypeOK, Control, InDocker, AttemptEnded, lockVars, ctrVars, AttemptAt,
            AttemptReturns, Command
<1>1. CASE OwnerAges \/ DaemonCreates \/ JobExits
  BY <1>1 DEF OwnerAges, DaemonCreates, JobExits
<1>. SUFFICES ASSUME NEW p \in Proc,
                    Work(p) \/ OwnerHeartbeat(p) \/ ContextEnds(p) \/ AttemptDies(p)
              PROVE  JobTypeOK'
  BY <1>1 DEF JobNext
<1>2. CASE OwnerHeartbeat(p) \/ ContextEnds(p) \/ AttemptDies(p)
  BY <1>2 DEF OwnerHeartbeat, ContextEnds, AttemptDies
<1>3. CASE Decode(p) \/ RenameStale(p)
  BY <1>3 DEF Decode, RenameStale
<1>11. CASE Recheck(p) \/ tryPublishOCIJobContainerLock(p)
  BY <1>11 DEF Recheck, tryPublishOCIJobContainerLock
<1>12. CASE Stat(p)
  <2>1. pc' \in [Proc -> Control]
    BY <1>12 DEF Stat
  <2>. QED  BY <1>12, <2>1 DEF Stat
<1>4. CASE Inspect(p)
  BY <1>4 DEF Inspect, NoContainer, Adopt, NextFor
<1>5. CASE CommandFails(p) \/ removeOCIJobContainer(p)
  BY <1>5 DEF CommandFails, Fails, removeOCIJobContainer
<1>6. CASE cleanupOCIJobSecretStagingDir(p) \/ writeOCIJobSecretEnvFile(p)
           \/ OwnedAfterStaging(p)
  BY <1>6 DEF cleanupOCIJobSecretStagingDir, writeOCIJobSecretEnvFile, OwnedAfterStaging
<1>7. CASE RunBegins(p) \/ RunStart(p) \/ RunReturns(p) \/ InspectConflict(p)
  BY <1>7 DEF RunBegins, RunStart, RunReturns, InspectConflict, Judged, Fails, Adopt, NextFor
<1>8. CASE startExistingOCIJobContainer(p) \/ WaitBegins(p) \/ waitOCIJobContainer(p)
  BY <1>8 DEF startExistingOCIJobContainer, WaitBegins, waitOCIJobContainer
<1>9. CASE stopOCIJobContainer(p) \/ verifyOCIJobContainerStopped(p)
  BY <1>9 DEF stopOCIJobContainer, verifyOCIJobContainerStopped, StopFails, Fails
<1>10. CASE CleanOwn(p) \/ OwnedBeforeCleanup(p) \/ cleanupOCIJobSecretMountSource(p)
  BY <1>10 DEF CleanOwn, OwnedBeforeCleanup, cleanupOCIJobSecretMountSource, Verdict, Fails
<1>. QED  BY <1>2, <1>3, <1>4, <1>5, <1>6, <1>7, <1>8, <1>9, <1>10, <1>11, <1>12 DEF Work

(***************************************************************************)
(* The fence: the mutation lock is with whoever is inside it, and inside a  *)
(* command with the owner.                                                  *)
(***************************************************************************)
LEMMA FenceNext ==
    ASSUME JobTypeOK, MutexHeld, CommandsByOwner, JobNext
    PROVE  MutexHeld' /\ CommandsByOwner'
<1>. USE NamesDistinct DEF JobTypeOK, lockVars, ctrVars, AttemptAt, AttemptReturns, Command,
             MutexHeld, CommandsByOwner, InDocker
<1>1. CASE OwnerAges \/ JobExits
  BY <1>1 DEF OwnerAges, JobExits
<1>2. CASE DaemonCreates
  BY <1>2 DEF DaemonCreates
<1>. SUFFICES ASSUME NEW p \in Proc,
                    Work(p) \/ OwnerHeartbeat(p) \/ ContextEnds(p) \/ AttemptDies(p)
              PROVE  MutexHeld' /\ CommandsByOwner'
  BY <1>1, <1>2 DEF JobNext
<1>3. CASE OwnerHeartbeat(p) \/ ContextEnds(p)
  BY <1>3 DEF OwnerHeartbeat, ContextEnds
<1>4. CASE AttemptDies(p)
  BY <1>4 DEF AttemptDies
<1>5. CASE Decode(p) \/ Stat(p)
  BY <1>5 DEF Decode, Stat
<1>6. CASE Recheck(p)
  BY <1>6 DEF Recheck
<1>7. CASE RenameStale(p)
  BY <1>7 DEF RenameStale
<1>8. CASE tryPublishOCIJobContainerLock(p)
  BY <1>8 DEF tryPublishOCIJobContainerLock
<1>9. CASE Inspect(p)
  BY <1>9 DEF Inspect, NoContainer, Adopt, NextFor
<1>10. CASE CommandFails(p)
  BY <1>10 DEF CommandFails, Fails
<1>11. CASE removeOCIJobContainer(p)
  BY <1>11 DEF removeOCIJobContainer
<1>12. CASE cleanupOCIJobSecretStagingDir(p)
  BY <1>12 DEF cleanupOCIJobSecretStagingDir
<1>13. CASE writeOCIJobSecretEnvFile(p)
  BY <1>13 DEF writeOCIJobSecretEnvFile
<1>14. CASE OwnedAfterStaging(p)
  BY <1>14 DEF OwnedAfterStaging
<1>15. CASE RunBegins(p)
  BY <1>15 DEF RunBegins, NameIsFree
<1>16. CASE RunStart(p)
  BY <1>16 DEF RunStart
<1>17. CASE RunReturns(p)
  BY <1>17 DEF RunReturns, Judged
<1>18. CASE InspectConflict(p)
  BY <1>18 DEF InspectConflict, Judged, Fails, Adopt, NextFor
<1>19. CASE startExistingOCIJobContainer(p)
  BY <1>19 DEF startExistingOCIJobContainer
<1>20. CASE WaitBegins(p)
  BY <1>20 DEF WaitBegins
<1>21. CASE waitOCIJobContainer(p)
  BY <1>21 DEF waitOCIJobContainer
<1>22. CASE stopOCIJobContainer(p)
  BY <1>22 DEF stopOCIJobContainer, StopFails, Fails
<1>23. CASE verifyOCIJobContainerStopped(p)
  BY <1>23 DEF verifyOCIJobContainerStopped, StopFails, Fails
<1>24. CASE CleanOwn(p)
  BY <1>24 DEF CleanOwn, Verdict
<1>25. CASE OwnedBeforeCleanup(p)
  BY <1>25 DEF OwnedBeforeCleanup, Fails
<1>26. CASE cleanupOCIJobSecretMountSource(p)
  BY <1>26 DEF cleanupOCIJobSecretMountSource
<1>. QED
  BY <1>3, <1>4, <1>5, <1>6, <1>7, <1>8, <1>9, <1>10, <1>11, <1>12, <1>13,
     <1>14, <1>15, <1>16, <1>17, <1>18, <1>19, <1>20, <1>21, <1>22, <1>23, <1>24, <1>25, <1>26 DEF Work

(***************************************************************************)
(* Only the owner acts on the container, on what it has just inspected or   *)
(* asked the daemon for.                                                    *)
(***************************************************************************)
LEMMA ContainerNext ==
    ASSUME JobInv, JobNext
    PROVE  ContainerRemembers' /\ DaemonHolds' /\ InspectionHolds'
<1>. USE NamesDistinct DEF JobTypeOK, lockVars, ctrVars, AttemptAt, AttemptReturns, Command,
             JobInv, CommandsByOwner, MutexHeld, InDocker, AttemptEnded, ContainerRemembers,
             DaemonHolds, InspectionHolds, OtherUntouched
<1>1. CASE OwnerAges \/ JobExits
  BY <1>1 DEF OwnerAges, JobExits
<1>2. CASE DaemonCreates
  BY <1>2 DEF DaemonCreates
<1>. SUFFICES ASSUME NEW p \in Proc,
                    Work(p) \/ OwnerHeartbeat(p) \/ ContextEnds(p) \/ AttemptDies(p)
              PROVE  ContainerRemembers' /\ DaemonHolds' /\ InspectionHolds'
  BY <1>1, <1>2 DEF JobNext
<1>3. CASE OwnerHeartbeat(p) \/ ContextEnds(p)
  BY <1>3 DEF OwnerHeartbeat, ContextEnds
<1>4. CASE AttemptDies(p)
  BY <1>4 DEF AttemptDies
<1>5. CASE Decode(p) \/ Stat(p)
  BY <1>5 DEF Decode, Stat
<1>6. CASE Recheck(p)
  BY <1>6 DEF Recheck
<1>7. CASE RenameStale(p)
  BY <1>7 DEF RenameStale
<1>8. CASE tryPublishOCIJobContainerLock(p)
  BY <1>8 DEF tryPublishOCIJobContainerLock
<1>9. CASE Inspect(p)
  BY <1>9 DEF Inspect, NoContainer, Adopt, NextFor
<1>10. CASE CommandFails(p)
  BY <1>10 DEF CommandFails, Fails
<1>11. CASE removeOCIJobContainer(p)
  BY <1>11 DEF removeOCIJobContainer
<1>12. CASE cleanupOCIJobSecretStagingDir(p)
  BY <1>12 DEF cleanupOCIJobSecretStagingDir
<1>13. CASE writeOCIJobSecretEnvFile(p)
  BY <1>13 DEF writeOCIJobSecretEnvFile
<1>14. CASE OwnedAfterStaging(p)
  BY <1>14 DEF OwnedAfterStaging
<1>15. CASE RunBegins(p)
  BY <1>15 DEF RunBegins, NameIsFree
<1>16. CASE RunStart(p)
  BY <1>16 DEF RunStart
<1>17. CASE RunReturns(p)
  BY <1>17 DEF RunReturns, Judged
<1>18. CASE InspectConflict(p)
  BY <1>18 DEF InspectConflict, Judged, Fails, Adopt, NextFor
<1>19. CASE startExistingOCIJobContainer(p)
  BY <1>19 DEF startExistingOCIJobContainer
<1>20. CASE WaitBegins(p)
  BY <1>20 DEF WaitBegins
<1>21. CASE waitOCIJobContainer(p)
  BY <1>21 DEF waitOCIJobContainer
<1>22. CASE stopOCIJobContainer(p)
  BY <1>22 DEF stopOCIJobContainer, StopFails, Fails
<1>23. CASE verifyOCIJobContainerStopped(p)
  BY <1>23 DEF verifyOCIJobContainerStopped, StopFails, Fails
<1>24. CASE CleanOwn(p)
  BY <1>24 DEF CleanOwn, Verdict
<1>25. CASE OwnedBeforeCleanup(p)
  BY <1>25 DEF OwnedBeforeCleanup, Fails
<1>26. CASE cleanupOCIJobSecretMountSource(p)
  BY <1>26 DEF cleanupOCIJobSecretMountSource
<1>. QED
  BY <1>3, <1>4, <1>5, <1>6, <1>7, <1>8, <1>9, <1>10, <1>11, <1>12, <1>13,
     <1>14, <1>15, <1>16, <1>17, <1>18, <1>19, <1>20, <1>21, <1>22, <1>23, <1>24, <1>25, <1>26 DEF Work

(***************************************************************************)
(* An attempt goes through its stages in order.                             *)
(***************************************************************************)
LEMMA StagesNext ==
    ASSUME JobTypeOK, StagesInOrder, JobNext
    PROVE  StagesInOrder'
<1>. USE NamesDistinct DEF JobTypeOK, lockVars, ctrVars, AttemptAt, AttemptReturns, Command,
             StagesInOrder, Returning, Fresh, InDocker
<1>1. CASE OwnerAges \/ JobExits
  BY <1>1 DEF OwnerAges, JobExits
<1>2. CASE DaemonCreates
  BY <1>2 DEF DaemonCreates
<1>. SUFFICES ASSUME NEW p \in Proc,
                    Work(p) \/ OwnerHeartbeat(p) \/ ContextEnds(p) \/ AttemptDies(p)
              PROVE  StagesInOrder'
  BY <1>1, <1>2 DEF JobNext
<1>3. CASE OwnerHeartbeat(p) \/ ContextEnds(p)
  BY <1>3 DEF OwnerHeartbeat, ContextEnds
<1>4. CASE AttemptDies(p)
  BY <1>4 DEF AttemptDies
<1>5. CASE Decode(p) \/ Stat(p)
  BY <1>5 DEF Decode, Stat
<1>6. CASE Recheck(p)
  BY <1>6 DEF Recheck
<1>7. CASE RenameStale(p)
  BY <1>7 DEF RenameStale
<1>8. CASE tryPublishOCIJobContainerLock(p)
  BY <1>8 DEF tryPublishOCIJobContainerLock
<1>9. CASE Inspect(p)
  BY <1>9 DEF Inspect, NoContainer, Adopt, NextFor
<1>10. CASE CommandFails(p)
  BY <1>10 DEF CommandFails, Fails
<1>11. CASE removeOCIJobContainer(p)
  BY <1>11 DEF removeOCIJobContainer
<1>12. CASE cleanupOCIJobSecretStagingDir(p)
  BY <1>12 DEF cleanupOCIJobSecretStagingDir
<1>13. CASE writeOCIJobSecretEnvFile(p)
  BY <1>13 DEF writeOCIJobSecretEnvFile
<1>14. CASE OwnedAfterStaging(p)
  BY <1>14 DEF OwnedAfterStaging
<1>15. CASE RunBegins(p)
  BY <1>15 DEF RunBegins, NameIsFree
<1>16. CASE RunStart(p)
  BY <1>16 DEF RunStart
<1>17. CASE RunReturns(p)
  BY <1>17 DEF RunReturns, Judged
<1>18. CASE InspectConflict(p)
  BY <1>18 DEF InspectConflict, Judged, Fails, Adopt, NextFor
<1>19. CASE startExistingOCIJobContainer(p)
  BY <1>19 DEF startExistingOCIJobContainer
<1>20. CASE WaitBegins(p)
  BY <1>20 DEF WaitBegins
<1>21. CASE waitOCIJobContainer(p)
  BY <1>21 DEF waitOCIJobContainer
<1>22. CASE stopOCIJobContainer(p)
  BY <1>22 DEF stopOCIJobContainer, StopFails, Fails
<1>23. CASE verifyOCIJobContainerStopped(p)
  BY <1>23 DEF verifyOCIJobContainerStopped, StopFails, Fails
<1>24. CASE CleanOwn(p)
  BY <1>24 DEF CleanOwn, Verdict
<1>25. CASE OwnedBeforeCleanup(p)
  BY <1>25 DEF OwnedBeforeCleanup, Fails
<1>26. CASE cleanupOCIJobSecretMountSource(p)
  BY <1>26 DEF cleanupOCIJobSecretMountSource
<1>. QED
  BY <1>3, <1>4, <1>5, <1>6, <1>7, <1>8, <1>9, <1>10, <1>11, <1>12, <1>13,
     <1>14, <1>15, <1>16, <1>17, <1>18, <1>19, <1>20, <1>21, <1>22, <1>23, <1>24, <1>25, <1>26 DEF Work

(***************************************************************************)
(* Results are of an ended job of ours or of the docker CLI, and other      *)
(* operations are let be.                                                   *)
(***************************************************************************)
LEMMA ResultsNext ==
    ASSUME JobInv, JobNext
    PROVE  ResultsStand' /\ OtherUntouched'
<1>. USE NamesDistinct DEF JobTypeOK, lockVars, ctrVars, AttemptAt, AttemptReturns, Command,
             JobInv, CommandsByOwner, MutexHeld, ContainerRemembers, DaemonHolds, InspectionHolds,
             StagesInOrder, Returning, Fresh, ResultsStand, InDocker, OtherUntouched
<1>1. CASE OwnerAges \/ JobExits
  BY <1>1 DEF OwnerAges, JobExits
<1>2. CASE DaemonCreates
  BY <1>2 DEF DaemonCreates
<1>. SUFFICES ASSUME NEW p \in Proc,
                    Work(p) \/ OwnerHeartbeat(p) \/ ContextEnds(p) \/ AttemptDies(p)
              PROVE  ResultsStand' /\ OtherUntouched'
  BY <1>1, <1>2 DEF JobNext
<1>3. CASE OwnerHeartbeat(p) \/ ContextEnds(p)
  BY <1>3 DEF OwnerHeartbeat, ContextEnds
<1>4. CASE AttemptDies(p)
  BY <1>4 DEF AttemptDies
<1>5. CASE Decode(p) \/ Stat(p)
  BY <1>5 DEF Decode, Stat
<1>6. CASE Recheck(p)
  BY <1>6 DEF Recheck
<1>7. CASE RenameStale(p)
  BY <1>7 DEF RenameStale
<1>8. CASE tryPublishOCIJobContainerLock(p)
  BY <1>8 DEF tryPublishOCIJobContainerLock
<1>9. CASE Inspect(p)
  BY <1>9 DEF Inspect, NoContainer, Adopt, NextFor
<1>10. CASE CommandFails(p)
  BY <1>10 DEF CommandFails, Fails
<1>11. CASE removeOCIJobContainer(p)
  BY <1>11 DEF removeOCIJobContainer
<1>12. CASE cleanupOCIJobSecretStagingDir(p)
  BY <1>12 DEF cleanupOCIJobSecretStagingDir
<1>13. CASE writeOCIJobSecretEnvFile(p)
  BY <1>13 DEF writeOCIJobSecretEnvFile
<1>14. CASE OwnedAfterStaging(p)
  BY <1>14 DEF OwnedAfterStaging
<1>15. CASE RunBegins(p)
  BY <1>15 DEF RunBegins, NameIsFree
<1>16. CASE RunStart(p)
  BY <1>16 DEF RunStart
<1>17. CASE RunReturns(p)
  BY <1>17 DEF RunReturns, Judged
<1>18. CASE InspectConflict(p)
  BY <1>18 DEF InspectConflict, Judged, Fails, Adopt, NextFor
<1>19. CASE startExistingOCIJobContainer(p)
  BY <1>19 DEF startExistingOCIJobContainer
<1>20. CASE WaitBegins(p)
  BY <1>20 DEF WaitBegins
<1>21. CASE waitOCIJobContainer(p)
  BY <1>21 DEF waitOCIJobContainer
<1>22. CASE stopOCIJobContainer(p)
  BY <1>22 DEF stopOCIJobContainer, StopFails, Fails
<1>23. CASE verifyOCIJobContainerStopped(p)
  BY <1>23 DEF verifyOCIJobContainerStopped, StopFails, Fails
<1>24. CASE CleanOwn(p)
  BY <1>24 DEF CleanOwn, Verdict
<1>25. CASE OwnedBeforeCleanup(p)
  BY <1>25 DEF OwnedBeforeCleanup, Fails
<1>26. CASE cleanupOCIJobSecretMountSource(p)
  BY <1>26 DEF cleanupOCIJobSecretMountSource
<1>. QED
  BY <1>3, <1>4, <1>5, <1>6, <1>7, <1>8, <1>9, <1>10, <1>11, <1>12, <1>13,
     <1>14, <1>15, <1>16, <1>17, <1>18, <1>19, <1>20, <1>21, <1>22, <1>23, <1>24, <1>25, <1>26 DEF Work

(***************************************************************************)
(* However many attempts crash, time out, are suspended and take over from  *)
(* each other: the job is started at most once, every docker run and docker *)
(* wait is the owner's, an attempt succeeds only when the job has run and   *)
(* its container exited with an expected code, or when expectedExitCodes    *)
(* lists a code of the docker CLI and the attempt judged a fresh run by it, *)
(* and the container of another operation is left alone (runOCIJob,         *)
(* finishExistingOCIJobContainer).                                          *)
(***************************************************************************)
THEOREM JobIsRunOnce == JobSpec => []JobRunsOnce
<1>1. JobInit => JobInv
  BY JobInvInit
<1>2. JobInv /\ [JobNext]_jobVars => JobInv'
  <2>. SUFFICES ASSUME JobInv, [JobNext]_jobVars PROVE JobInv'
    OBVIOUS
  <2>1. CASE JobNext
    <3>1. JobTypeOK'
      BY <2>1, JobTypeNext DEF JobInv
    <3>2. MutexHeld' /\ CommandsByOwner'
      BY <2>1, FenceNext DEF JobInv
    <3>3. ContainerRemembers' /\ DaemonHolds' /\ InspectionHolds'
      BY <2>1, ContainerNext
    <3>4. StagesInOrder'
      BY <2>1, StagesNext DEF JobInv
    <3>5. ResultsStand' /\ OtherUntouched'
      BY <2>1, ResultsNext
    <3>. QED  BY <3>1, <3>2, <3>3, <3>4, <3>5 DEF JobInv
  <2>2. CASE UNCHANGED jobVars
    BY <2>2 DEF jobVars, lockVars, ctrVars, JobInv, JobTypeOK, MutexHeld, CommandsByOwner,
                ContainerRemembers, DaemonHolds, InspectionHolds, StagesInOrder, ResultsStand,
                OtherUntouched
  <2>. QED  BY <2>1, <2>2
<1>3. JobInv => JobRunsOnce
  BY JobInvSuffices
<1>. QED  BY <1>1, <1>2, <1>3, PTL DEF JobSpec

-----------------------------------------------------------------------------
(* The file render.                                                         *)

Inode ==
    [data : {"old", "new", "foreign", "partial", "notfile"}, mode : SUBSET Readers, of : Nat]
Id == 1..Len(inode)
Writing == {"fill", "chmod", "check", "rename"}     \* a temporary file is open
Written == {"chmod", "check", "rename"}             \* and its bytes are complete
FilePc == {"idle", "prepare", "lstat", "backup", "open", "backupopen", "verify", "create",
           "confirm"} \cup Writing

FileShape ==
    /\ inode \in Seq(Inode)
    /\ at \in [Paths -> 0..Len(inode)]
    /\ seen \in 0..Len(inode) /\ tmp \in 0..Len(inode)
    /\ goal \in {"dest", "bak"} /\ stage \in FilePc /\ swaps \in Nat

(* The temporary path names the file that is being written, or one that a   *)
(* foreign process put there; none while no file is written.                *)
TempKnown ==
    /\ stage \notin Writing => at["temp"] = 0
    /\ stage \in Writing => /\ tmp # 0
                            /\ at["temp"] \in {0, tmp} \/ inode[at["temp"]].data # "partial"
    /\ stage = "fill" => inode[tmp].data = "partial"
    /\ stage \in Written => inode[tmp].data # "partial"

(* What the two lasting paths name, and what was opened, is a whole file.   *)
WholeFiles ==
    /\ at["dest"] # 0 => inode[at["dest"]].data # "partial"
    /\ at["bak"] # 0 => inode[at["bak"]].data # "partial"
    /\ seen # 0 => inode[seen].data # "partial"

(* A copy is of an earlier file, and as private as that one.                *)
CopiesPrivate ==
    \A i \in Id : /\ inode[i].of < i
                  /\ inode[i].of # 0 =>
                        inode[i].mode \subseteq inode[inode[i].of].mode \cup PrivateMode

(* While the temporary file is given bytes and mode, nobody has copied it,  *)
(* and it is marked as the copy of the file that was opened for the backup. *)
CopyMarked ==
    /\ goal = "bak" => /\ stage \in {"create"} \cup Writing
                       /\ seen # 0
                       /\ stage # "create" => seen < tmp
    /\ stage = "backupopen" => seen # 0
    /\ stage \in {"fill", "chmod"} =>
          /\ \A i \in Id : inode[i].of # tmp
          /\ inode[tmp].of = IF goal = "bak" THEN seen ELSE 0

(* Without a foreign process: the original is at the destination, or the    *)
(* rendered file is and the backup has the original; and every step of an   *)
(* execution knows which of the two.                                        *)
Undisturbed == Backup /\ swaps = 0 /\ Len(inode) > 0 /\ inode[1].data = "old"

BackedUp == at["bak"] # 0 /\ inode[at["bak"]].data = "old"

OriginalKept ==
    Undisturbed =>
      /\ at["dest"] # 0
      /\ inode[at["dest"]].data = "old" \/ (inode[at["dest"]].data = "new" /\ BackedUp)
      /\ stage \in Writing => at["temp"] = tmp
      /\ stage \in {"open", "verify", "backupopen"} => seen = at["dest"]
      /\ stage \in {"backup", "backupopen"} => inode[at["dest"]].data = "old"
      /\ stage = "verify" => inode[seen].data = "new"
      /\ stage \in {"create"} \cup Writing =>
            IF goal = "bak" THEN inode[seen].data = "old" ELSE BackedUp
      /\ stage \in Written =>
            inode[tmp].data = IF goal = "bak" THEN "old" ELSE "new"

FileInv ==
    FileShape /\ TempKnown /\ WholeFiles /\ CopiesPrivate /\ CopyMarked /\ OriginalKept

LEMMA FileInvInit == RenderInit => FileInv
<1>. SUFFICES ASSUME RenderInit PROVE FileInv
  OBVIOUS
<1>. USE DEF RenderInit, None, Paths, Id, Writing, Written
<1>1. FileShape
  <2>1. PICK m \in SUBSET Readers, present \in BOOLEAN :
          /\ inode = IF present THEN <<[data |-> "old", mode |-> m, of |-> 0]>> ELSE <<>>
          /\ at = [x \in Paths |-> IF present /\ x = "dest" THEN 1 ELSE 0]
    OBVIOUS
  <2>2. inode \in Seq(Inode) /\ (present => Len(inode) = 1)
    <3>1. [data |-> "old", mode |-> m, of |-> 0] \in Inode
      BY DEF Inode
    <3>. QED  BY <2>1, <3>1
  <2>3. at \in [Paths -> 0..Len(inode)]
    BY <2>1, <2>2
  <2>. QED  BY <2>2, <2>3 DEF FileShape, FilePc
<1>2. TempKnown /\ WholeFiles /\ CopiesPrivate /\ CopyMarked
  BY DEF TempKnown, WholeFiles, CopiesPrivate, CopyMarked
<1>3. OriginalKept
  BY DEF OriginalKept, Undisturbed
<1>. QED  BY <1>1, <1>2, <1>3 DEF FileInv

LEMMA FileInvSuffices == FileInv => FileRenderSafe
<1>. SUFFICES ASSUME FileInv PROVE FileRenderSafe
  OBVIOUS
<1>. USE DEF FileInv, FileShape, None, Paths, Holds, Id, Writing
<1>1. NeverPartial /\ TempRemoved
  BY DEF NeverPartial, TempRemoved, WholeFiles, TempKnown
<1>2. BackupNotWidened
  BY DEF BackupNotWidened, CopiesPrivate
<1>3. BackupKeepsReplaced
  BY DEF BackupKeepsReplaced, OriginalKept, Undisturbed, BackedUp
<1>. QED  BY <1>1, <1>2, <1>3 DEF FileRenderSafe

(***************************************************************************)
(* An execution that returns, early or late, or dies, takes nothing along.  *)
(***************************************************************************)
LEMMA ReturnKeeps ==
    ASSUME FileInv, inode' = inode, stage' = "idle", seen' = 0, tmp' = 0, goal' = "dest",
           at' = [at EXCEPT !["temp"] = 0], swaps' = swaps
    PROVE  FileInv'
<1>. USE DEF FileInv, FileShape, Paths, Id, Writing, Written
<1>1. FileShape'
  BY DEF FilePc
<1>2. TempKnown' /\ WholeFiles' /\ CopyMarked'
  BY DEF TempKnown, WholeFiles, CopyMarked
<1>3. CopiesPrivate'
  BY DEF CopiesPrivate
<1>4. OriginalKept'
  BY DEF OriginalKept, Undisturbed, BackedUp
<1>. QED  BY <1>1, <1>2, <1>3, <1>4

(* Steps that move on and write nothing.                                    *)
LEMMA MovesKeep ==
    ASSUME FileInv, inode' = inode, at' = at, tmp' = tmp, swaps' = swaps,
           stage' \in FilePc, goal' \in {"dest", "bak"}, seen' \in {0, seen, at["dest"]},
           stage' \in Writing <=> stage \in Writing, stage' # "fill" \/ stage = "fill",
           stage' \in Written => stage \in Written, CopyMarked', OriginalKept'
    PROVE  FileInv'
<1>. USE DEF FileInv, FileShape, Paths, Id
<1>1. FileShape'
  OBVIOUS
<1>2. TempKnown'
  BY DEF TempKnown, Writing, Written
<1>3. WholeFiles' /\ CopiesPrivate'
  BY DEF WholeFiles, CopiesPrivate
<1>. QED  BY <1>1, <1>2, <1>3

LEMMA FileLooksKeep ==
    ASSUME FileInv,
           \/ executeFileRenderStep \/ prepareFileRenderDestination \/ Lstat
           \/ openRootRegularFileNoSwap \/ verifyExistingFileNoSwap
           \/ backupFileRenderDestination \/ verifyRootRegularFileNoSwap
           \/ openRootRegularFileMatching \/ RenderContextEnds \/ RenderDies
    PROVE  FileInv'
<1>. USE DEF None, Stage
<1>0. CASE Fail \/ RenderDies
  BY <1>0, ReturnKeeps DEF Fail, RenderReturns, Forget, RenderDies
<1>00. ASSUME stage \notin Writing, at' = at, \E how : RenderReturns(how)
       PROVE  FileInv'
  <2>1. at' = [at EXCEPT !["temp"] = 0]
    BY <1>00 DEF FileInv, FileShape, TempKnown, Paths
  <2>. QED  BY <1>00, <2>1, ReturnKeeps DEF RenderReturns, Forget
<1>. DEFINE Still == inode' = inode /\ at' = at /\ tmp' = tmp /\ swaps' = swaps
<1>1. CASE executeFileRenderStep
  <2>1. Still /\ stage = "idle" /\ stage' = "prepare" /\ seen' = seen /\ goal' = goal
    BY <1>1 DEF executeFileRenderStep
  <2>2. CopyMarked' /\ OriginalKept'
    BY <2>1 DEF FileInv, CopyMarked, OriginalKept, Undisturbed, BackedUp, Id, Writing, Written
  <2>. QED  BY <2>1, <2>2, MovesKeep DEF FileInv, FileShape, FilePc, Writing, Written
<1>2. CASE prepareFileRenderDestination
  <2>1. CASE Fail
    BY <1>0, <2>1
  <2>2. CASE Still /\ stage = "prepare" /\ stage' = "lstat" /\ seen' = seen /\ goal' = goal
    <3>1. CopyMarked' /\ OriginalKept'
      BY <2>2 DEF FileInv, CopyMarked, OriginalKept, Undisturbed, BackedUp, Id, Writing, Written
    <3>. QED  BY <2>2, <3>1, MovesKeep DEF FileInv, FileShape, FilePc, Writing, Written
  <2>. QED  BY <1>2, <2>1, <2>2 DEF prepareFileRenderDestination
<1>000. ASSUME NEW next \in {"backup", "create"}, NothingThere(next),
               stage \in {"lstat", "backup", "open", "backupopen"}
        PROVE  FileInv'
  <2>1. Still /\ goal' = goal /\ seen' = 0 /\ stage' = next /\ at["dest"] = 0
    BY <1>000 DEF NothingThere
  <2>2. CopyMarked' /\ OriginalKept'
    BY <1>000, <2>1
       DEF FileInv, CopyMarked, OriginalKept, Undisturbed, BackedUp, Id, Writing, Written
  <2>. QED  BY <1>000, <2>1, <2>2, MovesKeep DEF FileInv, FileShape, FilePc, Writing, Written
<1>3. CASE Lstat
  <2>1. CASE Fail
    BY <1>0, <2>1
  <2>2. CASE at["dest"] = 0
    BY <1>3, <2>2, <1>000 DEF Lstat, BeforeWrite
  <2>3. CASE /\ Still /\ stage \in {"lstat", "backup"} /\ goal' = goal
             /\ at["dest"] # 0 /\ seen' = at["dest"]
             /\ stage' = IF stage = "lstat" THEN "open" ELSE "backupopen"
    <3>1. CopyMarked' /\ OriginalKept'
      BY <2>3 DEF FileInv, CopyMarked, OriginalKept, Undisturbed, BackedUp, Id, Writing, Written
    <3>. QED  BY <2>3, <3>1, MovesKeep DEF FileInv, FileShape, FilePc, Writing, Written
  <2>. QED  BY <1>3, <2>1, <2>2, <2>3 DEF Lstat
<1>4. CASE openRootRegularFileNoSwap
  <2>1. CASE Fail
    BY <1>0, <2>1
  <2>2. CASE at["dest"] = 0
    BY <1>4, <2>2, <1>000 DEF openRootRegularFileNoSwap, BeforeWrite
  <2>3. CASE /\ Still /\ stage = "open" /\ goal' = goal /\ seen' = seen
             /\ at["dest"] = seen
             /\ stage' = IF inode[seen].data = "new" THEN "verify" ELSE BeforeWrite
    <3>1. CopyMarked' /\ OriginalKept'
      BY <2>3 DEF FileInv, CopyMarked, OriginalKept, Undisturbed, BackedUp, Id, Writing, Written,
                  BeforeWrite
    <3>. QED  BY <2>3, <3>1, MovesKeep DEF FileInv, FileShape, FilePc, Writing, Written, BeforeWrite
  <2>. QED  BY <1>4, <2>1, <2>2, <2>3 DEF openRootRegularFileNoSwap
<1>5. CASE verifyExistingFileNoSwap
  <2>1. CASE Fail
    BY <1>0, <2>1
  <2>2. CASE at' = at /\ stage = "verify" /\ RenderReturns("ok")
    BY <1>00, <2>2 DEF Writing
  <2>3. CASE /\ Still /\ stage = "verify" /\ stage' = "create" /\ goal' = goal /\ seen' = seen
    <3>1. CopyMarked' /\ OriginalKept'
      BY <2>3 DEF FileInv, CopyMarked, OriginalKept, Undisturbed, BackedUp, Id, Writing, Written
    <3>. QED  BY <2>3, <3>1, MovesKeep DEF FileInv, FileShape, FilePc, Writing, Written
  <2>. QED  BY <1>5, <2>1, <2>2, <2>3 DEF verifyExistingFileNoSwap
<1>6. CASE backupFileRenderDestination
  <2>1. CASE Fail
    BY <1>0, <2>1
  <2>2. CASE at["dest"] = 0
    BY <1>6, <2>2, <1>000 DEF backupFileRenderDestination
  <2>3. CASE /\ Still /\ stage = "backupopen" /\ stage' = "create" /\ goal' = "bak"
             /\ seen' = seen /\ at["dest"] = seen
    <3>1. CopyMarked' /\ OriginalKept'
      BY <2>3 DEF FileInv, CopyMarked, OriginalKept, Undisturbed, BackedUp, Id, Writing, Written
    <3>. QED  BY <2>3, <3>1, MovesKeep DEF FileInv, FileShape, FilePc, Writing, Written
  <2>. QED  BY <1>6, <2>1, <2>2, <2>3 DEF backupFileRenderDestination
<1>7. CASE verifyRootRegularFileNoSwap
  <2>1. CASE Fail
    BY <1>0, <2>1
  <2>2. CASE Still /\ stage = "check" /\ stage' = "rename" /\ goal' = goal /\ seen' = seen
    <3>1. CopyMarked' /\ OriginalKept'
      BY <2>2 DEF FileInv, CopyMarked, OriginalKept, Undisturbed, BackedUp, Id, Writing, Written
    <3>. QED  BY <2>2, <3>1, MovesKeep DEF FileInv, FileShape, FilePc, Writing, Written
  <2>. QED  BY <1>7, <2>1, <2>2 DEF verifyRootRegularFileNoSwap
<1>8. CASE openRootRegularFileMatching
  BY <1>00, <1>8 DEF openRootRegularFileMatching, Writing
<1>9. CASE RenderContextEnds
  <2>1. Still /\ UNCHANGED <<stage, seen, goal>>
    BY <1>9 DEF RenderContextEnds
  <2>2. CopyMarked' /\ OriginalKept'
    BY <2>1 DEF FileInv, CopyMarked, OriginalKept, Undisturbed, BackedUp, Id
  <2>. QED  BY <2>1, <2>2, MovesKeep DEF FileInv, FileShape
<1>. QED
  BY <1>0, <1>1, <1>2, <1>3, <1>4, <1>5, <1>6, <1>7, <1>8, <1>9

(* The fields of a file.                                                    *)
LEMMA InodeFields ==
    ASSUME NEW f \in Inode
    PROVE  /\ f.data \in {"old", "new", "foreign", "partial", "notfile"}
           /\ f.mode \in SUBSET Readers /\ f.of \in Nat
  BY DEF Inode

(* Writing bytes or a mode through a descriptor changes that file only.     *)
LEMMA DataWritten ==
    ASSUME NEW f \in Inode, NEW d \in {"old", "new", "foreign", "partial", "notfile"},
           NEW g, g = [f EXCEPT !.data = d]
    PROVE  g \in Inode /\ g.data = d /\ g.mode = f.mode /\ g.of = f.of
  BY DEF Inode

LEMMA ModeApplied ==
    ASSUME NEW f \in Inode, NEW m \in SUBSET Readers, NEW g, g = [f EXCEPT !.mode = m]
    PROVE  g \in Inode /\ g.data = f.data /\ g.mode = m /\ g.of = f.of
  BY DEF Inode

LEMMA SeqWritten ==
    ASSUME NEW E, NEW q \in Seq(E), NEW i \in 1..Len(q), NEW g \in E, NEW r,
           r = [q EXCEPT ![i] = g]
    PROVE  /\ r \in Seq(E) /\ Len(r) = Len(q) /\ r[i] = g
           /\ \A j \in 1..Len(q) : j # i => r[j] = q[j]
  OBVIOUS

(***************************************************************************)
(* The steps that write.                                                    *)
(***************************************************************************)
LEMMA CreateTempKeeps == FileInv /\ CreateTemp => FileInv'
<1>. SUFFICES ASSUME FileInv, CreateTemp PROVE FileInv'
  OBVIOUS
<1>. USE DEF FileInv, FileShape, Paths, None
<1>1. CASE Fail
  BY <1>1, ReturnKeeps DEF Fail, RenderReturns, Forget
<1>2. CASE ~Fail
  <2>. DEFINE f == [data |-> "partial", mode |-> PrivateMode,
                    of |-> IF goal = "bak" THEN seen ELSE 0]
              n == Len(inode) + 1
  <2>1. /\ stage = "create" /\ stage' = "fill" /\ tmp' = n /\ inode' = Append(inode, f)
        /\ at' = [at EXCEPT !["temp"] = n] /\ UNCHANGED <<seen, goal, swaps>>
    BY <1>2 DEF CreateTemp, New, NewInode, Stage
  <2>2. f \in Inode
    BY DEF Inode, PrivateMode, Readers
  <2>3. /\ inode' \in Seq(Inode) /\ Len(inode') = n /\ inode'[n] = f
        /\ \A i \in Id : inode'[i] = inode[i]
    BY <2>1, <2>2 DEF Id
  <2>4. f.data = "partial" /\ f.mode = PrivateMode /\ f.of = IF goal = "bak" THEN seen ELSE 0
    OBVIOUS
  <2>5. n \in Nat /\ n = Len(inode) + 1 /\ Len(inode) \in Nat
    OBVIOUS
  <2>. HIDE DEF f, n
  <2>6. FileShape'
    BY <2>1, <2>3, <2>5 DEF FilePc, Writing
  <2>7. TempKnown' /\ WholeFiles'
    BY <2>1, <2>3, <2>4, <2>5 DEF TempKnown, WholeFiles, Writing, Written, Id
  <2>70. \A i \in Id : inode[i].of < i /\ inode[i].of \in Nat
    <3>1. \A i \in Id : inode[i] \in Inode
      BY DEF Id
    <3>. QED  BY <3>1, InodeFields DEF CopiesPrivate
  <2>8. CopiesPrivate'
    <3>. SUFFICES ASSUME NEW i \in 1..n
                  PROVE  /\ inode'[i].of < i
                         /\ inode'[i].of # 0 => inode'[i].mode
                               \subseteq inode'[inode'[i].of].mode \cup PrivateMode
      BY <2>3 DEF CopiesPrivate, Id
    <3>1. CASE i = n
      BY <2>3, <2>4, <2>5, <3>1
    <3>2. CASE i \in Id
      <4>1. inode[i].of < i /\ inode[i].of \in Nat /\ (inode[i].of # 0 => inode[i].of \in Id)
        BY <2>70, <3>2 DEF Id
      <4>. QED  BY <2>3, <3>2, <4>1 DEF CopiesPrivate
    <3>. QED  BY <2>5, <3>1, <3>2 DEF Id
  <2>9. CopyMarked'
    BY <2>1, <2>3, <2>4, <2>5, <2>70 DEF CopyMarked, Id, Writing
  <2>10. OriginalKept'
    <3>. SUFFICES ASSUME Undisturbed' PROVE OriginalKept'
      BY DEF OriginalKept
    <3>1. 1 \in Id
      BY <2>3, <2>4, <2>5 DEF Undisturbed, Id
    <3>2. Undisturbed
      BY <2>1, <2>3, <3>1 DEF Undisturbed, Id
    <3>3. \A i \in 0..Len(inode) : i # 0 => inode'[i] = inode[i]
      BY <2>3 DEF Id
    <3>. QED
      BY <2>1, <2>5, <3>2, <3>3 DEF OriginalKept, BackedUp, Writing, Written, CopyMarked
  <2>. QED  BY <2>6, <2>7, <2>8, <2>9, <2>10
<1>. QED  BY <1>1, <1>2

LEMMA FillTempKeeps == FileInv /\ FillTemp => FileInv'
<1>. SUFFICES ASSUME FileInv, FillTemp PROVE FileInv'
  OBVIOUS
<1>. USE DEF FileInv, FileShape, Paths, None
<1>1. CASE Fail
  BY <1>1, ReturnKeeps DEF Fail, RenderReturns, Forget
<1>2. CASE ~Fail
  <2>. DEFINE d == IF goal = "bak" THEN inode[seen].data ELSE "new"
  <2>1. /\ stage = "fill" /\ stage' = "chmod" /\ inode' = [inode EXCEPT ![tmp].data = d]
        /\ UNCHANGED <<at, seen, tmp, goal, swaps>>
    BY <1>2 DEF FillTemp, Stage
  <2>2. tmp \in Id /\ inode[tmp].data = "partial"
    BY <2>1 DEF TempKnown, Writing, Id
  <2>3. goal = "bak" => seen \in Id /\ seen < tmp
    BY <2>1 DEF CopyMarked, Writing, Id
  <2>4. d # "partial" /\ d \in {"old", "new", "foreign", "partial", "notfile"}
    <3>1. CASE goal = "bak"
      <4>1. inode[seen] \in Inode /\ inode[seen].data # "partial"
        BY <2>3, <3>1 DEF WholeFiles, Id
      <4>. QED  BY <3>1, <4>1, InodeFields
    <3>. QED  BY <3>1
  <2>. HIDE DEF d
  <2>. DEFINE g == [inode[tmp] EXCEPT !.data = d]
  <2>40. inode[tmp] \in Inode
    BY <2>2 DEF Id
  <2>41. g \in Inode /\ g.data = d /\ g.mode = inode[tmp].mode /\ g.of = inode[tmp].of
    BY <2>4, <2>40, DataWritten
  <2>42. inode' = [inode EXCEPT ![tmp] = g]
    BY <2>1
  <2>. HIDE DEF g
  <2>5. /\ inode' \in Seq(Inode) /\ Len(inode') = Len(inode) /\ inode'[tmp] = g
        /\ \A i \in Id : i # tmp => inode'[i] = inode[i]
    BY <2>2, <2>41, <2>42, SeqWritten DEF Id
  <2>6. /\ inode'[tmp].data = d
        /\ \A i \in Id : /\ inode'[i].mode = inode[i].mode /\ inode'[i].of = inode[i].of
                         /\ i # tmp => inode'[i].data = inode[i].data
    BY <2>5, <2>41
  <2>7. goal # "bak" => d = "new"
    BY DEF d
  <2>8. goal = "bak" => d = inode[seen].data
    BY DEF d
  <2>9. Id' = Id /\ \A i \in Id : inode[i].of \in Nat
    <3>1. \A i \in Id : inode[i] \in Inode
      BY DEF Id
    <3>. QED  BY <2>5, <3>1, InodeFields DEF Id
  <2>10. FileShape'
    BY <2>1, <2>5 DEF FilePc, Writing
  <2>11. TempKnown' /\ WholeFiles'
    BY <2>1, <2>2, <2>4, <2>6 DEF TempKnown, WholeFiles, Writing, Written, Id
  <2>12. CopiesPrivate'
    <3>. SUFFICES ASSUME NEW i \in Id
                  PROVE  /\ inode'[i].of < i
                         /\ inode'[i].of # 0 => inode'[i].mode
                               \subseteq inode'[inode'[i].of].mode \cup PrivateMode
      BY <2>9 DEF CopiesPrivate
    <3>1. inode[i].of < i /\ inode[i].of \in Nat /\ (inode[i].of # 0 => inode[i].of \in Id)
      BY <2>9 DEF CopiesPrivate, Id
    <3>. QED  BY <2>6, <3>1 DEF CopiesPrivate
  <2>13. CopyMarked'
    BY <2>1, <2>2, <2>6, <2>9 DEF CopyMarked, Id, Writing
  <2>14. OriginalKept'
    <3>. SUFFICES ASSUME Undisturbed' PROVE OriginalKept'
      BY DEF OriginalKept
    <3>1. 1 \in Id /\ inode'[1].data = "old" /\ Backup /\ swaps = 0
      BY <2>1, <2>5 DEF Undisturbed, Id
    <3>2. tmp # 1
      BY <2>3, <2>6, <2>7, <3>1 DEF Id
    <3>3. Undisturbed
      BY <2>6, <3>1, <3>2 DEF Undisturbed, Id
    <3>4. tmp # at["dest"] /\ tmp # at["bak"] /\ tmp # seen
      BY <2>2 DEF WholeFiles, Id
    <3>5. /\ at["dest"] # 0 => inode'[at["dest"]].data = inode[at["dest"]].data
          /\ at["bak"] # 0 => inode'[at["bak"]].data = inode[at["bak"]].data
          /\ seen # 0 => inode'[seen].data = inode[seen].data
      BY <2>6, <3>4 DEF Id
    <3>. QED
      BY <2>1, <2>3, <2>6, <2>7, <2>8, <3>3, <3>5
         DEF OriginalKept, BackedUp, Writing, Written, Id
  <2>. QED  BY <2>10, <2>11, <2>12, <2>13, <2>14
<1>. QED  BY <1>1, <1>2

LEMMA MetadataKeeps ==
    ASSUME FileInv, applyFileRenderMetadataToFile
    PROVE  FileInv'
<1>. USE DEF FileInv, FileShape, Paths, None
<1>1. CASE Fail
  BY <1>1, ReturnKeeps DEF Fail, RenderReturns, Forget
<1>2. CASE ~Fail
  <2>. DEFINE m == FinalMode
  <2>1. /\ stage = "chmod" /\ stage' = "check" /\ inode' = [inode EXCEPT ![tmp].mode = m]
        /\ UNCHANGED <<at, seen, tmp, goal, swaps>>
    BY <1>2 DEF applyFileRenderMetadataToFile, Stage
  <2>2. tmp \in Id /\ inode[tmp].data # "partial"
    BY <2>1 DEF TempKnown, Writing, Written, Id
  <2>3. goal = "bak" => seen \in Id /\ seen < tmp
    BY <2>1 DEF CopyMarked, Writing, Id
  <2>4. /\ m \in SUBSET Readers
        /\ goal = "bak" => m \subseteq inode[seen].mode
    BY RequestedModeIsMode DEF FinalMode, moreRestrictiveFileRenderMode
  <2>5. inode[tmp] \in Inode
    BY <2>2 DEF Id
  <2>. HIDE DEF m
  <2>. DEFINE g == [inode[tmp] EXCEPT !.mode = m]
  <2>6. g \in Inode /\ g.data = inode[tmp].data /\ g.mode = m /\ g.of = inode[tmp].of
    <3>1. m \in SUBSET Readers
      BY <2>4
    <3>2. PICK f : f = inode[tmp]
      OBVIOUS
    <3>3. PICK y : y = m
      OBVIOUS
    <3>4. f \in Inode /\ y \in SUBSET Readers /\ g = [f EXCEPT !.mode = y]
      BY <2>5, <3>1, <3>2, <3>3
    <3>5. LET e == [f EXCEPT !.mode = y]
          IN  e \in Inode /\ e.data = f.data /\ e.mode = y /\ e.of = f.of
      BY <3>4, ModeApplied, Zenon
    <3>6. PICK e : e = g
      OBVIOUS
    <3>7. e \in Inode /\ e.data = f.data /\ e.mode = y /\ e.of = f.of
      BY <3>4, <3>5, <3>6, Zenon
    <3>. QED  BY <3>2, <3>3, <3>6, <3>7, Zenon
  <2>7. inode' = [inode EXCEPT ![tmp] = g]
    BY <2>1
  <2>. HIDE DEF g
  <2>8. /\ inode' \in Seq(Inode) /\ Len(inode') = Len(inode) /\ inode'[tmp] = g
        /\ \A i \in Id : i # tmp => inode'[i] = inode[i]
    BY <2>2, <2>6, <2>7, SeqWritten DEF Id
  <2>9. /\ inode'[tmp].mode = m
        /\ \A i \in Id : /\ inode'[i].data = inode[i].data /\ inode'[i].of = inode[i].of
                         /\ i # tmp => inode'[i].mode = inode[i].mode
    BY <2>6, <2>8
  <2>10. Id' = Id /\ \A i \in Id : inode[i].of \in Nat
    <3>1. \A i \in Id : inode[i] \in Inode
      BY DEF Id
    <3>. QED  BY <2>8, <3>1, InodeFields DEF Id
  <2>11. FileShape'
    BY <2>1, <2>8 DEF FilePc, Writing
  <2>12. TempKnown' /\ WholeFiles'
    BY <2>1, <2>2, <2>9 DEF TempKnown, WholeFiles, Writing, Written, Id
  <2>13. CopiesPrivate'
    <3>. SUFFICES ASSUME NEW i \in Id
                  PROVE  /\ inode'[i].of < i
                         /\ inode'[i].of # 0 => inode'[i].mode
                               \subseteq inode'[inode'[i].of].mode \cup PrivateMode
      BY <2>10 DEF CopiesPrivate
    <3>1. inode[i].of < i /\ inode[i].of \in Nat /\ (inode[i].of # 0 => inode[i].of \in Id)
      BY <2>10 DEF CopiesPrivate, Id
    <3>2. inode[i].of # tmp /\ inode[tmp].of = IF goal = "bak" THEN seen ELSE 0
      BY <2>1 DEF CopyMarked
    <3>3. CASE i = tmp
      BY <2>3, <2>4, <2>9, <3>1, <3>2, <3>3
    <3>4. CASE i # tmp
      BY <2>9, <3>1, <3>2, <3>4 DEF CopiesPrivate
    <3>. QED  BY <3>3, <3>4
  <2>14. CopyMarked'
    BY <2>1, <2>9, <2>10 DEF CopyMarked, Writing
  <2>15. OriginalKept'
    BY <2>1, <2>2, <2>3, <2>8, <2>9
       DEF OriginalKept, Undisturbed, BackedUp, Writing, Written, Id
  <2>. QED  BY <2>11, <2>12, <2>13, <2>14, <2>15
<1>. QED  BY <1>1, <1>2

LEMMA RenameKeeps == FileInv /\ RenameTemp => FileInv'
<1>. SUFFICES ASSUME FileInv, RenameTemp PROVE FileInv'
  OBVIOUS
<1>. USE DEF FileInv, FileShape, Paths, None
<1>1. CASE Fail
  BY <1>1, ReturnKeeps DEF Fail, RenderReturns, Forget
<1>2. CASE ~Fail
  <2>1. /\ stage = "rename" /\ at["temp"] # 0
        /\ at' = [at EXCEPT ![goal] = at["temp"], !["temp"] = 0]
        /\ goal' = "dest" /\ stage' = IF goal = "bak" THEN "create" ELSE "confirm"
        /\ UNCHANGED <<inode, seen, tmp, swaps>>
    BY <1>2 DEF RenameTemp, Stage
  <2>2. /\ at' \in [Paths -> 0..Len(inode)]
        /\ at'["temp"] = 0 /\ at'[goal] = at["temp"]
        /\ \A x \in {"dest", "bak"} : x # goal => at'[x] = at[x]
    BY <2>1
  <2>3. inode[at["temp"]].data # "partial"
    BY <2>1 DEF TempKnown, Writing, Written
  <2>4. FileShape'
    BY <2>1, <2>2 DEF FilePc, Writing
  <2>5. TempKnown' /\ WholeFiles'
    BY <2>1, <2>2, <2>3 DEF TempKnown, WholeFiles, Writing, Written
  <2>6. CopiesPrivate' /\ CopyMarked'
    BY <2>1 DEF CopiesPrivate, CopyMarked, Id
  <2>7. OriginalKept'
    <3>. SUFFICES ASSUME Undisturbed' PROVE OriginalKept'
      BY DEF OriginalKept
    <3>1. Undisturbed
      BY <2>1 DEF Undisturbed
    <3>2. /\ at["temp"] = tmp
          /\ inode[tmp].data = IF goal = "bak" THEN "old" ELSE "new"
          /\ goal = "dest" => BackedUp
      BY <2>1, <3>1 DEF OriginalKept, Writing, Written
    <3>3. BackedUp'
      BY <2>1, <2>2, <3>2 DEF BackedUp
    <3>. QED
      BY <2>1, <2>2, <3>1, <3>2, <3>3 DEF OriginalKept, Writing, Written
  <2>. QED  BY <2>4, <2>5, <2>6, <2>7
<1>. QED  BY <1>1, <1>2

LEMMA SwapKeeps ==
    ASSUME FileInv, NEW x \in {"dest", "temp"}, x = "temp" => stage \in Writing, Swap(x)
    PROVE  FileInv'
<1>. USE DEF FileInv, FileShape, Paths, None
<1>1. swaps' = swaps + 1 /\ UNCHANGED <<stage, seen, tmp, goal>>
  BY DEF Swap, renderMem
<1>2. OriginalKept' /\ swaps' \in Nat
  BY <1>1 DEF OriginalKept, Undisturbed
<1>3. CASE inode' = inode /\ at' = [at EXCEPT ![x] = 0]
  <2>1. FileShape'
    BY <1>1, <1>2, <1>3
  <2>2. TempKnown' /\ WholeFiles'
    BY <1>1, <1>3 DEF TempKnown, WholeFiles
  <2>3. CopiesPrivate' /\ CopyMarked'
    BY <1>1, <1>3 DEF CopiesPrivate, CopyMarked, Id
  <2>. QED  BY <1>2, <2>1, <2>2, <2>3
<1>4. ASSUME NEW d \in {"foreign", "notfile"},
             inode' = Append(inode, [data |-> d, mode |-> Readers, of |-> 0]),
             at' = [at EXCEPT ![x] = Len(inode) + 1]
      PROVE  FileInv'
  <2>. DEFINE f == [data |-> d, mode |-> Readers, of |-> 0]
              n == Len(inode) + 1
  <2>1. f \in Inode /\ f.data # "partial" /\ f.of = 0
    BY DEF Inode, Readers
  <2>2. inode' = Append(inode, f) /\ at' = [at EXCEPT ![x] = n]
    BY <1>4
  <2>. HIDE DEF f
  <2>3. /\ inode' \in Seq(Inode) /\ Len(inode') = n /\ inode'[n] = f
        /\ \A i \in Id : inode'[i] = inode[i]
    BY <2>1, <2>2 DEF Id
  <2>4. n \in Nat /\ n = Len(inode) + 1 /\ Len(inode) \in Nat
    OBVIOUS
  <2>. HIDE DEF n
  <2>5. \A i \in Id : inode[i].of < i /\ inode[i].of \in Nat
    <3>1. \A i \in Id : inode[i] \in Inode
      BY DEF Id
    <3>. QED  BY <3>1, InodeFields DEF CopiesPrivate
  <2>6. FileShape'
    BY <1>1, <1>2, <2>2, <2>3, <2>4
  <2>7. TempKnown' /\ WholeFiles'
    BY <1>1, <2>1, <2>2, <2>3, <2>4 DEF TempKnown, WholeFiles, Id, Writing, Written
  <2>8. CopiesPrivate'
    <3>. SUFFICES ASSUME NEW i \in 1..n
                  PROVE  /\ inode'[i].of < i
                         /\ inode'[i].of # 0 => inode'[i].mode
                               \subseteq inode'[inode'[i].of].mode \cup PrivateMode
      BY <2>3 DEF CopiesPrivate, Id
    <3>1. CASE i = n
      BY <2>1, <2>3, <2>4, <3>1
    <3>2. CASE i \in Id
      <4>1. inode[i].of < i /\ inode[i].of \in Nat /\ (inode[i].of # 0 => inode[i].of \in Id)
        BY <2>5, <3>2 DEF Id
      <4>. QED  BY <2>3, <3>2, <4>1 DEF CopiesPrivate
    <3>. QED  BY <2>4, <3>1, <3>2 DEF Id
  <2>9. CopyMarked'
    <3>1. \A i \in Id : inode'[i] = inode[i]
      BY <2>3
    <3>2. stage \in {"fill", "chmod"} => tmp \in Id
      BY DEF TempKnown, Writing, Id
    <3>3. stage \in {"fill", "chmod"} => /\ \A i \in Id' : inode'[i].of # tmp
                                         /\ inode'[tmp].of = IF goal = "bak" THEN seen ELSE 0
      <4>. SUFFICES ASSUME stage \in {"fill", "chmod"}
                    PROVE  /\ \A i \in Id' : inode'[i].of # tmp
                           /\ inode'[tmp].of = IF goal = "bak" THEN seen ELSE 0
        OBVIOUS
      <4>1. tmp \in Id /\ tmp # 0
        BY <3>2 DEF Id
      <4>2. Id' = Id \cup {n}
        BY <2>3, <2>4 DEF Id
      <4>3. inode'[n].of = 0
        BY <2>1, <2>3
      <4>4. (\A i \in Id : inode[i].of # tmp) /\ inode[tmp].of = IF goal = "bak" THEN seen ELSE 0
        BY DEF CopyMarked
      <4>5. inode'[tmp].of = inode[tmp].of
        BY <3>1, <4>1
      <4>6. \A i \in Id' : inode'[i].of # tmp
        BY <3>1, <4>1, <4>2, <4>3, <4>4
      <4>. QED  BY <4>4, <4>5, <4>6
    <3>. QED  BY <1>1, <3>3 DEF CopyMarked
  <2>. QED  BY <1>2, <2>6, <2>7, <2>8, <2>9
<1>. QED  BY <1>3, <1>4 DEF Swap, New, NewInode

(***************************************************************************)
(* However often a render is executed, wherever it fails, is canceled or    *)
(* dies, and whatever a foreign process puts at its paths: the destination  *)
(* and the backup never name a half-written file, no copy is readable by    *)
(* more than its original, without a foreign process the file that was      *)
(* replaced is in the backup, and no execution that returns leaves its      *)
(* temporary file (runFileRender, copyFileAtomic,                           *)
(* atomicWriteFileRenderDestination).                                       *)
(***************************************************************************)
THEOREM RenderIsSafe == RenderSpec => []FileRenderSafe
<1>1. RenderInit => FileInv
  BY FileInvInit
<1>2. FileInv /\ [RenderNext]_renderVars => FileInv'
  <2>. SUFFICES ASSUME FileInv, [RenderNext]_renderVars PROVE FileInv'
    OBVIOUS
  <2>1. CASE UNCHANGED renderVars
    BY <2>1 DEF renderVars, renderMem, FileInv, FileShape, TempKnown, WholeFiles, CopiesPrivate,
                CopyMarked, OriginalKept, Undisturbed, BackedUp, Id
  <2>2. CASE CreateTemp \/ FillTemp \/ applyFileRenderMetadataToFile
             \/ RenameTemp
    BY <2>2, CreateTempKeeps, FillTempKeeps, MetadataKeeps, RenameKeeps
  <2>3. CASE Swap("dest") \/ (stage \in Writing /\ Swap("temp"))
    BY <2>3, SwapKeeps
  <2>. QED  BY <2>1, <2>2, <2>3, FileLooksKeep DEF RenderNext, Writing
<1>3. FileInv => FileRenderSafe
  BY FileInvSuffices
<1>. QED  BY <1>1, <1>2, <1>3, PTL DEF RenderSpec

-----------------------------------------------------------------------------
(* The webhook execution.                                                   *)

WindowState == [at : Nat, count : Nat]
Underway == {"validate", "resolve", "attempt", "backoff", "outputs"}
Point == Underway \cup {"begin", "denied", "ok", "failed"}

EngineShape ==
    /\ second \in 1..MaxSecond
    /\ hits \in [Limiter -> WindowState]
    /\ slots \in Nat
    /\ admitted \in [1..MaxSecond -> Nat]

RunsShape ==
    /\ runPc \in [Run -> Point] /\ host \in [Run -> Host] /\ ips \in [Run -> SUBSET Addr]
    /\ DOMAIN requests = Run /\ DOMAIN trail = Run /\ DOMAIN answered = Run
    /\ DOMAIN dialed = Run

(* Every admitted execution was counted by the tenant's limiter in the      *)
(* window of its second, and no later second has admitted any.              *)
AdmissionsCounted ==
    /\ hits["tenant"].at <= second /\ hits["tenant"].count <= PerSecond
    /\ admitted[second] <= Window("tenant").count
    /\ \A s \in 1..MaxSecond : admitted[s] <= PerSecond /\ (s > second => admitted[s] = 0)

(* A trail is a chain of hashes, and says of each event which one it is:    *)
(* the resolution, the attempts in their order and, once it is done, the    *)
(* completion.  Two events in a row are therefore never alike.              *)
IsTrail(t, end) ==
    /\ \E E : t \in Seq(E)
    /\ \A i \in 1..Len(t) :
          /\ t[i].parent = IF i = 1 THEN <<>> ELSE t[i - 1].hash
          /\ t[i].hash = AuditEventHash(t[i])
          /\ t[i].type = IF i = 1 THEN "resolvedTarget"
                         ELSE IF end = "closed" /\ i = Len(t) THEN "completed" ELSE "attempt"
          /\ t[i].attempt = IF end = "closed" /\ i = Len(t) THEN i - 2 ELSE i - 1

Safe(h, addrs) == h \in Private \/ addrs \cap Unsafe = {}

(* What is known of an execution at each point.                             *)
RunOK(p, h, addrs, n, t, a, d) ==
    /\ n \in Nat
    /\ p = "ok" => IsTrail(t, "closed")
    /\ p # "ok" => IsTrail(t, "open")
    /\ p \in {"begin", "denied", "validate", "resolve"} => t = <<>> /\ n = 0 /\ d = {}
    /\ p \in {"resolve", "attempt", "backoff", "outputs"} => h \in Allowed
    /\ p \in {"attempt", "backoff"} => Safe(h, addrs) /\ Len(t) = n + 1
    /\ p = "outputs" => Len(t) = n + 1 /\ n > 0
    /\ p = "ok" => Len(t) = n + 2 /\ n > 0 /\ t[Len(t)].status = a
    /\ d # {} => h \in Allowed /\ Safe(h, d)

RunsOK ==
    \A r \in Run : RunOK(runPc[r], host[r], ips[r], requests[r], trail[r], answered[r], dialed[r])

SlotsCounted == slots = Cardinality(Under) /\ slots <= Concurrent

WebhookInv == EngineShape /\ RunsShape /\ AdmissionsCounted /\ RunsOK /\ SlotsCounted

-----------------------------------------------------------------------------
(* Trails.                                                                  *)

LEMMA EmptyTrail == IsTrail(<<>>, "open")
  BY DEF IsTrail

LEMMA Appended ==
    ASSUME NEW E, NEW t \in Seq(E), NEW e, NEW u, u = Append(t, e)
    PROVE  /\ u \in Seq(E \cup {e}) /\ Len(t) \in Nat /\ Len(u) = Len(t) + 1
           /\ u[Len(t) + 1] = e
           /\ \A i \in 1..Len(t) : u[i] = t[i]
<1>1. t \in Seq(E \cup {e})
  OBVIOUS
<1>. QED  BY <1>1

Kind(t, end) ==
    IF t = <<>> THEN "resolvedTarget" ELSE IF end = "closed" THEN "completed" ELSE "attempt"
Number(t, end) == IF end = "closed" THEN Len(t) - 1 ELSE Len(t)

(* An event of the right kind makes a trail longer.                         *)
LEMMA TrailGrows ==
    ASSUME NEW t, IsTrail(t, "open"), NEW end \in {"open", "closed"}, end = "closed" => t # <<>>,
           NEW http, NEW reason, NEW u,
           u = webhookAppendAuditEvent(t, Kind(t, end), Number(t, end), http, reason)
    PROVE  /\ IsTrail(u, end) /\ Len(u) = Len(t) + 1 /\ u # <<>>
           /\ u[Len(u)].status = http
<1>. DEFINE type == Kind(t, end)
            n == Number(t, end)
<1>1. PICK E : t \in Seq(E)
  BY DEF IsTrail
<1>. DEFINE par == IF t = <<>> THEN <<>> ELSE t[Len(t)].hash
            e == [parent |-> par, type |-> type, attempt |-> n, status |-> http,
                  reason |-> reason, hash |-> <<par, type, n, http, reason>>]
<1>2. u = Append(t, e)
  BY DEF webhookAppendAuditEvent, AuditEventHash
<1>3. /\ e.parent = par /\ e.type = type /\ e.attempt = n /\ e.status = http
      /\ e.hash = AuditEventHash(e)
  BY DEF AuditEventHash
<1>. USE DEF Kind, Number
<1>. HIDE DEF e
<1>4. /\ u \in Seq(E \cup {e}) /\ Len(t) \in Nat /\ Len(u) = Len(t) + 1
      /\ u[Len(t) + 1] = e /\ \A i \in 1..Len(t) : u[i] = t[i]
  BY <1>1, <1>2, Appended
<1>5. t = <<>> <=> Len(t) = 0
  BY <1>1
<1>6. ASSUME NEW i \in 1..Len(u)
      PROVE  /\ u[i].parent = IF i = 1 THEN <<>> ELSE u[i - 1].hash
             /\ u[i].hash = AuditEventHash(u[i])
             /\ u[i].type = IF i = 1 THEN "resolvedTarget"
                            ELSE IF end = "closed" /\ i = Len(u) THEN "completed" ELSE "attempt"
             /\ u[i].attempt = IF end = "closed" /\ i = Len(u) THEN i - 2 ELSE i - 1
  <2>1. CASE i = Len(t) + 1
    BY <1>3, <1>4, <1>5, <2>1
  <2>2. CASE i \in 1..Len(t)
    <3>1. u[i] = t[i] /\ (i # 1 => u[i - 1] = t[i - 1]) /\ i # Len(u)
      BY <1>4, <2>2
    <3>. QED  BY <2>2, <3>1 DEF IsTrail
  <2>. QED  BY <1>4, <2>1, <2>2
<1>7. IsTrail(u, end)
  BY <1>4, <1>6 DEF IsTrail
<1>. QED  BY <1>3, <1>4, <1>7

LEMMA OpenTrailGrows ==
    ASSUME NEW t, IsTrail(t, "open"), NEW http, NEW reason, NEW u,
           u = webhookAppendAuditEvent(t, Kind(t, "open"), Number(t, "open"), http, reason)
    PROVE  IsTrail(u, "open") /\ Len(u) = Len(t) + 1
  BY TrailGrows

LEMMA TrailStarts ==
    ASSUME NEW t, t = <<>>, NEW n, n = 0, NEW http, NEW reason, NEW u,
           u = webhookAppendAuditEvent(t, "resolvedTarget", n, http, reason)
    PROVE  IsTrail(u, "open") /\ Len(u) = 1
<1>1. Kind(t, "open") = "resolvedTarget" /\ Number(t, "open") = n /\ Len(t) = 0
  BY DEF Kind, Number
<1>2. IsTrail(t, "open")
  BY EmptyTrail
<1>3. u = webhookAppendAuditEvent(t, Kind(t, "open"), Number(t, "open"), http, reason)
  BY <1>1
<1>4. IsTrail(u, "open") /\ Len(u) = Len(t) + 1
  BY ONLY <1>2, <1>3, OpenTrailGrows
<1>. QED  BY <1>1, <1>4

LEMMA TrailContinues ==
    ASSUME NEW t, IsTrail(t, "open"), t # <<>>, NEW n, n = Len(t), NEW http, NEW reason, NEW u,
           u = webhookAppendAuditEvent(t, "attempt", n, http, reason)
    PROVE  IsTrail(u, "open") /\ Len(u) = Len(t) + 1
<1>1. Kind(t, "open") = "attempt" /\ Number(t, "open") = n
  BY DEF Kind, Number
<1>. QED  BY <1>1, TrailGrows

LEMMA TrailCompletes ==
    ASSUME NEW t, IsTrail(t, "open"), t # <<>>, NEW n, n = Len(t) - 1, NEW http, NEW reason,
           NEW u, u = webhookAppendAuditEvent(t, "completed", n, http, reason)
    PROVE  IsTrail(u, "closed") /\ Len(u) = Len(t) + 1 /\ u[Len(u)].status = http
<1>1. Kind(t, "closed") = "completed" /\ Number(t, "closed") = n
  BY DEF Kind, Number
<1>. QED  BY <1>1, TrailGrows

LEMMA Removed ==
    ASSUME NEW E, NEW t \in Seq(E), NEW i \in 1..Len(t), NEW u, u = Without(t, i)
    PROVE  /\ u \in Seq(E) /\ Len(u) = Len(t) - 1
           /\ \A j \in 1..(i - 1) : u[j] = t[j]
           /\ \A j \in i..(Len(t) - 1) : u[j] = t[j + 1]
<1>. DEFINE a == SubSeq(t, 1, i - 1)
            b == SubSeq(t, i + 1, Len(t))
<1>1. a \in Seq(E) /\ Len(a) = i - 1 /\ \A j \in 1..(i - 1) : a[j] = t[j]
  BY SubSeqProperties
<1>2. b \in Seq(E) /\ Len(b) = Len(t) - i /\ \A j \in 1..(Len(t) - i) : b[j] = t[i + j]
  BY SubSeqProperties
<1>3. u = a \o b
  BY DEF Without
<1>. HIDE DEF a, b
<1>4. u \in Seq(E) /\ Len(u) = Len(a) + Len(b)
  BY <1>1, <1>2, <1>3, ConcatProperties
<1>5. /\ \A j \in 1..Len(a) : u[j] = a[j]
      /\ \A j \in (Len(a) + 1)..(Len(a) + Len(b)) : u[j] = b[j - Len(a)]
  BY <1>1, <1>2, <1>3, ConcatProperties
<1>6. ASSUME NEW j \in i..(Len(t) - 1) PROVE u[j] = t[j + 1]
  <2>. DEFINE k == j - (i - 1)
  <2>1. /\ j \in (Len(a) + 1)..(Len(a) + Len(b)) /\ k = j - Len(a)
        /\ k \in 1..(Len(t) - i) /\ i + k = j + 1
    BY <1>1, <1>2
  <2>2. u[j] = b[k] /\ b[k] = t[i + k]
    BY <1>2, <1>5, <2>1
  <2>. QED  BY <2>1, <2>2
<1>. QED  BY <1>1, <1>2, <1>4, <1>5, <1>6

(* Neighbours differ in their type or in the number of the attempt.         *)
LEMMA NeighboursDiffer ==
    ASSUME NEW t, NEW end \in {"open", "closed"}, IsTrail(t, end), end = "closed" => Len(t) > 2,
           NEW i \in 2..Len(t)
    PROVE  t[i].hash # t[i - 1].hash
<1>1. Len(t) \in Nat
  BY DEF IsTrail
<1>2. t[i].type # t[i - 1].type \/ t[i].attempt # t[i - 1].attempt
  BY <1>1 DEF IsTrail
<1>3. t[i].hash = AuditEventHash(t[i]) /\ t[i - 1].hash = AuditEventHash(t[i - 1])
  BY <1>1 DEF IsTrail
<1>. QED  BY <1>2, <1>3 DEF AuditEventHash

LEMMA EndsOfInterval ==
    /\ \A n \in Nat : n > 0 => n \in 1..n
    /\ \A n \in Nat : \A i \in 1..n :
          i = 1 /\ i # n => 2 \in 1..n /\ 1 \in 1..n /\ 2 - 1 = 1
  OBVIOUS

Chained(u) == \A j \in DOMAIN u : u[j].parent = IF j = 1 THEN <<>> ELSE u[j - 1].hash

(* An event taken out breaks the chain or its end.                          *)
LEMMA TamperShows ==
    ASSUME NEW t, NEW end \in {"open", "closed"}, IsTrail(t, end), end = "closed" => Len(t) > 2,
           NEW i \in 1..Len(t), NEW u, u = Without(t, i),
           u # <<>>, u[Len(u)].hash = t[Len(t)].hash, Chained(u)
    PROVE  FALSE
<1>. USE DEF Chained
<1>1. PICK E : t \in Seq(E)
  BY DEF IsTrail
<1>2. Len(t) \in Nat
  BY <1>1
<1>3. /\ u \in Seq(E) /\ Len(u) = Len(t) - 1
      /\ \A j \in 1..(i - 1) : u[j] = t[j]
      /\ \A j \in i..(Len(t) - 1) : u[j] = t[j + 1]
  BY <1>1, Removed
<1>4. Len(u) > 0 /\ DOMAIN u = 1..Len(u)
  BY <1>3
<1>5. \A j \in 2..Len(t) : t[j].hash # t[j - 1].hash
  BY NeighboursDiffer
<1>6. CASE i = Len(t)
  <2>1. u[Len(u)] = t[Len(t) - 1] /\ Len(t) \in 2..Len(t)
    BY <1>2, <1>3, <1>4, <1>6
  <2>. QED  BY <1>5, <2>1
<1>7. CASE i = 1 /\ i # Len(t)
  <2>1. u[1] = t[2] /\ u[1].parent = <<>>
    BY <1>2, <1>3, <1>4, <1>7
  <2>2. t[2].parent = t[1].hash /\ t[1].hash = AuditEventHash(t[1])
    <3>1. 2 \in 1..Len(t) /\ 1 \in 1..Len(t) /\ 2 - 1 = 1
      BY <1>2, <1>7, EndsOfInterval, Zenon
    <3>. QED  BY <3>1 DEF IsTrail
  <2>3. AuditEventHash(t[1]) # <<>>
    BY DEF AuditEventHash
  <2>. QED  BY <2>1, <2>2, <2>3
<1>8. CASE i > 1 /\ i < Len(t)
  <2>1. u[i] = t[i + 1] /\ u[i - 1] = t[i - 1] /\ u[i].parent = u[i - 1].hash
    <3>1. i \in DOMAIN u /\ i # 1 /\ i - 1 \in 1..(i - 1) /\ i \in i..(Len(t) - 1)
      BY <1>2, <1>3, <1>4, <1>8
    <3>. QED  BY <1>3, <3>1
  <2>2. i + 1 \in 1..Len(t) /\ i + 1 # 1 /\ (i + 1) - 1 = i /\ i \in 2..Len(t)
    BY <1>2, <1>8
  <2>3. t[i + 1].parent = t[i].hash
    BY <2>2 DEF IsTrail
  <2>. QED  BY <1>5, <2>1, <2>2, <2>3
<1>9. i = Len(t) \/ (i = 1 /\ i # Len(t)) \/ (i > 1 /\ i < Len(t))
  BY <1>2
<1>. QED  BY <1>6, <1>7, <1>8, <1>9

LEMMA TamperedFails ==
    ASSUME NEW t, NEW end \in {"open", "closed"}, IsTrail(t, end), end = "closed" => Len(t) > 2,
           NEW i \in DOMAIN t, NEW u, u = Without(t, i), NEW root, NEW a, NEW n,
           webhookVerifyAuditTrail(u, root, t[Len(t)].hash, a, n)
    PROVE  FALSE
<1>1. PICK E : t \in Seq(E)
  BY DEF IsTrail
<1>2. i \in 1..Len(t)
  BY <1>1
<1>3. u # <<>> /\ u[Len(u)].hash = t[Len(t)].hash
  BY DEF webhookVerifyAuditTrail
<1>4. Chained(u)
  BY DEF webhookVerifyAuditTrail, Chained
<1>. QED  BY <1>2, <1>3, <1>4, TamperShows

(* The trail of an execution that succeeded, and only that, ends well.      *)
LEMMA TrailEnds ==
    ASSUME NEW t, NEW end \in {"open", "closed"}, NEW n \in Nat, NEW a, IsTrail(t, end),
           end = "closed" => Len(t) = n + 2 /\ n > 0 /\ t[Len(t)].status = a
    PROVE  (end = "closed") <=> /\ t # <<>>
                    /\ webhookVerifyAuditTrail(t, t[1].hash, t[Len(t)].hash, a, n)
<1>1. PICK E : t \in Seq(E)
  BY DEF IsTrail
<1>2. /\ Len(t) \in Nat /\ DOMAIN t = 1..Len(t) /\ (t # <<>> <=> Len(t) > 0)
  BY <1>1
<1>3. ASSUME end = "closed"
      PROVE  /\ t # <<>>
             /\ webhookVerifyAuditTrail(t, t[1].hash, t[Len(t)].hash, a, n)
  <2>1. /\ t # <<>> /\ Len(t) \in 1..Len(t) /\ Len(t) # 1 /\ t[Len(t)].status = a
        /\ Len(t) - 2 = n
    BY <1>2, <1>3
  <2>2. t[Len(t)].type = "completed" /\ t[Len(t)].attempt = n
    BY <1>3, <2>1 DEF IsTrail
  <2>3. \A i \in DOMAIN t : /\ t[i].parent = IF i = 1 THEN <<>> ELSE t[i - 1].hash
                            /\ t[i].hash = AuditEventHash(t[i])
    BY <1>2 DEF IsTrail
  <2>. QED  BY <2>1, <2>2, <2>3 DEF webhookVerifyAuditTrail
<1>4. ASSUME t # <<>>, webhookVerifyAuditTrail(t, t[1].hash, t[Len(t)].hash, a, n) PROVE end = "closed"
  <2>0. t # <<>>
    BY <1>4
  <2>1. Len(t) \in 1..Len(t)
    BY <1>2, <2>0, EndsOfInterval, Zenon
  <2>2. t[Len(t)].type = "completed"
    BY <1>4 DEF webhookVerifyAuditTrail
  <2>. QED  BY <2>1, <2>2 DEF IsTrail
<1>. QED  BY <1>3, <1>4

LEMMA RunVerdict ==
    ASSUME NEW r \in Run,
           RunOK(runPc[r], host[r], ips[r], requests[r], trail[r], answered[r], dialed[r])
    PROVE  /\ runPc[r] = "ok" <=> Verifies(r, trail[r])
           /\ \A i \in DOMAIN trail[r] : ~Verifies(r, Without(trail[r], i))
<1>1. PICK t, end : end \in {"open", "closed"} /\ t = trail[r] /\ ((end = "closed") <=> runPc[r] = "ok")
  <2>1. CASE runPc[r] = "ok"
    BY <2>1
  <2>2. CASE runPc[r] # "ok"
    BY <2>2
  <2>. QED  BY <2>1, <2>2
<1>2. /\ IsTrail(t, end) /\ requests[r] \in Nat
      /\ end = "closed" => /\ Len(t) = requests[r] + 2 /\ requests[r] > 0
                 /\ t[Len(t)].status = answered[r]
  <2>1. CASE end = "closed"
    BY <1>1, <2>1 DEF RunOK
  <2>2. CASE end # "closed"
    BY <1>1, <2>2 DEF RunOK
  <2>. QED  BY <2>1, <2>2
<1>3. (end = "closed") <=> /\ t # <<>>
               /\ webhookVerifyAuditTrail(t, t[1].hash, t[Len(t)].hash, answered[r], requests[r])
  BY <1>1, <1>2, TrailEnds
<1>4. ASSUME NEW i \in DOMAIN t, NEW u, u = Without(t, i), t # <<>>,
             webhookVerifyAuditTrail(u, t[1].hash, t[Len(t)].hash, answered[r], requests[r])
      PROVE  FALSE
  <2>1. end = "closed" => Len(t) > 2
    BY <1>2
  <2>2. end \in {"open", "closed"} /\ IsTrail(t, end)
    BY <1>1, <1>2
  <2>. QED  BY <1>4, <2>1, <2>2, TamperedFails
<1>. QED  BY <1>1, <1>3, <1>4 DEF Verifies

-----------------------------------------------------------------------------
(* Admission.                                                               *)

LEMMA UnderIsFinite == IsFiniteSet(Under) /\ Cardinality(Under) \in Nat
  BY WebhookLimits, FS_Subset, FS_CardinalityType DEF Under

LEMMA Enters ==
    ASSUME runPc \in [Run -> Point], NEW r \in Run, runPc[r] \notin Underway, NEW l \in Underway,
           runPc' = [runPc EXCEPT ![r] = l]
    PROVE  Cardinality(Under') = Cardinality(Under) + 1
<1>1. Under' = Under \cup {r} /\ r \notin Under
  BY DEF Under, Underway
<1>. QED  BY <1>1, UnderIsFinite, FS_AddElement

LEMMA Leaves ==
    ASSUME runPc \in [Run -> Point], NEW r \in Run, runPc[r] \in Underway,
           NEW l, l \notin Underway, runPc' = [runPc EXCEPT ![r] = l]
    PROVE  Cardinality(Under') = Cardinality(Under) - 1 /\ Cardinality(Under) > 0
<1>1. Under' = Under \ {r} /\ r \in Under
  BY DEF Under, Underway
<1>2. Cardinality(Under') = Cardinality(Under) - 1
  BY <1>1, UnderIsFinite, FS_RemoveElement
<1>3. Cardinality(Under) > 0
  BY <1>1, UnderIsFinite, FS_EmptySet
<1>. QED  BY <1>2, <1>3

LEMMA Stays ==
    ASSUME runPc \in [Run -> Point], NEW r \in Run, NEW l, runPc[r] \in Underway <=> l \in Underway,
           runPc' = [runPc EXCEPT ![r] = l]
    PROVE  Under' = Under
  BY DEF Under, Underway

EngineInv == EngineShape /\ AdmissionsCounted /\ SlotsCounted

LEMMA ReturnsFreesSlot ==
    ASSUME EngineInv, RunsShape, NEW r \in Run, NEW good \in BOOLEAN, runPc[r] \in Underway,
           Returns(r, good)
    PROVE  EngineInv'
<1>1. /\ slots' = (IF slots > 0 THEN slots - 1 ELSE slots)
      /\ runPc' = [runPc EXCEPT ![r] = IF good THEN "ok" ELSE "failed"]
      /\ UNCHANGED <<second, hits, admitted>>
  BY DEF Returns, recordResult, RunGoto
<1>2. Cardinality(Under') = Cardinality(Under) - 1 /\ Cardinality(Under) > 0
  <2>1. (IF good THEN "ok" ELSE "failed") \notin Underway
    BY DEF Underway
  <2>. QED  BY <1>1, <2>1, Leaves DEF RunsShape
<1>3. EngineShape' /\ AdmissionsCounted'
  BY <1>1 DEF EngineInv, EngineShape, AdmissionsCounted, Window
<1>4. SlotsCounted'
  BY <1>1, <1>2, WebhookLimits DEF EngineInv, EngineShape, SlotsCounted
<1>. QED  BY <1>3, <1>4 DEF EngineInv

LEMMA GoesKeepsSlot ==
    ASSUME EngineInv, RunsShape, NEW r \in Run, NEW l \in Underway, runPc[r] \in Underway, Goes(r, l)
    PROVE  EngineInv'
<1>1. runPc' = [runPc EXCEPT ![r] = l] /\ UNCHANGED <<second, hits, slots, admitted>>
  BY DEF Goes, RunGoto, engine
<1>2. Under' = Under
  BY <1>1, Stays DEF RunsShape
<1>. QED
  BY <1>1, <1>2 DEF EngineInv, EngineShape, AdmissionsCounted, SlotsCounted, Window

(* A limiter that is asked has its window at the present second; the first  *)
(* one counts what the three let through.                                   *)
LEMMA LimitersCount ==
    ASSUME EngineShape, hits["tenant"].count <= PerSecond, NEW h, h = Limiters(hits).hits
    PROVE  /\ h \in [Limiter -> WindowState]
           /\ h["tenant"].at = second /\ h["tenant"].count <= PerSecond
           /\ h["tenant"].count >= Window("tenant").count
           /\ Limiters(hits).ok => h["tenant"].count = Window("tenant").count + 1
<1>. DEFINE w(l) == Window(l)
            Up(l) == [w(l) EXCEPT !.count = @ + 1]
<1>1. \A l \in Limiter : w(l) \in WindowState /\ w(l).at = second
  BY DEF EngineShape, Window, WindowState
<1>2. \A l \in Limiter : /\ Up(l) \in WindowState
                         /\ Up(l).at = second /\ Up(l).count = w(l).count + 1
  BY <1>1 DEF WindowState
<1>3. w("tenant").count <= PerSecond /\ "tenant" \in Limiter
  BY WebhookLimits DEF Window, Limiter
<1>4. CASE ~allow("tenant")
  <2>1. h = [hits EXCEPT !["tenant"] = w("tenant")] /\ Limiters(hits).ok = FALSE
    BY <1>4 DEF Limiters
  <2>. QED  BY <1>1, <1>3, <2>1 DEF EngineShape, Limiter, WindowState
<1>5. CASE allow("tenant")
  <2>1. w("tenant").count < PerSecond
    BY <1>5 DEF allow
  <2>2. \/ h = [[hits EXCEPT !["tenant"] = Up("tenant")] EXCEPT !["agent"] = w("agent")]
        \/ h = [[[hits EXCEPT !["tenant"] = Up("tenant")] EXCEPT !["agent"] = Up("agent")]
                  EXCEPT !["corridor"] = w("corridor")]
        \/ h = [[[hits EXCEPT !["tenant"] = Up("tenant")] EXCEPT !["agent"] = Up("agent")]
                  EXCEPT !["corridor"] = Up("corridor")]
    <3>1. CASE ~allow("agent")
      BY <1>5, <3>1 DEF Limiters, Hit
    <3>2. CASE allow("agent") /\ ~allow("corridor")
      BY <1>5, <3>2 DEF Limiters, Hit
    <3>3. CASE allow("agent") /\ allow("corridor")
      BY <1>5, <3>3 DEF Limiters, Hit
    <3>. QED  BY <3>1, <3>2, <3>3
  <2>. HIDE DEF w, Up
  <2>3. h \in [Limiter -> WindowState] /\ h["tenant"] = Up("tenant")
    BY <1>1, <1>2, <2>2 DEF EngineShape, Limiter
  <2>4. /\ Up("tenant").at = second /\ Up("tenant").count = w("tenant").count + 1
        /\ w("tenant").count \in Nat
    BY <1>1, <1>2, <1>3 DEF WindowState
  <2>. QED  BY <2>1, <2>3, <2>4, WebhookLimits DEF w
<1>. QED  BY <1>4, <1>5

(* The engine decides: the execution takes a slot and is counted, or is     *)
(* denied before anything was sent.                                         *)
LEMMA PolicyDecides ==
    ASSUME EngineInv, RunsShape, NEW r \in Run, EvaluateWebhookPolicy(r)
    PROVE  /\ EngineInv'
           /\ runPc[r] = "begin"
           /\ \E l \in {"validate", "denied"} : runPc' = [runPc EXCEPT ![r] = l]
           /\ UNCHANGED <<host, ips, requests, trail, answered, dialed>>
<1>. USE DEF EngineInv
<1>1. /\ runPc[r] = "begin" /\ UNCHANGED <<second, host, ips, requests, trail, answered, dialed>>
      /\ \/ Denied(r) /\ UNCHANGED hits
         \/ Denied(r) /\ hits' = Limiters(hits).hits
         \/ /\ hits' = Limiters(hits).hits /\ Limiters(hits).ok /\ slots < Concurrent
            /\ slots' = slots + 1 /\ RunGoto(r, "validate")
            /\ admitted' = [admitted EXCEPT ![second] = @ + 1]
  BY DEF EvaluateWebhookPolicy, RunIs
<1>2. /\ hits' = Limiters(hits).hits =>
           /\ hits' \in [Limiter -> WindowState]
           /\ hits'["tenant"].at = second /\ hits'["tenant"].count <= PerSecond
           /\ hits'["tenant"].count >= Window("tenant").count
           /\ Limiters(hits).ok => hits'["tenant"].count = Window("tenant").count + 1
  BY LimitersCount DEF AdmissionsCounted
<1>3. Window("tenant").count \in Nat
  BY DEF EngineShape, Window, WindowState, Limiter
<1>4. CASE Denied(r)
  <2>1. runPc' = [runPc EXCEPT ![r] = "denied"] /\ UNCHANGED <<slots, admitted, second>>
    BY <1>1, <1>4 DEF Denied, RunGoto
  <2>2. Under' = Under
    BY <1>1, <2>1, Stays DEF Underway, RunsShape
  <2>3. CASE UNCHANGED hits
    BY <1>1, <2>1, <2>2, <2>3 DEF EngineShape, AdmissionsCounted, SlotsCounted, Window
  <2>4. CASE hits' = Limiters(hits).hits
    <3>1. EngineShape' /\ SlotsCounted'
      BY <1>2, <2>1, <2>2, <2>4 DEF EngineShape, SlotsCounted
    <3>2. Window("tenant")' = hits'["tenant"]
      BY <1>2, <2>1, <2>4 DEF Window
    <3>3. hits'["tenant"].count \in Nat /\ second \in Nat
      BY <1>2, <2>4, WebhookLimits DEF WindowState, Limiter, EngineShape
    <3>4. admitted[second] \in Nat /\ admitted[second] <= Window("tenant").count
      BY DEF EngineShape, AdmissionsCounted
    <3>5. AdmissionsCounted'
      BY <1>2, <1>3, <2>1, <2>4, <3>2, <3>3, <3>4, WebhookLimits DEF AdmissionsCounted
    <3>. QED  BY <1>1, <2>1, <3>1, <3>5
  <2>. QED  BY <1>1, <2>1, <2>3, <2>4
<1>5. CASE /\ hits' = Limiters(hits).hits /\ Limiters(hits).ok /\ slots < Concurrent
           /\ slots' = slots + 1 /\ RunGoto(r, "validate")
           /\ admitted' = [admitted EXCEPT ![second] = @ + 1]
  <2>1. runPc' = [runPc EXCEPT ![r] = "validate"]
    BY <1>5 DEF RunGoto
  <2>2. Cardinality(Under') = Cardinality(Under) + 1
    BY <1>1, <2>1, Enters DEF Underway, RunsShape
  <2>3. SlotsCounted' /\ EngineShape'
    BY <1>1, <1>2, <1>5, <2>2, WebhookLimits DEF SlotsCounted, EngineShape
  <2>4. Window("tenant")' = hits'["tenant"]
    BY <1>1, <1>2, <1>5 DEF Window
  <2>5. hits'["tenant"].count \in Nat /\ second \in Nat
    BY <1>2, <1>5, WebhookLimits DEF WindowState, Limiter, EngineShape
  <2>6. /\ admitted'[second] = admitted[second] + 1
        /\ \A s \in 1..MaxSecond : s # second => admitted'[s] = admitted[s]
        /\ \A s \in 1..MaxSecond : admitted[s] \in Nat
    BY <1>5 DEF EngineShape
  <2>7. second \in 1..MaxSecond /\ admitted[second] <= Window("tenant").count
    BY DEF EngineShape, AdmissionsCounted
  <2>8. admitted'[second] <= hits'["tenant"].count
    BY <1>2, <1>3, <1>5, <2>5, <2>6, <2>7
  <2>9. AdmissionsCounted'
    BY <1>1, <1>2, <1>5, <2>4, <2>5, <2>6, <2>7, <2>8, WebhookLimits DEF AdmissionsCounted
  <2>. QED  BY <1>1, <2>1, <2>3, <2>9
<1>. QED  BY <1>1, <1>4, <1>5

-----------------------------------------------------------------------------
(* What a step does to the execution that takes it, and to no other.        *)

Sets(f, g, r, v) == DOMAIN g = Run /\ g[r] = v /\ \A q \in Run \ {r} : g[q] = f[q]

RunChanges(r, p, addrs, n, t, a, d) ==
    /\ UNCHANGED host
    /\ runPc' = [runPc EXCEPT ![r] = p]
    /\ ips' \in [Run -> SUBSET Addr] /\ Sets(ips, ips', r, addrs)
    /\ Sets(requests, requests', r, n) /\ Sets(trail, trail', r, t)
    /\ Sets(answered, answered', r, a) /\ Sets(dialed, dialed', r, d)

LEMMA RunsFollow ==
    ASSUME RunsShape, RunsOK, NEW r \in Run, NEW p \in Point, NEW addrs, NEW n,
           NEW t, NEW a, NEW d, RunChanges(r, p, addrs, n, t, a, d),
           RunOK(p, host[r], addrs, n, t, a, d)
    PROVE  RunsShape' /\ RunsOK'
<1>1. RunsShape'
  BY DEF RunChanges, RunsShape, Sets
<1>2. ASSUME NEW q \in Run
      PROVE  RunOK(runPc'[q], host'[q], ips'[q], requests'[q], trail'[q], answered'[q], dialed'[q])
  <2>1. CASE q = r
    BY <2>1 DEF RunChanges, RunsShape, Sets
  <2>2. CASE q # r
    BY <2>2 DEF RunChanges, RunsShape, RunsOK, Sets
  <2>. QED  BY <2>1, <2>2
<1>. QED  BY <1>1, <1>2 DEF RunsOK

(* What suffices at the points that several steps lead to.                  *)
LEMMA RunFails ==
    ASSUME NEW h, NEW addrs, NEW n \in Nat, NEW t, NEW a, NEW d, IsTrail(t, "open"),
           d # {} => h \in Allowed /\ Safe(h, d)
    PROVE  RunOK("failed", h, addrs, n, t, a, d)
  BY DEF RunOK

LEMMA RunGoesOn ==
    ASSUME NEW h \in Allowed, NEW addrs, NEW n \in Nat, NEW t, NEW a, NEW d, IsTrail(t, "open"),
           Len(t) = n + 1, Safe(h, addrs), Safe(h, d)
    PROVE  /\ RunOK("attempt", h, addrs, n, t, a, d) /\ RunOK("backoff", h, addrs, n, t, a, d)
           /\ n > 0 => RunOK("outputs", h, addrs, n, t, a, d)
  BY DEF RunOK

LEMMA RunSucceeds ==
    ASSUME NEW h \in Allowed, NEW addrs, NEW n \in Nat, NEW t, NEW a, NEW d, IsTrail(t, "closed"),
           Len(t) = n + 2, n > 0, t[Len(t)].status = a, d # {} => Safe(h, d)
    PROVE  RunOK("ok", h, addrs, n, t, a, d)
  BY DEF RunOK

LEMMA Kept == ASSUME NEW f, DOMAIN f = Run, NEW r \in Run PROVE Sets(f, f, r, f[r])
  BY DEF Sets

LEMMA Replaced ==
    ASSUME NEW f, DOMAIN f = Run, NEW r \in Run, NEW v PROVE Sets(f, [f EXCEPT ![r] = v], r, v)
  BY DEF Sets

-----------------------------------------------------------------------------
LEMMA EngineKept ==
    ASSUME EngineInv, UNCHANGED <<second, hits, slots, admitted, runPc>>
    PROVE  EngineInv'
<1>1. Under' = Under
  BY DEF Under
<1>. QED
  BY <1>1 DEF EngineInv, EngineShape, AdmissionsCounted, SlotsCounted, Window

LEMMA PolicyStep ==
    ASSUME WebhookInv, NEW r \in Run, EvaluateWebhookPolicy(r)
    PROVE  WebhookInv'
<1>1. EngineInv /\ RunsShape /\ RunsOK
  BY DEF WebhookInv, EngineInv
<1>2. /\ EngineInv' /\ runPc[r] = "begin"
      /\ UNCHANGED <<host, ips, requests, trail, answered, dialed>>
  BY <1>1, PolicyDecides
<1>3. PICK l \in {"validate", "denied"} : runPc' = [runPc EXCEPT ![r] = l]
  BY <1>1, PolicyDecides
<1>. l \in Point
  BY DEF Point, Underway
<1>4. RunOK(runPc[r], host[r], ips[r], requests[r], trail[r], answered[r], dialed[r])
  BY <1>1 DEF RunsOK
<1>5. RunOK(l, host[r], ips[r], requests[r], trail[r], answered[r], dialed[r])
  BY <1>2, <1>4 DEF RunOK
<1>6. RunChanges(r, l, ips[r], requests[r], trail[r], answered[r], dialed[r])
  BY <1>1, <1>2, <1>3, Kept DEF RunChanges, RunsShape
<1>7. RunsShape' /\ RunsOK'
  BY <1>1, <1>5, <1>6, RunsFollow
<1>. QED  BY <1>2, <1>7 DEF WebhookInv, EngineInv

(* A return: the slot is freed, and a failure needs no more than a trail    *)
(* that is not completed.                                                   *)
LEMMA ReturnStep ==
    ASSUME WebhookInv, NEW r \in Run, NEW good \in BOOLEAN, runPc[r] \in Underway,
           Returns(r, good),
           NEW n, NEW t, NEW a, NEW d,
           Sets(requests, requests', r, n), Sets(trail, trail', r, t),
           Sets(answered, answered', r, a), Sets(dialed, dialed', r, d),
           RunOK(IF good THEN "ok" ELSE "failed", host[r], ips[r], n, t, a, d)
    PROVE  WebhookInv'
<1>1. EngineInv /\ RunsShape /\ RunsOK
  BY DEF WebhookInv, EngineInv
<1>2. EngineInv'
  BY <1>1, ReturnsFreesSlot
<1>. DEFINE p == IF good THEN "ok" ELSE "failed"
<1>3. p \in Point
  BY DEF Point
<1>4. runPc' = [runPc EXCEPT ![r] = p] /\ UNCHANGED <<host, ips>>
  BY DEF Returns, RunGoto
<1>. HIDE DEF p
<1>5. RunChanges(r, p, ips[r], n, t, a, d)
  BY <1>1, <1>4, Kept DEF RunChanges, RunsShape
<1>6. RunOK(p, host[r], ips[r], n, t, a, d)
  BY DEF p
<1>7. RunsShape' /\ RunsOK'
  BY <1>1, <1>3, <1>5, <1>6, RunsFollow
<1>. QED  BY <1>2, <1>7 DEF WebhookInv, EngineInv

(* An execution that goes on keeps its slot.                                *)
LEMMA GoesStep ==
    ASSUME WebhookInv, NEW r \in Run, NEW l \in Underway, runPc[r] \in Underway, Goes(r, l),
           ips' \in [Run -> SUBSET Addr], NEW addrs, NEW n, NEW t, NEW a, NEW d,
           Sets(ips, ips', r, addrs), Sets(requests, requests', r, n),
           Sets(trail, trail', r, t), Sets(answered, answered', r, a),
           Sets(dialed, dialed', r, d),
           RunOK(l, host[r], addrs, n, t, a, d)
    PROVE  WebhookInv'
<1>1. EngineInv /\ RunsShape /\ RunsOK
  BY DEF WebhookInv, EngineInv
<1>2. EngineInv'
  BY <1>1, GoesKeepsSlot
<1>3. l \in Point
  BY DEF Point
<1>4. RunChanges(r, l, addrs, n, t, a, d)
  BY DEF RunChanges, Goes, RunGoto
<1>5. RunsShape' /\ RunsOK'
  BY <1>1, <1>3, <1>4, RunsFollow
<1>. QED  BY <1>2, <1>5 DEF WebhookInv, EngineInv

-----------------------------------------------------------------------------
(* The steps of an execution.                                               *)

LEMMA ValidateStep ==
    ASSUME WebhookInv, NEW r \in Run, validateWebhookTargetURL(r)
    PROVE  WebhookInv'
<1>. USE DEF Underway
<1>1. /\ RunsShape /\ runPc[r] = "validate"
      /\ RunOK(runPc[r], host[r], ips[r], requests[r], trail[r], answered[r], dialed[r])
  BY DEF WebhookInv, RunsOK, validateWebhookTargetURL, RunIs
<1>2. /\ Sets(requests, requests, r, requests[r]) /\ Sets(trail, trail, r, trail[r])
      /\ Sets(answered, answered, r, answered[r]) /\ Sets(dialed, dialed, r, dialed[r])
      /\ Sets(ips, ips, r, ips[r])
  BY <1>1, Kept DEF RunsShape
<1>3. CASE host[r] \in Allowed
  <2>1. Goes(r, "resolve") /\ UNCHANGED <<ips, requests, trail, answered, dialed>>
    BY <1>3 DEF validateWebhookTargetURL
  <2>2. RunOK("resolve", host[r], ips[r], requests[r], trail[r], answered[r], dialed[r])
    BY <1>1, <1>3 DEF RunOK
  <2>. QED  BY <1>1, <1>2, <2>1, <2>2, GoesStep DEF RunsShape
<1>4. CASE host[r] \notin Allowed
  <2>1. Returns(r, FALSE) /\ UNCHANGED <<requests, trail, answered, dialed>>
    BY <1>4 DEF validateWebhookTargetURL
  <2>2. RunOK("failed", host[r], ips[r], requests[r], trail[r], answered[r], dialed[r])
    BY <1>1 DEF RunOK
  <2>. QED  BY <1>1, <1>2, <2>1, <2>2, ReturnStep
<1>. QED  BY <1>3, <1>4

LEMMA ResolveStep ==
    ASSUME WebhookInv, NEW r \in Run, NEW answer \in SUBSET Addr, resolveWebhookTarget(r, answer)
    PROVE  WebhookInv'
<1>. USE DEF Underway
<1>1. /\ RunsShape /\ runPc[r] = "resolve"
      /\ RunOK(runPc[r], host[r], ips[r], requests[r], trail[r], answered[r], dialed[r])
  BY DEF WebhookInv, RunsOK, resolveWebhookTarget, RunIs
<1>2. /\ Sets(requests, requests, r, requests[r]) /\ Sets(trail, trail, r, trail[r])
      /\ Sets(answered, answered, r, answered[r]) /\ Sets(dialed, dialed, r, dialed[r])
  BY <1>1, Kept DEF RunsShape
<1>3. CASE lookupWebhookTargetIPs(host[r], answer) /\ r \notin runCanceled
  <2>. DEFINE t == webhookAppendAuditEvent(trail[r], "resolvedTarget", 0, 0, "")
  <2>1. /\ ips' = [ips EXCEPT ![r] = answer] /\ trail' = [trail EXCEPT ![r] = t]
        /\ Goes(r, "attempt") /\ UNCHANGED <<requests, answered, dialed>>
    BY <1>3 DEF resolveWebhookTarget
  <2>2. trail[r] = <<>> /\ IsTrail(trail[r], "open") /\ requests[r] = 0 /\ Len(trail[r]) = 0
    BY <1>1 DEF RunOK
  <2>3. IsTrail(t, "open") /\ Len(t) = 1
    BY <2>2, TrailStarts
  <2>. HIDE DEF t
  <2>4. Safe(host[r], answer)
    BY <1>3 DEF lookupWebhookTargetIPs, Safe
  <2>5. RunOK("attempt", host[r], answer, requests[r], t, answered[r], dialed[r])
    <3>1. host[r] \in Allowed /\ Safe(host[r], dialed[r])
      BY <1>1 DEF RunOK, Safe
    <3>2. requests[r] \in Nat /\ Len(t) = requests[r] + 1
      BY <2>2, <2>3
    <3>. QED  BY <2>3, <2>4, <3>1, <3>2, RunGoesOn
  <2>6. /\ ips' \in [Run -> SUBSET Addr] /\ Sets(ips, ips', r, answer)
        /\ Sets(trail, trail', r, t)
    BY <1>1, <2>1, Replaced DEF RunsShape
  <2>. QED  BY <1>1, <1>2, <2>1, <2>5, <2>6, GoesStep
<1>4. CASE ~(lookupWebhookTargetIPs(host[r], answer) /\ r \notin runCanceled)
  <2>1. Returns(r, FALSE) /\ UNCHANGED <<requests, trail, answered, dialed>>
    BY <1>4 DEF resolveWebhookTarget
  <2>2. RunOK("failed", host[r], ips[r], requests[r], trail[r], answered[r], dialed[r])
    BY <1>1 DEF RunOK
  <2>. QED  BY <1>1, <1>2, <2>1, <2>2, ReturnStep
<1>. QED  BY <1>3, <1>4

LEMMA ProgressStep ==
    ASSUME WebhookInv, NEW r \in Run, ProgressFails(r)
    PROVE  WebhookInv'
<1>. USE DEF Underway
<1>1. /\ RunsShape /\ runPc[r] = "attempt"
      /\ RunOK(runPc[r], host[r], ips[r], requests[r], trail[r], answered[r], dialed[r])
  BY DEF WebhookInv, RunsOK, ProgressFails, RunIs
<1>2. /\ requests' = [requests EXCEPT ![r] = requests[r] + 1]
      /\ answered' = [answered EXCEPT ![r] = 0]
      /\ Returns(r, FALSE) /\ UNCHANGED <<trail, dialed>>
  BY DEF ProgressFails
<1>3. /\ Sets(requests, requests', r, requests[r] + 1) /\ Sets(trail, trail, r, trail[r])
      /\ Sets(answered, answered', r, 0) /\ Sets(dialed, dialed, r, dialed[r])
  BY <1>1, <1>2, Kept, Replaced DEF RunsShape
<1>4. RunOK("failed", host[r], ips[r], requests[r] + 1, trail[r], 0, dialed[r])
  <2>1. /\ requests[r] \in Nat /\ IsTrail(trail[r], "open")
        /\ dialed[r] # {} => host[r] \in Allowed /\ Safe(host[r], dialed[r])
    BY <1>1 DEF RunOK
  <2>2. requests[r] + 1 \in Nat
    BY <2>1
  <2>. QED  BY <2>1, <2>2, RunFails
<1>. QED  BY <1>1, <1>2, <1>3, <1>4, ReturnStep

(* One more connection, to a checked address.                               *)
LEMMA DialIsSafe ==
    ASSUME RunsShape, NEW r \in Run, Dials(r) \/ UNCHANGED dialed,
           Safe(host[r], ips[r]), host[r] \in Allowed,
           dialed[r] # {} => Safe(host[r], dialed[r])
    PROVE  \E d : Sets(dialed, dialed', r, d) /\ Safe(host[r], d)
<1>1. CASE UNCHANGED dialed
  <2>1. Sets(dialed, dialed', r, dialed[r])
    BY <1>1, Kept DEF RunsShape
  <2>2. Safe(host[r], dialed[r])
    BY DEF Safe
  <2>. QED  BY <2>1, <2>2
<1>2. CASE Dials(r)
  <2>1. PICK a \in ips[r] : dialed' = [dialed EXCEPT ![r] = dialed[r] \cup {a}]
    BY <1>2 DEF Dials
  <2>2. Sets(dialed, dialed', r, dialed[r] \cup {a})
    BY <2>1, Replaced DEF RunsShape
  <2>3. Safe(host[r], dialed[r] \cup {a})
    BY DEF Safe
  <2>. QED  BY <2>2, <2>3
<1>. QED  BY <1>1, <1>2

(* An attempt, sent or cut short, is one event more in the trail.           *)
LEMMA AttemptLogged ==
    ASSUME RunsShape, NEW r \in Run, NEW http, NEW reason,
           IsTrail(trail[r], "open"), requests[r] \in Nat, Len(trail[r]) = requests[r] + 1,
           webhookAppendAttemptAudit(r, http, reason)
    PROVE  \E t : /\ Sets(trail, trail', r, t) /\ IsTrail(t, "open")
                  /\ Len(t) = (requests[r] + 1) + 1
<1>. DEFINE t == webhookAppendAuditEvent(trail[r], "attempt", requests[r] + 1, http, reason)
<1>1. trail' = [trail EXCEPT ![r] = t]
  BY DEF webhookAppendAttemptAudit
<1>2. trail[r] # <<>> /\ requests[r] + 1 = Len(trail[r])
  BY DEF IsTrail
<1>3. IsTrail(t, "open") /\ Len(t) = Len(trail[r]) + 1
  BY <1>2, TrailContinues
<1>. HIDE DEF t
<1>4. Sets(trail, trail', r, t)
  BY <1>1, Replaced DEF RunsShape
<1>. QED  BY <1>3, <1>4

LEMMA SendStep ==
    ASSUME WebhookInv, NEW r \in Run, NEW http, sendWebhookAttempt(r, http)
    PROVE  WebhookInv'
<1>. USE DEF Underway
<1>1. /\ RunsShape /\ runPc[r] = "attempt"
      /\ RunOK(runPc[r], host[r], ips[r], requests[r], trail[r], answered[r], dialed[r])
  BY DEF WebhookInv, RunsOK, sendWebhookAttempt, RunIs
<1>2. /\ requests' = [requests EXCEPT ![r] = requests[r] + 1]
      /\ answered' = [answered EXCEPT ![r] = http]
      /\ Dials(r) /\ UNCHANGED ips
      /\ \E reason : webhookAppendAttemptAudit(r, http, reason)
      /\ Goes(r, "backoff") \/ Goes(r, "outputs") \/ Returns(r, FALSE)
  BY DEF sendWebhookAttempt
<1>3. /\ Sets(requests, requests', r, requests[r] + 1)
      /\ Sets(answered, answered', r, http)
      /\ ips' \in [Run -> SUBSET Addr] /\ Sets(ips, ips', r, ips[r])
  BY <1>1, <1>2, Kept, Replaced DEF RunsShape
<1>4. /\ IsTrail(trail[r], "open") /\ requests[r] \in Nat /\ Len(trail[r]) = requests[r] + 1
      /\ Safe(host[r], ips[r]) /\ host[r] \in Allowed
      /\ dialed[r] # {} => Safe(host[r], dialed[r])
  BY <1>1 DEF RunOK
<1>5. PICK d : Sets(dialed, dialed', r, d) /\ Safe(host[r], d)
  BY <1>1, <1>2, <1>4, DialIsSafe
<1>6. PICK t : /\ Sets(trail, trail', r, t) /\ IsTrail(t, "open")
               /\ Len(t) = (requests[r] + 1) + 1
  BY <1>1, <1>2, <1>4, AttemptLogged
<1>7. \A p \in {"backoff", "outputs", "failed"} :
         RunOK(p, host[r], ips[r], requests[r] + 1, t, http, d)
  <2>1. requests[r] + 1 \in Nat /\ requests[r] + 1 > 0
    BY <1>4
  <2>. QED  BY <1>4, <1>5, <1>6, <2>1, RunGoesOn, RunFails
<1>8. CASE Goes(r, "backoff")
  BY <1>1, <1>3, <1>5, <1>6, <1>7, <1>8, GoesStep
<1>9. CASE Goes(r, "outputs")
  BY <1>1, <1>3, <1>5, <1>6, <1>7, <1>9, GoesStep
<1>10. CASE Returns(r, FALSE)
  BY <1>1, <1>3, <1>5, <1>6, <1>7, <1>10, ReturnStep
<1>. QED  BY <1>2, <1>8, <1>9, <1>10

LEMMA CanceledStep ==
    ASSUME WebhookInv, NEW r \in Run, AttemptCanceled(r)
    PROVE  WebhookInv'
<1>. USE DEF Underway
<1>1. /\ RunsShape /\ runPc[r] = "attempt"
      /\ RunOK(runPc[r], host[r], ips[r], requests[r], trail[r], answered[r], dialed[r])
  BY DEF WebhookInv, RunsOK, AttemptCanceled, RunIs
<1>2. /\ requests' = [requests EXCEPT ![r] = requests[r] + 1]
      /\ answered' = [answered EXCEPT ![r] = 0]
      /\ Dials(r) \/ UNCHANGED dialed
      /\ webhookAppendAttemptAudit(r, 0, "context canceled") /\ Returns(r, FALSE)
  BY DEF AttemptCanceled
<1>3. Sets(requests, requests', r, requests[r] + 1) /\ Sets(answered, answered', r, 0)
  BY <1>1, <1>2, Replaced DEF RunsShape
<1>4. /\ IsTrail(trail[r], "open") /\ requests[r] \in Nat /\ Len(trail[r]) = requests[r] + 1
      /\ Safe(host[r], ips[r]) /\ host[r] \in Allowed
      /\ dialed[r] # {} => Safe(host[r], dialed[r])
  BY <1>1 DEF RunOK
<1>5. PICK d : Sets(dialed, dialed', r, d) /\ Safe(host[r], d)
  BY <1>1, <1>2, <1>4, DialIsSafe
<1>6. PICK t : /\ Sets(trail, trail', r, t) /\ IsTrail(t, "open")
               /\ Len(t) = (requests[r] + 1) + 1
  BY <1>1, <1>2, <1>4, AttemptLogged
<1>7. RunOK("failed", host[r], ips[r], requests[r] + 1, t, 0, d)
  <2>1. requests[r] + 1 \in Nat
    BY <1>4
  <2>. QED  BY <1>4, <1>5, <1>6, <2>1, RunFails
<1>. QED  BY <1>1, <1>2, <1>3, <1>5, <1>6, <1>7, ReturnStep

LEMMA BackoffStep ==
    ASSUME WebhookInv, NEW r \in Run, sleepWebhookBackoff(r)
    PROVE  WebhookInv'
<1>. USE DEF Underway
<1>1. /\ RunsShape /\ runPc[r] = "backoff"
      /\ RunOK(runPc[r], host[r], ips[r], requests[r], trail[r], answered[r], dialed[r])
  BY DEF WebhookInv, RunsOK, sleepWebhookBackoff, RunIs
<1>2. /\ Sets(requests, requests, r, requests[r]) /\ Sets(trail, trail, r, trail[r])
      /\ Sets(answered, answered, r, answered[r]) /\ Sets(dialed, dialed, r, dialed[r])
      /\ Sets(ips, ips, r, ips[r])
  BY <1>1, Kept DEF RunsShape
<1>3. /\ UNCHANGED <<requests, trail, answered, dialed>>
      /\ Returns(r, FALSE) \/ (Goes(r, "attempt") /\ UNCHANGED ips)
  BY DEF sleepWebhookBackoff
<1>4. \A p \in {"attempt", "failed"} :
         RunOK(p, host[r], ips[r], requests[r], trail[r], answered[r], dialed[r])
  BY <1>1 DEF RunOK
<1>5. CASE Returns(r, FALSE)
  BY <1>1, <1>2, <1>3, <1>4, <1>5, ReturnStep
<1>6. CASE Goes(r, "attempt") /\ UNCHANGED ips
  BY <1>1, <1>2, <1>3, <1>4, <1>6, GoesStep DEF RunsShape
<1>. QED  BY <1>3, <1>5, <1>6

LEMMA CompletionLogged ==
    ASSUME RunsShape, NEW r \in Run, IsTrail(trail[r], "open"), trail[r] # <<>>,
           requests[r] = Len(trail[r]) - 1, webhookAppendCompletedAudit(r)
    PROVE  \E t : /\ Sets(trail, trail', r, t) /\ IsTrail(t, "closed")
                  /\ Len(t) = Len(trail[r]) + 1 /\ t[Len(t)].status = answered[r]
<1>1. \E reason :
         trail' = [trail EXCEPT ![r] = webhookAppendAuditEvent(
                      trail[r], "completed", requests[r], answered[r], reason)]
  BY Zenon DEF webhookAppendCompletedAudit
<1>2. PICK reason :
         trail' = [trail EXCEPT ![r] = webhookAppendAuditEvent(
                      trail[r], "completed", requests[r], answered[r], reason)]
  BY <1>1, Zenon
<1>. DEFINE t == webhookAppendAuditEvent(trail[r], "completed", requests[r], answered[r], reason)
<1>3. trail' = [trail EXCEPT ![r] = t]
  BY <1>2
<1>4. /\ IsTrail(t, "closed") /\ Len(t) = Len(trail[r]) + 1
      /\ t[Len(t)].status = answered[r]
  BY TrailCompletes
<1>. HIDE DEF t
<1>5. Sets(trail, trail', r, t)
  BY <1>3, Replaced DEF RunsShape
<1>. QED  BY <1>4, <1>5

LEMMA OutputsStep ==
    ASSUME WebhookInv, NEW r \in Run, extractWebhookDeclaredOutputs(r)
    PROVE  WebhookInv'
<1>. USE DEF Underway
<1>1. /\ RunsShape /\ runPc[r] = "outputs"
      /\ RunOK(runPc[r], host[r], ips[r], requests[r], trail[r], answered[r], dialed[r])
  BY DEF WebhookInv, RunsOK, extractWebhookDeclaredOutputs, RunIs
<1>2. /\ Sets(requests, requests, r, requests[r]) /\ Sets(trail, trail, r, trail[r])
      /\ Sets(answered, answered, r, answered[r]) /\ Sets(dialed, dialed, r, dialed[r])
  BY <1>1, Kept DEF RunsShape
<1>3. /\ UNCHANGED <<requests, answered, dialed>>
      /\ \/ webhookAppendCompletedAudit(r) /\ Returns(r, TRUE)
         \/ UNCHANGED trail /\ Returns(r, FALSE)
  BY DEF extractWebhookDeclaredOutputs
<1>4. CASE webhookAppendCompletedAudit(r) /\ Returns(r, TRUE)
  <2>2. /\ IsTrail(trail[r], "open") /\ Len(trail[r]) = requests[r] + 1
        /\ requests[r] \in Nat /\ requests[r] > 0
    BY <1>1 DEF RunOK
  <2>3. trail[r] # <<>> /\ requests[r] = Len(trail[r]) - 1
    BY <2>2
  <2>4. PICK t : /\ Sets(trail, trail', r, t) /\ IsTrail(t, "closed")
                 /\ Len(t) = Len(trail[r]) + 1 /\ t[Len(t)].status = answered[r]
    BY <1>1, <1>4, <2>2, <2>3, CompletionLogged
  <2>5. RunOK("ok", host[r], ips[r], requests[r], t, answered[r], dialed[r])
    <3>1. host[r] \in Allowed /\ (dialed[r] # {} => Safe(host[r], dialed[r]))
      BY <1>1 DEF RunOK
    <3>2. Len(t) = requests[r] + 2
      BY <2>2, <2>4
    <3>. QED  BY <2>2, <2>4, <3>1, <3>2, RunSucceeds
  <2>. QED  BY <1>1, <1>2, <1>3, <1>4, <2>4, <2>5, ReturnStep
<1>5. CASE UNCHANGED trail /\ Returns(r, FALSE)
  <2>1. RunOK("failed", host[r], ips[r], requests[r], trail[r], answered[r], dialed[r])
    BY <1>1 DEF RunOK
  <2>. QED  BY <1>1, <1>2, <1>3, <1>5, <2>1, ReturnStep
<1>. QED  BY <1>3, <1>4, <1>5

-----------------------------------------------------------------------------
LEMMA WebhookInvInit == WebhookInit => WebhookInv
<1>. SUFFICES ASSUME WebhookInit PROVE WebhookInv
  OBVIOUS
<1>1. EngineShape /\ RunsShape
  BY WebhookLimits DEF WebhookInit, EngineShape, RunsShape, WindowState, Point
<1>2. AdmissionsCounted
  BY WebhookLimits DEF WebhookInit, AdmissionsCounted, Window, Limiter
<1>3. RunsOK
  BY EmptyTrail DEF WebhookInit, RunsOK, RunOK
<1>4. Under = {}
  BY DEF WebhookInit, Under
<1>5. SlotsCounted
  BY <1>4, FS_EmptySet, WebhookLimits DEF WebhookInit, SlotsCounted
<1>. QED  BY <1>1, <1>2, <1>3, <1>5 DEF WebhookInv

LEMMA ClockStep ==
    ASSUME WebhookInv, Tick
    PROVE  WebhookInv'
<1>1. /\ second' = second + 1 /\ second < MaxSecond
      /\ UNCHANGED <<hits, slots, admitted, runPc, host, ips, requests, trail, answered, dialed>>
  BY DEF Tick, runs
<1>2. RunsShape' /\ RunsOK'
  BY <1>1 DEF WebhookInv, RunsShape, RunsOK
<1>3. SlotsCounted'
  BY <1>1 DEF WebhookInv, SlotsCounted, Under
<1>4. second \in Nat /\ second' \in 1..MaxSecond /\ hits["tenant"].at \in Nat
  BY <1>1, WebhookLimits DEF WebhookInv, EngineShape, WindowState, Limiter
<1>5. EngineShape'
  BY <1>1, <1>4 DEF WebhookInv, EngineShape
<1>6. admitted'[second'] = 0 /\ Window("tenant")'.count = 0
  BY <1>1, <1>4 DEF WebhookInv, AdmissionsCounted, Window
<1>7. AdmissionsCounted'
  BY <1>1, <1>4, <1>6, WebhookLimits DEF WebhookInv, AdmissionsCounted
<1>. QED  BY <1>2, <1>3, <1>5, <1>7 DEF WebhookInv

LEMMA WebhookUnchanged ==
    ASSUME WebhookInv, UNCHANGED <<second, hits, slots, admitted, runs>> \/
                       \E r \in Run : RunContextEnds(r)
    PROVE  WebhookInv'
<1>1. UNCHANGED <<second, hits, slots, admitted, runPc, host, ips, requests, trail, answered,
                  dialed>>
  BY DEF RunContextEnds, runs, engine
<1>2. RunsShape' /\ RunsOK'
  BY <1>1 DEF WebhookInv, RunsShape, RunsOK
<1>3. EngineInv'
  BY <1>1, EngineKept DEF WebhookInv, EngineInv
<1>. QED  BY <1>2, <1>3 DEF WebhookInv, EngineInv

(***************************************************************************)
(* For any number of executions, hosts and addresses, whatever the limits,  *)
(* and whatever a name resolves to at each lookup: the engine counts        *)
(* exactly the executions under way and never more than its limit, a second *)
(* admits no more than the limiters allow, no connection goes to an unsafe  *)
(* address of an untrusted host, and an audit trail passes verification     *)
(* exactly if the execution succeeded and nothing was taken out of it       *)
(* (EvaluateWebhookPolicy, lookupWebhookTargetIPs, the audit trail's        *)
(* verify).                                                                 *)
(***************************************************************************)
THEOREM WebhookIsSafe == WebhookSpec => []WebhookSafe
<1>1. WebhookInit => WebhookInv
  BY WebhookInvInit
<1>2. WebhookInv /\ [WebhookNext]_webhookVars => WebhookInv'
  <2>. SUFFICES ASSUME WebhookInv, [WebhookNext]_webhookVars PROVE WebhookInv'
    OBVIOUS
  <2>1. CASE Tick
    BY <2>1, ClockStep
  <2>2. CASE UNCHANGED webhookVars
    BY <2>2, WebhookUnchanged DEF webhookVars, engine
  <2>3. CASE \E r \in Run : RunContextEnds(r)
    BY <2>3, WebhookUnchanged
  <2>4. ASSUME NEW r \in Run,
               \/ EvaluateWebhookPolicy(r) \/ validateWebhookTargetURL(r)
               \/ \E answer \in SUBSET Addr : resolveWebhookTarget(r, answer)
               \/ ProgressFails(r) \/ AttemptCanceled(r) \/ sleepWebhookBackoff(r)
               \/ \E http \in Status \cup {0} : sendWebhookAttempt(r, http)
               \/ extractWebhookDeclaredOutputs(r)
        PROVE  WebhookInv'
    BY <2>4, PolicyStep, ValidateStep, ResolveStep, ProgressStep, CanceledStep, BackoffStep,
       SendStep, OutputsStep
  <2>. QED  BY <2>1, <2>2, <2>3, <2>4 DEF WebhookNext
<1>3. WebhookInv => WebhookSafe
  <2>. SUFFICES ASSUME WebhookInv PROVE WebhookSafe
    OBVIOUS
  <2>1. AdmissionBounded
    BY DEF WebhookInv, AdmissionsCounted, SlotsCounted, AdmissionBounded
  <2>2. DialsOnlyChecked
    BY DEF WebhookInv, RunsOK, RunOK, DialsOnlyChecked, Safe
  <2>3. AuditTrailSound
    BY RunVerdict DEF WebhookInv, RunsOK, AuditTrailSound
  <2>. QED  BY <2>1, <2>2, <2>3 DEF WebhookSafe
<1>. QED  BY <1>1, <1>2, <1>3, PTL DEF WebhookSpec
=============================================================================
