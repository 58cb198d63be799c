------------------------------ MODULE WebhookRun ------------------------------
(***************************************************************************)
(* One webhook execution after another, or several at a time, through the   *)
(* policy engine of the agent process (internal/policy), the outbound       *)
(* policy with its name resolution, and the attempts of the shared runtime  *)
(* (internal/webhookaction/runtime.go), with the audit trail they leave.    *)
(*                                                                          *)
(* A lookup may answer anything at any time, also addresses a webhook must  *)
(* never reach.  Every limit is set (a limit of 0 would switch its check    *)
(* off), and the wall clock does not step back.                             *)
(***************************************************************************)
EXTENDS Naturals, Sequences, FiniteSets

CONSTANTS
    Run,            \* executions
    Host, Allowed,  \* hosts, and those of the allow list
    Private,        \* hosts that may resolve to unsafe addresses
    HalfOpen,       \* hosts whose circuit is half open
    Addr, Unsafe,   \* addresses, and those isUnsafeWebhookIP rejects
    PerSecond,      \* requests per second of each limiter, a positive number
    Concurrent,     \* AgentConcurrentExecutions
    ProbeLimit, FailureLimit, MaxRequests,
    MaxSecond       \* bound on the clock

ASSUME WebhookLimits ==
    /\ IsFiniteSet(Run)
    /\ PerSecond \in Nat \ {0} /\ Concurrent \in Nat \ {0} /\ FailureLimit \in Nat \ {0}
    /\ ProbeLimit \in Nat \ {0} /\ MaxSecond \in Nat \ {0}

Limiter == {"tenant", "agent", "corridor"}
Status == {200, 302, 503}
Expected == {200}
Retryable == {503}

VARIABLES
    second, hits,   \* fixed windows: the second of a window and its count
    slots,          \* executions the engine counts as under way
    probes, failures,
    runPc, host, ips, requests, trail, answered, runCanceled,
    dialed,         \* addresses connected to, per execution
    admitted        \* executions let through in each second

engine == <<second, hits, slots, probes, failures>>
runs == <<runPc, host, ips, requests, trail, answered, runCanceled, dialed>>
webhookVars == <<engine, runs, admitted>>

WebhookInit ==
    /\ second = 1 /\ hits = [l \in Limiter |-> [at |-> 0, count |-> 0]]
    /\ slots = 0 /\ probes = [h \in Host |-> 0] /\ failures = [h \in Host |-> 0]
    /\ runPc = [r \in Run |-> "begin"] /\ host \in [Run -> Host]
    /\ ips = [r \in Run |-> {}] /\ requests = [r \in Run |-> 0]
    /\ trail = [r \in Run |-> <<>>] /\ answered = [r \in Run |-> 0]
    /\ runCanceled = {} /\ dialed = [r \in Run |-> {}]
    /\ admitted = [s \in 1..MaxSecond |-> 0]

RunIs(r, l) == runPc[r] = l
RunGoto(r, l) == runPc' = [runPc EXCEPT ![r] = l]

-----------------------------------------------------------------------------
(* fixedWindowRateLimiter.allow.                                             *)
Window(l) == IF hits[l].at = second THEN hits[l] ELSE [at |-> second, count |-> 0]
allow(l) == Window(l).count < PerSecond
Hit(h, l) == [h EXCEPT ![l] = [Window(l) EXCEPT !.count = @ + 1]]

(* circuitBreakerRegistry.allow: a probe is spent whatever is decided later. *)
CircuitAllows(h) == h \notin HalfOpen \/ probes[h] < ProbeLimit
Probed(h) == IF h \in HalfOpen THEN [probes EXCEPT ![h] = @ + 1] ELSE probes

(* The limiters are asked in this order, and each one that lets the          *)
(* execution through has counted it before the next one refuses.             *)
Limiters(s) ==
    CASE ~allow("tenant") -> [ok |-> FALSE, hits |-> [s EXCEPT !["tenant"] = Window("tenant")]]
      [] allow("tenant") /\ ~allow("agent") ->
            [ok |-> FALSE, hits |-> [Hit(s, "tenant") EXCEPT !["agent"] = Window("agent")]]
      [] allow("tenant") /\ allow("agent") /\ ~allow("corridor") ->
            [ok |-> FALSE,
             hits |-> [Hit(Hit(s, "tenant"), "agent") EXCEPT !["corridor"] = Window("corridor")]]
      [] OTHER -> [ok |-> TRUE, hits |-> Hit(Hit(Hit(s, "tenant"), "agent"), "corridor")]

Denied(r) == RunGoto(r, "denied") /\ UNCHANGED <<slots, admitted>>

(* EvaluateWebhookPolicy, under the engine's mutex; a done context is an     *)
(* error before anything is counted.                                         *)
EvaluateWebhookPolicy(r) ==
    /\ RunIs(r, "begin")
    /\ IF r \in runCanceled \/ ~CircuitAllows(host[r])
       THEN Denied(r) /\ UNCHANGED <<probes, hits>>
       ELSE /\ probes' = Probed(host[r])
            /\ \/ Denied(r) /\ UNCHANGED hits     \* it asks for more than MaxRetryAttempts
               \/ failures[host[r]] >= FailureLimit /\ Denied(r) /\ UNCHANGED hits
               \/ /\ failures[host[r]] < FailureLimit
                  /\ hits' = Limiters(hits).hits
                  /\ IF Limiters(hits).ok /\ slots < Concurrent
                     THEN /\ slots' = slots + 1 /\ RunGoto(r, "validate")
                          /\ admitted' = [admitted EXCEPT ![second] = @ + 1]
                     ELSE Denied(r)
    /\ UNCHANGED <<second, failures, host, ips, requests, trail, answered, runCanceled, dialed>>

(* recordResult, once per admitted execution.                                *)
recordResult(r, ok) ==
    /\ slots' = IF slots > 0 THEN slots - 1 ELSE slots
    /\ failures' = IF ~ok \/ answered'[r] >= 500 THEN [failures EXCEPT ![host[r]] = @ + 1]
                   ELSE IF answered'[r] > 0 THEN [failures EXCEPT ![host[r]] = 0] ELSE failures

Returns(r, ok) ==
    /\ RunGoto(r, IF ok THEN "ok" ELSE "failed")
    /\ recordResult(r, ok)
    /\ UNCHANGED <<second, hits, probes, host, ips, runCanceled, admitted>>

Goes(r, l) ==
    /\ RunGoto(r, l)
    /\ UNCHANGED <<engine, host, runCanceled, admitted>>

-----------------------------------------------------------------------------
(* The audit trail.  The hash of an event covers its content and its parent  *)
(* and is taken to be injective.                                             *)
AuditEventHash(e) == <<e.parent, e.type, e.attempt, e.status, e.reason>>

webhookAppendAuditEvent(t, type, attempt, code, reason) ==
    LET e == [parent |-> IF t = <<>> THEN <<>> ELSE t[Len(t)].hash,
              type |-> type, attempt |-> attempt, status |-> code, reason |-> reason]
    IN  Append(t, [parent |-> e.parent, type |-> type, attempt |-> attempt,
                   status |-> code, reason |-> reason, hash |-> AuditEventHash(e)])

webhookVerifyAuditTrail(t, root, final, code, attempts) ==
    /\ t # <<>>
    /\ \A i \in DOMAIN t : /\ t[i].parent = IF i = 1 THEN <<>> ELSE t[i-1].hash
                           /\ t[i].hash = AuditEventHash(t[i])
    /\ root = t[1].hash /\ final = t[Len(t)].hash
    /\ t[Len(t)].type = "completed" /\ t[Len(t)].status = code /\ t[Len(t)].attempt = attempts

-----------------------------------------------------------------------------
(* validateWebhookTargetURL and lookupWebhookTargetIPs: every address of the *)
(* answer is checked, not only the one that will be used.                    *)
validateWebhookTargetURL(r) ==
    /\ RunIs(r, "validate")
    /\ IF host[r] \in Allowed
       THEN Goes(r, "resolve") /\ UNCHANGED <<ips, requests, trail, answered, dialed>>
       ELSE Returns(r, FALSE) /\ UNCHANGED <<requests, trail, answered, dialed>>

lookupWebhookTargetIPs(h, answer) == answer # {} /\ (h \in Private \/ answer \cap Unsafe = {})

resolveWebhookTarget(r, answer) ==
    /\ RunIs(r, "resolve")
    /\ IF lookupWebhookTargetIPs(host[r], answer) /\ r \notin runCanceled
       THEN /\ ips' = [ips EXCEPT ![r] = answer]
            /\ trail' = [trail EXCEPT ![r] =
                           webhookAppendAuditEvent(@, "resolvedTarget", 0, 0, "")]
            /\ Goes(r, "attempt") /\ UNCHANGED <<requests, answered, dialed>>
       ELSE Returns(r, FALSE) /\ UNCHANGED <<requests, trail, answered, dialed>>

(* emitProgress and the request.  The transport dials the first address of   *)
(* the resolution; a redirect is checked and then not followed, so that its  *)
(* status is the answer.                                                     *)
Dials_LooksUpAgain(r) == \E a \in Addr : dialed' = [dialed EXCEPT ![r] = @ \cup {a}]
Dials(r) == \E a \in ips[r] : dialed' = [dialed EXCEPT ![r] = @ \cup {a}]

webhookAppendAttemptAudit(r, code, reason) ==
    trail' = [trail EXCEPT ![r] =
                webhookAppendAuditEvent(@, "attempt", requests[r] + 1, code, reason)]

(* The progress event could not be recorded: nothing is sent.                *)
ProgressFails(r) ==
    /\ RunIs(r, "attempt")
    /\ requests' = [requests EXCEPT ![r] = @ + 1] /\ answered' = [answered EXCEPT ![r] = 0]
    /\ Returns(r, FALSE) /\ UNCHANGED <<trail, dialed>>

Retries(r, code) == requests[r] + 1 < MaxRequests /\ code \in Retryable \cup {0}

(* An answer, or 0 for a transport error that may be retried.                *)
sendWebhookAttempt(r, code) ==
    /\ RunIs(r, "attempt") /\ r \notin runCanceled
    /\ Dials(r)
    /\ requests' = [requests EXCEPT ![r] = @ + 1]
    /\ answered' = [answered EXCEPT ![r] = code]
    /\ UNCHANGED ips
    /\ CASE Retries(r, code) ->
              webhookAppendAttemptAudit(r, code, "retryable") /\ Goes(r, "backoff")
         [] ~Retries(r, code) /\ code \in Expected ->
              webhookAppendAttemptAudit(r, code, "") /\ Goes(r, "outputs")
         [] OTHER -> webhookAppendAttemptAudit(r, code, "") /\ Returns(r, FALSE)

(* The context ended while the request was under way.                        *)
AttemptCanceled(r) ==
    /\ RunIs(r, "attempt") /\ r \in runCanceled
    /\ \/ Dials(r) \/ UNCHANGED dialed
    /\ requests' = [requests EXCEPT ![r] = @ + 1] /\ answered' = [answered EXCEPT ![r] = 0]
    /\ webhookAppendAttemptAudit(r, 0, "context canceled")
    /\ Returns(r, FALSE)

sleepWebhookBackoff(r) ==
    /\ RunIs(r, "backoff")
    /\ IF r \in runCanceled
       THEN Returns(r, FALSE) /\ UNCHANGED <<requests, trail, answered, dialed>>
       ELSE Goes(r, "attempt") /\ UNCHANGED <<ips, requests, trail, answered, dialed>>

(* extractWebhookDeclaredOutputs may fail; only then is the trail complete.  *)
webhookAppendCompletedAudit(r) ==
    trail' = [trail EXCEPT ![r] =
                webhookAppendAuditEvent(@, "completed", requests[r], answered[r], "")]

extractWebhookDeclaredOutputs(r) ==
    /\ RunIs(r, "outputs")
    /\ UNCHANGED <<requests, answered, dialed>>
    /\ \/ webhookAppendCompletedAudit(r) /\ Returns(r, TRUE)
       \/ UNCHANGED trail /\ Returns(r, FALSE)

-----------------------------------------------------------------------------
(* The environment: the clock, timeouts and lost heartbeats.                 *)
Tick ==
    /\ second < MaxSecond
    /\ second' = second + 1
    /\ UNCHANGED <<hits, slots, probes, failures, runs, admitted>>

RunContextEnds(r) ==
    /\ r \notin runCanceled /\ runPc[r] \notin {"denied", "ok", "failed"}
    /\ runCanceled' = runCanceled \cup {r}
    /\ UNCHANGED <<engine, runPc, host, ips, requests, trail, answered, dialed, admitted>>

WebhookNext ==
    \/ \E r \in Run :
          \/ EvaluateWebhookPolicy(r) \/ validateWebhookTargetURL(r)
          \/ (\E answer \in SUBSET Addr : resolveWebhookTarget(r, answer))
          \/ ProgressFails(r) \/ AttemptCanceled(r) \/ sleepWebhookBackoff(r)
          \/ (\E code \in Status \cup {0} : sendWebhookAttempt(r, code))
          \/ extractWebhookDeclaredOutputs(r) \/ RunContextEnds(r)
    \/ Tick

WebhookSpec == WebhookInit /\ [][WebhookNext]_webhookVars

-----------------------------------------------------------------------------
(* Properties.                                                              *)

Under == {r \in Run : runPc[r] \in {"validate", "resolve", "attempt", "backoff", "outputs"}}

(***************************************************************************)
(* The engine counts exactly the executions under way, however they end, so *)
(* no slot leaks and the limit is never exceeded; and no second admits more *)
(* than the limiters allow, at its edges too.                               *)
(***************************************************************************)
AdmissionBounded ==
    /\ slots = Cardinality(Under) /\ slots <= Concurrent
    /\ \A s \in 1..MaxSecond : admitted[s] <= PerSecond

(***************************************************************************)
(* No attempt of an execution connects to an unsafe address of a host that  *)
(* is not trusted with them, nor to a host outside the allow list, although *)
(* the name may resolve to anything by the time of a later attempt.         *)
(***************************************************************************)
DialsOnlyChecked ==
    \A r \in Run : dialed[r] # {} => /\ host[r] \in Allowed
                                     /\ host[r] \in Private \/ dialed[r] \cap Unsafe = {}

(***************************************************************************)
(* The audit trail of an execution passes verification exactly if the       *)
(* execution succeeded, and stops passing when an event is taken out of it. *)
(***************************************************************************)
Verifies(r, t) ==
    LET full == trail[r] IN
    /\ full # <<>>
    /\ webhookVerifyAuditTrail(t, full[1].hash, full[Len(full)].hash, answered[r], requests[r])

Without(t, i) == SubSeq(t, 1, i - 1) \o SubSeq(t, i + 1, Len(t))

AuditTrailSound ==
    \A r \in Run :
        /\ runPc[r] = "ok" <=> Verifies(r, trail[r])
        /\ \A i \in DOMAIN trail[r] : ~Verifies(r, Without(trail[r], i))

(***************************************************************************)
(* A webhook is admitted within the limits, connects only to checked        *)
(* addresses and leaves a sound audit trail.                                *)
(***************************************************************************)
WebhookSafe == AdmissionBounded /\ DialsOnlyChecked /\ AuditTrailSound
=============================================================================
