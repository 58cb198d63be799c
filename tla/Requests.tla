------------------------------ MODULE Requests ------------------------------
(***************************************************************************)
(* The life of one API request: the middlewares of its route, then a path   *)
(* of its handler.  Any step may fail, a crash may come at any moment, and  *)
(* the database may carry out a write or a commit and lose the answer.      *)
(***************************************************************************)
EXTENDS Naturals, Sequences, FiniteSets

CONSTANTS
    Routes,
    Caller,         \* who calls
    Admits(_, _)    \* the middleware lets the caller through

VARIABLES
    route, caller,
    path,       \* the control path the request takes
    pc,         \* the next step; Len(path) + 1 when the handler has returned
    depth,      \* open transactions: nested ones are savepoints
    pending,    \* steps whose writes wait for the commit
    stored,     \* steps whose writes are in the database
    sent,       \* steps whose calls have gone out
    answer,     \* "none", "ok", "error"
    unsure,     \* the database lost an answer
    state       \* "new", "running", "done", "crashed"

vars == <<route, caller, path, pc, depth, pending, stored, sent, answer, unsure, state>>

Init ==
    /\ route \in Routes /\ path \in route.run /\ caller \in Caller
    /\ pc = 1 /\ depth = 0 /\ pending = {} /\ stored = {} /\ sent = {}
    /\ answer = "none" /\ unsure = FALSE /\ state = "new"

-----------------------------------------------------------------------------
(* Every middleware may refuse; it then does not call the next one.         *)
Passes(r, c) == \A m \in r.needs : Admits(m, c)
Admitted == Passes(route, caller)

Admit ==
    /\ state = "new" /\ Admitted /\ state' = "running"
    /\ UNCHANGED <<route, caller, path, pc, depth, pending, stored, sent, answer, unsure>>

Forbid_Fault ==
    /\ state = "new" /\ ~Admitted /\ state' = "running" /\ answer' = "error"
    /\ UNCHANGED <<route, caller, path, pc, depth, pending, stored, sent, unsure>>
Forbid ==
    /\ state = "new" /\ ~Admitted /\ state' = "done" /\ answer' = "error"
    /\ UNCHANGED <<route, caller, path, pc, depth, pending, stored, sent, unsure>>

Running == state = "running" /\ pc <= Len(path)
step == path[pc]
goOn == pc' = pc + 1 /\ UNCHANGED <<route, caller, path, unsure, state>>

CheckOrRead ==
    /\ Running /\ step.do \in {"check", "read"} /\ goOn
    /\ UNCHANGED <<depth, pending, stored, sent, answer>>

WriteRow ==
    /\ Running /\ step.do = "write" /\ goOn
    /\ IF depth > 0 THEN pending' = pending \cup {pc} /\ UNCHANGED stored
                    ELSE stored' = stored \cup {pc} /\ UNCHANGED pending
    /\ UNCHANGED <<depth, sent, answer>>

CallOut ==
    /\ Running /\ step.do = "send" /\ goOn /\ sent' = sent \cup {pc}
    /\ UNCHANGED <<depth, pending, stored, answer>>

Begin ==
    /\ Running /\ step.do = "begin" /\ goOn /\ depth' = depth + 1
    /\ UNCHANGED <<pending, stored, sent, answer>>

(* Only the outermost commit makes anything durable.                        *)
Commit ==
    /\ Running /\ step.do = "commit" /\ goOn /\ depth' = depth - 1
    /\ IF depth = 1 THEN stored' = stored \cup pending /\ pending' = {}
                    ELSE UNCHANGED <<stored, pending>>
    /\ UNCHANGED <<sent, answer>>

(* The first answer is the one the client gets.                             *)
FirstAnswer(a) == IF answer = "none" THEN a ELSE answer
RespondJSONWithStatus ==
    /\ Running /\ step.do \in {"ok", "refuse"} /\ goOn
    /\ answer' = FirstAnswer(IF step.do = "ok" THEN "ok" ELSE "error")
    /\ UNCHANGED <<depth, pending, stored, sent>>

(* A failing step: what is pending is rolled back when the handler returns. *)
runTxFunc_Fault(keeps) ==
    /\ pc' = IF step.fail = "logged" THEN pc + 1 ELSE Len(path) + 1
    /\ IF step.fail = "logged"
       THEN UNCHANGED <<depth, pending, answer, state>> /\ stored' = stored \cup keeps
       ELSE /\ answer' = FirstAnswer(IF step.fail = "mute" THEN "ok" ELSE "error")
            /\ depth' = 0 /\ pending' = {} /\ stored' = stored \cup keeps \cup pending /\ state' = "done"
    /\ UNCHANGED <<route, caller, path, sent>>
runTxFunc(keeps) ==
    /\ pc' = IF step.fail = "logged" THEN pc + 1 ELSE Len(path) + 1
    /\ stored' = stored \cup keeps
    /\ IF step.fail = "logged"
       THEN UNCHANGED <<depth, pending, answer, state>>
       ELSE /\ answer' = FirstAnswer(IF step.fail = "mute" THEN "ok" ELSE "error")
            /\ depth' = 0 /\ pending' = {} /\ state' = "done"
    /\ UNCHANGED <<route, caller, path, sent>>

Fails == Running /\ step.do \notin {"ok", "refuse"} /\ runTxFunc({}) /\ UNCHANGED unsure

(* The database has done it and the connection is gone.                     *)
AnswerLost ==
    /\ Running
    /\ \/ step.do = "write" /\ depth = 0 /\ runTxFunc({pc})
       \/ step.do = "commit" /\ depth = 1 /\ runTxFunc(pending)
    /\ unsure' = TRUE

(* A handler that returns without an answer has said 200.                   *)
Return ==
    /\ state = "running" /\ pc = Len(path) + 1
    /\ state' = "done" /\ answer' = FirstAnswer("ok")
    /\ UNCHANGED <<route, caller, path, pc, depth, pending, stored, sent, unsure>>

Crash ==
    /\ state = "running" /\ state' = "crashed" /\ depth' = 0 /\ pending' = {}
    /\ UNCHANGED <<route, caller, path, pc, stored, sent, answer, unsure>>

Next ==
    \/ Admit \/ Forbid \/ CheckOrRead \/ WriteRow \/ CallOut \/ Begin \/ Commit
    \/ RespondJSONWithStatus \/ Fails \/ AnswerLost \/ Return \/ Crash

Spec == Init /\ [][Next]_vars

-----------------------------------------------------------------------------
(* What can be read off a path without running it: the depth of its         *)
(* transactions, and what is durable before a step.                         *)

StepKinds == {"check", "read", "write", "send", "begin", "commit", "ok", "refuse"}
PathStep == [do : StepKinds, on : STRING, fail : {"told", "mute", "logged"}]

Records == {"ReleaseBundleAuditEvent", "DeploymentPreflight", "DeploymentTarget.reported_agent_version_id"}

Before(p, i, do) == {j \in DOMAIN p : j < i /\ p[j].do = do}
DepthAt(p, i) == Cardinality(Before(p, i, "begin")) - Cardinality(Before(p, i, "commit"))
Durable(p, j, i) == DepthAt(p, j) = 0 \/ \E k \in Before(p, i, "commit") : j < k /\ DepthAt(p, k) = 1

(* Transactions are nested, and one that fails ends the handler.            *)
Nests(p) ==
    /\ p \in Seq(PathStep)
    /\ \A i \in DOMAIN p :
          /\ p[i].do = "commit" => DepthAt(p, i) > 0
          /\ p[i].do \in {"begin", "commit"} => p[i].fail # "logged"
    /\ DepthAt(p, Len(p) + 1) = 0

(* Success is answered after everything that has to be written, and         *)
(* outside of transactions.                                                 *)
Due(p) == {i \in DOMAIN p : p[i].do = "write" /\ p[i].fail # "logged"}
AnswersLast(p) ==
    \A i \in DOMAIN p, j \in Due(p) :
        /\ p[i].fail # "mute"
        /\ p[i].do = "ok" => DepthAt(p, i) = 0 /\ j < i

(* Where an error may be the answer, nothing is durable but records, and    *)
(* nothing was sent.                                                        *)
Harmless(p, i) ==
    /\ Before(p, i, "send") = {}
    /\ \A j \in Before(p, i, "write") : p[j].on \in Records \/ ~Durable(p, j, i)
FailsEarly(p) ==
    \A i \in DOMAIN p :
        \/ Before(p, i, "ok") \cup Before(p, i, "refuse") # {}
        \/ /\ p[i].do = "refuse" => Harmless(p, Len(p) + 1)
           /\ p[i].do \notin {"ok", "refuse"} /\ p[i].fail = "told" => Harmless(p, i)

(* What is sent after something was written is sent outside of transactions.*)
SendsOutside(p) ==
    \A i \in DOMAIN p, j \in Due(p) : p[i].do = "send" /\ j < i => DepthAt(p, i) = 0

(* The routes are so written, but for the handlers that are named.          *)
RoutesOrdered(Early, Mute, Partial, Ahead) ==
    \A r \in Routes : \A p \in r.run :
        /\ Nests(p)
        /\ r.handler \notin Early \cup Mute => AnswersLast(p)
        /\ r.handler \notin Partial => FailsEarly(p)
        /\ r.handler \notin Ahead => SendsOutside(p)

(* Whoever passes the middlewares of a route that changes something may.    *)
MayCall(r, c, Own, Supers, Theirs) ==
    /\ c.role = "read_only" => r.handler \in Own
    /\ c.as = "super" => r.handler \in Supers
    /\ c.kind = "customer" => r.handler \in Theirs
RoutesGuarded(Own, Supers, Theirs) ==
    \A r \in Routes, c \in Caller :
        ( /\ "Authentication" \in r.needs /\ Passes(r, c)
          /\ \E p \in r.run : \E i \in DOMAIN p : p[i].do \in {"write", "send"} )
        => MayCall(r, c, Own, Supers, Theirs)

-----------------------------------------------------------------------------
(* Properties.  Over is the moment from which on nothing changes.           *)

Over == state \in {"done", "crashed"}
Demanded == Due(path)
Is(names) == route.handler \in names

(***************************************************************************)
(* A client that is told of success can rely on it: whatever fails          *)
(* afterwards, everything the handler had to write is in the database.  The *)
(* handlers named in Early answer inside their transaction, the ones in     *)
(* Mute do not answer a transaction that cannot begin or commit; for all    *)
(* others an error, a lost connection or a crash never hides behind a 200.  *)
(***************************************************************************)
OkMeansStored(Early, Mute) ==
    (Over /\ answer = "ok" /\ ~Is(Early \cup Mute)) => Demanded \subseteq stored

(***************************************************************************)
(* An error means that nothing happened, so that the request can be         *)
(* repeated: no write stays behind but the record of the refusal (Records), *)
(* and nothing was sent.  The handlers in Partial do something that may     *)
(* fail after what they have written or sent.  (A database that loses its   *)
(* answer to a commit may have committed.)                                  *)
(***************************************************************************)
ErrorMeansUnchanged(Partial) ==
    (Over /\ answer = "error" /\ ~unsure /\ ~Is(Partial)) =>
        (\A i \in stored : path[i].on \in Records) /\ sent = {}

(***************************************************************************)
(* What goes out to others, a mail or a call of Stripe, is about rows that  *)
(* exist: a later failure does not take back what was told.  The handlers   *)
(* in Ahead send from inside their transaction.                             *)
(***************************************************************************)
SentIsStored(Ahead) ==
    (Over /\ ~Is(Ahead)) =>
        \A i \in sent : {j \in Demanded : j < i} \subseteq stored

(***************************************************************************)
(* Viewers, super admins and customers, whatever route they try once they   *)
(* are signed in: users with the read-only role change nothing but what is  *)
(* their own (Own), super admins nothing but what Supers lists, and         *)
(* customers nothing but what Theirs lists.                                 *)
(***************************************************************************)
RolesHold(Own, Supers, Theirs) ==
    ("Authentication" \in route.needs /\ (stored # {} \/ sent # {})) => MayCall(route, caller, Own, Supers, Theirs)
=============================================================================
