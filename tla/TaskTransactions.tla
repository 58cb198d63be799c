--------------------------- MODULE TaskTransactions ---------------------------
(***************************************************************************)
(* The transactions of the task queue statement by statement, with the      *)
(* locks PostgreSQL makes them wait for: advisory guards of resources, and  *)
(* the rows of tasks, lock rows, deployment targets and release bundles     *)
(* (internal/db/task_queue.go, task_leases.go, deployment_preflight.go).    *)
(* TaskQueue takes each of these transactions as one step; here another     *)
(* session may act between any two statements.  At READ COMMITTED a         *)
(* statement sees what has been committed and its own transaction's writes, *)
(* so the variables of TaskQueue change when a transaction commits, by what *)
(* its earlier statements have decided.                                     *)
(***************************************************************************)
EXTENDS TaskQueue, FiniteSets

CONSTANTS
    Connection,  \* database sessions
    Nil,         \* no transaction is open
    BundleOf,    \* the release bundle of a plan
    GuardKey,    \* position of a resource in the order of advisory keys
    TxRequest    \* the normalized creation requests that are made

(* Keys are those of the resources, a plan has a target                     *)
(* (validateCreateDeploymentPlanRequest), and the pool of connections is    *)
(* finite.                                                                  *)
ASSUME TransactionAssumption ==
    /\ IsFiniteSet(Connection)
    /\ GuardKey \in [Resource -> Nat]
    /\ \A r, q \in Resource : GuardKey[r] = GuardKey[q] \/ SortKey[r] = SortKey[q] => r = q
    /\ TxRequest \subseteq NormalRequest
    /\ \A p \in Plan : NewTasks(p) # {}

VARIABLE tx   \* the open transaction of a session

txVars == <<queueVars, tx>>

(***************************************************************************)
(* A transaction: what it does and on which plan or task, the statement it  *)
(* has reached, the locks that statement still waits for, the locks it      *)
(* holds until it ends, and for a creation the resources whose policy is    *)
(* not applied yet and the tasks it has cancelled.                          *)
(***************************************************************************)
Transaction(op, on, req, at, todo, held) ==
    [op |-> op, on |-> on, req |-> req, at |-> at, todo |-> todo, held |-> held,
     left |-> {}, canceled |-> {}]

Guard(r) == <<"guard", r>>
TaskRow(t) == <<"task", t>>
LockRow(t, r) == <<"lock", t, r>>
TargetRow(tgt) == <<"target", tgt>>
TargetKey(tgt) == <<"target_key", tgt>>   \* FOR KEY SHARE, by a foreign key
BundleRow(p) == <<"bundle", BundleOf[p]>>

Conflicts(l, m) ==
    IF {l[1], m[1]} = {"target", "target_key"} THEN l[2] = m[2]
    ELSE l = m /\ l[1] # "target_key"

(* Guards are taken in the order of the encoded resource keys, and a        *)
(* statement locks after the one before it: the bundle after the targets,   *)
(* lock rows after the tasks.  The rows of one statement are locked in any  *)
(* order: where the code asks for one, the guards make it idle.             *)
Precedes(l, m) ==
    \/ l[1] = "guard" /\ m[1] = "guard" /\ GuardKey[l[2]] < GuardKey[m[2]]
    \/ l[1] = "target" /\ m[1] = "bundle"
    \/ l[1] = "task" /\ m[1] = "lock"

Upcoming(s) == {l \in tx[s].todo : \A m \in tx[s].todo : ~Precedes(m, l)}
Blocks(u, l) == tx[u] # Nil /\ \E m \in tx[u].held : Conflicts(l, m)
WaitsFor(s, u) == tx[s] # Nil /\ u # s /\ \E l \in Upcoming(s) : Blocks(u, l)

lockTaskResourceAdvisoryGroups(rs) == {Guard(r) : r \in rs}

(* Every committed lock row of the resource, whatever its task's status.    *)
lockTaskResourceGroup(r) == {LockRow(t, r) : t \in {u \in Task : r \in Locks(u)}}
lockTaskResourceGroups(rs) == UNION {lockTaskResourceGroup(r) : r \in rs}

LockRowsOf(ts) == UNION {{LockRow(t, r) : r \in Locks(t)} : t \in ts}

getDeploymentPlanTaskResourceLockGroups(p, req) ==
    {r \in Resource : \E t \in NewTasks(p) : RequestedPolicy(req, t, r) # "NONE"}

TxInit ==
    /\ QueueInit
    /\ tx = [s \in Connection |-> Nil]

-----------------------------------------------------------------------------
(* Steps that all transactions share.                                       *)

IsAt(s, op, at) == tx[s] # Nil /\ tx[s].op \in op /\ tx[s].at = at /\ tx[s].todo = {}
Begin(s, transaction) == tx[s] = Nil /\ tx' = [tx EXCEPT ![s] = transaction]
GoTo(s, at, todo) == tx' = [tx EXCEPT ![s].at = at, ![s].todo = todo]
End(s) == tx' = [tx EXCEPT ![s] = Nil]

TakeLock(s) ==
    /\ tx[s] # Nil
    /\ \E l \in Upcoming(s) :
          /\ \A u \in Connection \ {s} : ~Blocks(u, l)
          /\ tx' = [tx EXCEPT ![s].held = @ \cup {l}, ![s].todo = @ \ {l}]
    /\ UNCHANGED queueVars

(* The connection is lost, the request is cancelled, or the database has    *)
(* chosen this transaction to resolve a deadlock.                           *)
Rollback(s) ==
    /\ tx[s] # Nil
    /\ End(s)
    /\ UNCHANGED queueVars

-----------------------------------------------------------------------------
(* CreateTasksForDeploymentPlan.                                            *)

BeginCreate(s, p, req) ==
    /\ planStatus[p] = "READY"
    /\ \A t \in NewTasks(p) : status[t] = "NONE"
    /\ Begin(s, Transaction("create", p, req, "guarded",
               lockTaskResourceAdvisoryGroups(getDeploymentPlanTaskResourceLockGroups(p, req)), {}))
    /\ UNCHANGED queueVars

(* Under the guards the existing tasks are read again; preflight then locks *)
(* the targets and the release bundle.                                      *)
LockForPreflight(s) ==
    LET p == tx[s].on
    IN  /\ IsAt(s, {"create"}, "guarded")
        /\ IF \E t \in NewTasks(p) : status[t] # "NONE" THEN End(s)
           ELSE GoTo(s, "preflight", {TargetRow(t[2]) : t \in NewTasks(p)} \cup {BundleRow(p)})
        /\ UNCHANGED queueVars

PreflightFails(s) ==
    /\ IsAt(s, {"create"}, "preflight")
    /\ preflight' = [preflight EXCEPT ![tx[s].on] = "FAILED"]
    /\ End(s)
    /\ UNCHANGED <<planStatus, status, queue, policy, acquired, released>>

(* The new rows are inserted (a duplicate lock ends the transaction) and    *)
(* the lock rows of their resources are locked.                             *)
InsertTasks(s) ==
    LET groups == getDeploymentPlanTaskResourceLockGroups(tx[s].on, tx[s].req)
    IN  /\ IsAt(s, {"create"}, "preflight")
        /\ IF HasDuplicateLock(tx[s].on, tx[s].req) THEN End(s)
           ELSE tx' = [tx EXCEPT ![s].at = "policies", ![s].left = groups,
                                 ![s].todo = lockTaskResourceGroups(groups)]
        /\ UNCHANGED queueVars

(* One lock's policy, in the order of the locks.  CANCEL_OLDER updates the  *)
(* rows of older queued tasks, then all their lock rows, for which it has   *)
(* no guard of its own.                                                     *)
ApplyPolicy(s) ==
    LET p == tx[s].on
        Older(r, statuses) == UnreleasedOn(r, statuses, p) \ tx[s].canceled
    IN  /\ IsAt(s, {"create"}, "policies")
        /\ \E r \in tx[s].left :
              /\ \A q \in tx[s].left : SortKey[r] <= SortKey[q]
              /\ LET olderTasks == IF Requests(p, tx[s].req, r, "CANCEL_OLDER")
                                   THEN Older(r, {"QUEUED"}) ELSE {}
                 IN  IF /\ Requests(p, tx[s].req, r, "REJECT_NEW")
                        /\ Older(r, {"QUEUED", "RUNNING"}) # {}
                     THEN End(s)
                     ELSE tx' = [tx EXCEPT
                            ![s].left = @ \ {r}, ![s].canceled = @ \cup olderTasks,
                            ![s].todo = {TaskRow(t) : t \in olderTasks} \cup LockRowsOf(olderTasks)]
        /\ UNCHANGED queueVars

CommitCreate(s) ==
    LET p == tx[s].on
        canceled == tx[s].canceled
    IN  /\ IsAt(s, {"create"}, "policies")
        /\ tx[s].left = {}
        /\ planStatus[p] = "READY"
        /\ planStatus' = [planStatus EXCEPT ![p] = "EXECUTED"]
        /\ preflight' = [preflight EXCEPT ![p] = "PASSED"]
        /\ status' = [t \in Task |-> IF t \in NewTasks(p) THEN "QUEUED"
                                     ELSE IF t \in canceled THEN "CANCELED" ELSE status[t]]
        /\ queue' = queue \o TasksInOrder(p)
        /\ policy' = [t \in Task |->
                        IF t \in NewTasks(p)
                        THEN [r \in Resource |-> RequestedPolicy(tx[s].req, t, r)] ELSE policy[t]]
        /\ released' = [t \in Task |-> IF t \in canceled THEN Locks(t) ELSE released[t]]
        /\ End(s)
        /\ UNCHANGED acquired

-----------------------------------------------------------------------------
(* TransitionTaskState and the end of a task by a step event: "start" and   *)
(* "finish"; leaseTaskCandidate: "claim".                                   *)

BeginTransition(s, t, op) ==
    /\ status[t] # "NONE"
    /\ Begin(s, Transaction(op, t, Nil, "locked", {TaskRow(t)}, {}))
    /\ UNCHANGED queueVars

(* A claim takes a candidate whose row nobody has locked, and its bundle.   *)
BeginClaim(s, t) ==
    /\ status[t] \in {"QUEUED", "RUNNING"}
    /\ \A u \in Connection : tx[u] # Nil => TaskRow(t) \notin tx[u].held
    /\ Begin(s, Transaction("claim", t, Nil, "locked", {BundleRow(t[1])}, {TaskRow(t)}))
    /\ UNCHANGED queueVars

(* A fault: the status read before the wait for the row is trusted.         *)
LockGuards_Fault(s) ==
    /\ IsAt(s, {"start", "finish", "claim"}, "locked")
    /\ GoTo(s, "guarded", lockTaskResourceAdvisoryGroups(Locks(tx[s].on)))
    /\ UNCHANGED queueVars

(* The task's row is locked: its status allows the transition, or not.  A   *)
(* running task is reclaimed with the locks that it has.                    *)
LockGuards(s) ==
    LET t == tx[s].on
        from == IF tx[s].op = "finish" THEN "RUNNING" ELSE "QUEUED"
        reclaimed == tx[s].op = "claim" /\ status[t] = "RUNNING"
    IN  /\ IsAt(s, {"start", "finish", "claim"}, "locked")
        /\ \/ status[t] = from /\ GoTo(s, "guarded", lockTaskResourceAdvisoryGroups(Locks(t)))
           \/ reclaimed /\ GoTo(s, "insert", {TargetKey(t[2])})
           \/ status[t] # from /\ ~reclaimed /\ End(s)
        /\ UNCHANGED queueVars

LockRows(s) ==
    LET t == tx[s].on
    IN  /\ IsAt(s, {"start", "finish", "claim"}, "guarded")
        /\ GoTo(s, "rows", IF tx[s].op = "finish" THEN LockRowsOf({t})
                           ELSE lockTaskResourceGroups(Locks(t)))
        /\ UNCHANGED queueVars

HasConflict(t) ==
    \E r \in Locks(t) : policy[t][r] # "ALLOW_PARALLEL" /\ hasActiveTaskResourceConflict(t, r)

(* A conflict rolls back; a claim goes on to insert its lease, whose        *)
(* foreign key locks the target.                                            *)
CheckConflicts(s) ==
    /\ IsAt(s, {"start", "claim"}, "rows")
    /\ IF HasConflict(tx[s].on) THEN End(s)
       ELSE GoTo(s, "insert", IF tx[s].op = "claim" THEN {TargetKey(tx[s].on[2])} ELSE {})
    /\ UNCHANGED queueVars

CommitStart(s) ==
    LET t == tx[s].on
    IN  /\ IsAt(s, {"start", "claim"}, "insert")
        /\ acquired' = [acquired EXCEPT ![t] = @ \cup (Locks(t) \ released[t])]
        /\ status' = [status EXCEPT ![t] = "RUNNING"]
        /\ End(s)
        /\ UNCHANGED <<planStatus, preflight, queue, policy, released>>

CommitFinish(s, end) ==
    LET t == tx[s].on
    IN  /\ IsAt(s, {"finish"}, "rows")
        /\ status' = [status EXCEPT ![t] = end]
        /\ released' = [released EXCEPT ![t] = Locks(t)]
        /\ End(s)
        /\ UNCHANGED <<planStatus, preflight, queue, policy, acquired>>

-----------------------------------------------------------------------------
TxNext ==
    \E s \in Connection :
        \/ TakeLock(s) \/ Rollback(s)
        \/ \E p \in Plan, req \in TxRequest : BeginCreate(s, p, req)
        \/ LockForPreflight(s) \/ PreflightFails(s) \/ InsertTasks(s)
        \/ ApplyPolicy(s) \/ CommitCreate(s)
        \/ \E t \in Task : BeginClaim(s, t)
        \/ \E t \in Task, op \in {"start", "finish"} : BeginTransition(s, t, op)
        \/ LockGuards(s) \/ LockRows(s) \/ CheckConflicts(s) \/ CommitStart(s)
        \/ \E end \in {"SUCCEEDED", "FAILED"} : CommitFinish(s, end)

TxSpec == TxInit /\ [][TxNext]_txVars

-----------------------------------------------------------------------------
(* Properties.                                                              *)

(* Sessions each of which waits for another of them.                        *)
Deadlocked(ss) == ss # {} /\ \A s \in ss : \E u \in ss : WaitsFor(s, u)

(***************************************************************************)
(* "Concurrent create/start operations for the same resource are serialized *)
(* by deterministic resource-key ordering" (docs/adr/0021, line 34): no     *)
(* transactions ever wait for each other in a circle.                       *)
(***************************************************************************)
NoDeadlock == \A ss \in SUBSET Connection : ~Deadlocked(ss)

CancelsOlder(s) == tx[s].op = "create" /\ "CANCEL_OLDER" \in {tx[s].req.default} \cup
                     {tx[s].req.additional[r] : r \in AdditionalResource}
ShareBundle(s, u) ==
    /\ tx[s].op = "claim" /\ tx[u].op = "create"
    /\ BundleRow(tx[s].on[1]) = BundleRow(tx[u].on)

(***************************************************************************)
(* The guards' order does what it can: a deadlock always has a creation     *)
(* that cancels older tasks (it takes their rows after the guards, a start  *)
(* before), or a claim and a creation for one release bundle (preflight     *)
(* locks the bundle after the guards, a claim before).                      *)
(***************************************************************************)
DeadlockExplained ==
    \A ss \in SUBSET Connection :
        Deadlocked(ss) =>
            \/ \E s \in ss : CancelsOlder(s)
            \/ \E s, u \in ss : ShareBundle(s, u)

(***************************************************************************)
(* Whatever the statements of concurrent transactions see between them,     *)
(* what a session commits is one step of the task queue (QueueNext, for the *)
(* requests that are made): its transactions may be taken as atomic.  And   *)
(* deadlocks are the ones explained above.                                  *)
(***************************************************************************)
AtomicStep ==
    \/ \E p \in Plan : CreateTasksPreflightFailed(p)
    \/ \E p \in Plan, req \in TxRequest : CreateTasks(p, req)
    \/ \E t \in Task, s \in TaskStatus : TransitionTaskState(t, s)

LockingSound ==
    /\ [][tx' = tx \/ UNCHANGED queueVars \/ AtomicStep]_txVars
    /\ []DeadlockExplained
=============================================================================
