------------------------- MODULE MigrationRecovery -------------------------
(***************************************************************************)
(* The migration runner around schema 138 and the recovery of a dirty      *)
(* marker: internal/migrations/migrate.go, timestamp_dirty_recovery_       *)
(* runner.go and the commands hub migrate and hub migrate recover-dirty.   *)
(*                                                                         *)
(* golang-migrate writes the target version as dirty, runs the SQL of the  *)
(* migration in one transaction and then marks the version clean; an       *)
(* interruption leaves the marker dirty and tells nothing about the SQL.   *)
(* Recovery decides from the catalog alone which version to force.         *)
(*                                                                         *)
(* Three locks are involved: the advisory lock of the runner, on a         *)
(* connection of its own; the advisory lock of golang-migrate, on the      *)
(* connection that runs the SQL; and the table locks of a transaction.     *)
(* When a process dies the runner's lock is free at once, but SQL that was *)
(* sent goes on ("server") and keeps the connection's locks until it ends. *)
(***************************************************************************)
EXTENDS Naturals, FiniteSets

CONSTANTS Procs, None, Server
Versions == {137, 138}
NoPlan == [dirty |-> 0, force |-> 0]

VARIABLES marker,      \* schema_migrations
          shape,       \* what the catalog looks like
          protected,   \* evidence that forbids the way back to 137
          lock, engine, tables,
          pc, goal,    \* of each process: its next step, its target version
          orphan,      \* target of SQL whose client has died, or 0
          plan, pending, result, reserved   \* the evidence directory

db == <<marker, shape, protected>>
locks == <<lock, engine, tables>>
files == <<plan, pending, result, reserved>>
vars == <<db, locks, pc, goal, orphan, files>>

Applying == {"lock", "tables", "check", "force", "verify", "seen", "publish"}
Init ==
  /\ marker = [version |-> 137, dirty |-> FALSE]
  /\ shape = 137 /\ protected = FALSE
  /\ lock = None /\ engine = None /\ tables = None
  /\ pc = [p \in Procs |-> "idle"] /\ goal = [p \in Procs |-> 0]
  /\ orphan = 0
  /\ plan = NoPlan /\ pending = [p \in Procs |-> NoPlan]
  /\ result = "none" /\ reserved = FALSE

Clean(v) == [version |-> v, dirty |-> FALSE]
Dirty(v) == [version |-> v, dirty |-> TRUE]
Free(holder, p) == IF holder = p THEN None ELSE holder
Step(p, next) == pc' = [pc EXCEPT ![p] = next]
Release(p) == lock' = Free(lock, p) /\ engine' = Free(engine, p) /\ tables' = Free(tables, p)

\* A hub that still runs writes rows, retention deletes some, a manifest is applied.
Protect ==
  /\ shape = 138 /\ tables = None /\ ~protected
  /\ protected' = TRUE
  /\ UNCHANGED <<marker, shape, locks, pc, goal, orphan, files>>

-----------------------------------------------------------------------------
(* A migration.                                                            *)

preflight(t) == ~marker.dirty /\ marker.version # t /\ (t = 137 => ~protected)

Start(p, t) ==
  /\ pc[p] = "idle" /\ lock = None
  /\ preflight(t)
  /\ lock' = p
  /\ Step(p, "mark") /\ goal' = [goal EXCEPT ![p] = t]
  /\ UNCHANGED <<db, engine, tables, orphan, files>>

Mark(p) ==
  /\ pc[p] = "mark" /\ engine = None
  /\ engine' = p
  /\ marker' = Dirty(goal[p])
  /\ Step(p, "sql")
  /\ UNCHANGED <<shape, protected, lock, tables, goal, orphan, files>>

BeginSql(p) ==
  /\ pc[p] = "sql" /\ tables = None
  /\ tables' = p
  /\ Step(p, "commit")
  /\ UNCHANGED <<db, lock, engine, goal, orphan, files>>

\* The SQL of the way back repeats the guard under its own locks.
Refused(t) == t = 137 /\ protected

CommitSql(p) ==
  /\ pc[p] = "commit" /\ ~Refused(goal[p])
  /\ shape' = goal[p]
  /\ tables' = None
  /\ Step(p, "unmark")
  /\ UNCHANGED <<marker, protected, lock, engine, goal, orphan, files>>

Unmark(p) ==
  /\ pc[p] = "unmark"
  /\ marker' = Clean(goal[p])
  /\ Release(p) /\ Step(p, "idle")
  /\ UNCHANGED <<shape, protected, goal, orphan, files>>

RefuseSql(p) ==
  /\ pc[p] = "commit" /\ Refused(goal[p])
  /\ tables' = None /\ engine' = None
  /\ Step(p, "restore")
  /\ UNCHANGED <<db, lock, goal, orphan, files>>

\* restoreTimestampDowngradeGuardStatus looks at the catalog before it repairs.
RestoreGuarded(p) ==
  /\ pc[p] = "restore"
  /\ marker = Dirty(137) /\ shape = 138
  /\ marker' = Clean(138)
  /\ Release(p) /\ Step(p, "idle")
  /\ UNCHANGED <<shape, protected, goal, orphan, files>>

\* A timeout, a cancellation or an error of the database.
Fail(p) ==
  /\ pc[p] \in {"mark", "sql", "commit", "restore"}
  /\ Release(p) /\ Step(p, "idle")
  /\ UNCHANGED <<db, goal, orphan, files>>

Crash(p) ==
  /\ pc[p] # "idle"
  /\ lock' = Free(lock, p)
  /\ IF pc[p] \in {"sql", "commit"}
     THEN /\ orphan' = goal[p]
          /\ engine' = Server
          /\ tables' = IF tables = p THEN Server ELSE tables
     ELSE /\ engine' = Free(engine, p) /\ tables' = Free(tables, p)
          /\ UNCHANGED orphan
  /\ Step(p, "idle")
  /\ UNCHANGED <<db, goal, files>>

ServerBegin ==
  /\ orphan # 0 /\ tables = None
  /\ tables' = Server
  /\ UNCHANGED <<db, lock, engine, pc, goal, orphan, files>>

ServerEnd ==
  /\ orphan # 0
  /\ \/ tables = Server /\ ~Refused(orphan) /\ shape' = orphan
     \/ UNCHANGED shape
  /\ engine' = None /\ tables' = Free(tables, Server)
  /\ orphan' = 0
  /\ UNCHANGED <<marker, protected, lock, pc, goal, files>>

-----------------------------------------------------------------------------
(* Recovery.                                                               *)

\* ClassifyTimestampDirtyRecovery: the catalog, not the marker, selects.
Classify == shape

PlanRecovery(p) ==
  /\ pc[p] = "idle" /\ lock = None
  /\ plan = NoPlan /\ marker.dirty
  /\ pending' = [pending EXCEPT ![p] = [dirty |-> marker.version, force |-> Classify]]
  /\ Step(p, "plan")
  /\ UNCHANGED <<db, locks, goal, orphan, plan, result, reserved>>

PublishPlan(p) ==
  /\ pc[p] = "plan" /\ plan = NoPlan
  /\ plan' = pending[p]
  /\ Step(p, "idle")
  /\ UNCHANGED <<db, locks, goal, orphan, pending, result, reserved>>

PlanExists(p) ==
  /\ pc[p] = "plan" /\ plan # NoPlan
  /\ Step(p, "idle")
  /\ UNCHANGED <<db, locks, goal, orphan, files>>

\* The reservation is created exclusively, before the database is touched.
Reserve(p) ==
  /\ pc[p] = "idle" /\ plan # NoPlan
  /\ result = "none" /\ ~reserved
  /\ reserved' = TRUE
  /\ Step(p, "lock")
  /\ UNCHANGED <<db, locks, goal, orphan, plan, pending, result>>

LockRecovery(p) ==
  /\ pc[p] = "lock" /\ lock = None
  /\ lock' = p
  /\ Step(p, "tables")
  /\ UNCHANGED <<db, engine, tables, goal, orphan, files>>

LockTables(p) ==
  /\ pc[p] = "tables" /\ tables = None
  /\ tables' = p
  /\ Step(p, "check")
  /\ UNCHANGED <<db, lock, engine, goal, orphan, files>>

catalogMatchesPlan == shape = plan.force

CheckPlan(p) ==
  /\ pc[p] = "check"
  /\ catalogMatchesPlan
  /\ \/ marker = Dirty(plan.dirty) /\ Step(p, "force")
     \/ marker = Clean(plan.force) /\ Step(p, "seen")
  /\ UNCHANGED <<db, locks, goal, orphan, files>>

Force_Fault(p) ==
  /\ pc[p] = "force"
  /\ marker' = Clean(plan.force)
  /\ Step(p, "verify")
  /\ UNCHANGED <<shape, protected, locks, goal, orphan, files>>

Force(p) ==
  /\ pc[p] = "force" /\ engine = None
  /\ marker' = Clean(plan.force)
  /\ Step(p, "verify")
  /\ UNCHANGED <<shape, protected, locks, goal, orphan, files>>

Verify(p) ==
  /\ pc[p] \in {"verify", "seen"}
  /\ marker = Clean(plan.force) /\ shape = plan.force
  /\ Release(p)
  /\ Step(p, IF pc[p] = "verify" THEN "publish" ELSE "publishSeen")
  /\ UNCHANGED <<db, goal, orphan, files>>

Publish(p) ==
  /\ pc[p] \in {"publish", "publishSeen"}
  /\ result = "none"
  /\ result' = IF pc[p] = "publish" THEN "FORCED" ELSE "OBSERVED_ALREADY_CLEAN"
  /\ reserved' = FALSE
  /\ Step(p, "idle")
  /\ UNCHANGED <<db, locks, goal, orphan, plan, pending>>

\* A failed apply closes its reservation but leaves it on disk.
FailClosed(p) ==
  /\ pc[p] \in Applying
  /\ Release(p) /\ Step(p, "idle")
  /\ UNCHANGED <<db, goal, orphan, files>>

\* deploy.sh, alone under its own lock, moves an interrupted reservation aside.
ArchiveInterrupted ==
  /\ reserved /\ \A p \in Procs : pc[p] \notin Applying \cup {"publishSeen"}
  /\ reserved' = FALSE
  /\ UNCHANGED <<db, locks, pc, goal, orphan, plan, pending, result>>

Migration(p) ==
  \/ \E t \in Versions : Start(p, t)
  \/ Mark(p) \/ BeginSql(p) \/ CommitSql(p) \/ Unmark(p)
  \/ RefuseSql(p) \/ RestoreGuarded(p) \/ Fail(p) \/ Crash(p)

Recovery(p) ==
  \/ PlanRecovery(p) \/ PublishPlan(p) \/ PlanExists(p)
  \/ Reserve(p) \/ LockRecovery(p) \/ LockTables(p) \/ CheckPlan(p)
  \/ Force(p) \/ Verify(p) \/ Publish(p) \/ FailClosed(p)

Next ==
  \/ Protect \/ ServerBegin \/ ServerEnd \/ ArchiveInterrupted
  \/ \E p \in Procs : Migration(p) \/ Recovery(p)

Spec == Init /\ [][Next]_vars

-----------------------------------------------------------------------------
\* The state keeps its shape, and a process that has sent SQL holds golang-migrate's lock.
RecoveryTypeOK ==
  /\ marker \in [version : Versions, dirty : BOOLEAN]
  /\ shape \in Versions /\ protected \in BOOLEAN
  /\ lock \in Procs \cup {None}
  /\ engine \in Procs \cup {None, Server} /\ tables \in Procs \cup {None, Server}
  /\ pc \in [Procs -> Applying \cup {"idle", "mark", "sql", "commit", "unmark", "restore",
                                     "plan", "publishSeen"}]
  /\ orphan \in Versions \cup {0} /\ (orphan # 0 <=> engine = Server)
  /\ \A p \in Procs : pc[p] \in {"sql", "commit", "unmark"} => engine = p
  /\ result \in {"none", "FORCED", "OBSERVED_ALREADY_CLEAN"} /\ reserved \in BOOLEAN

\* A clean marker names the schema that is there: whatever dies or times out,
\* and also while SQL whose client has died is still running, neither the
\* migration nor the recovery declares a version clean that the catalog is not.
CleanMeansMatching == ~marker.dirty => marker.version = shape

\* At most one process applies the plan of an evidence directory.
OneApplier == \A p, q \in Procs : pc[p] \in Applying /\ pc[q] \in Applying => p = q

\* Evidence is never replaced once it has been published.
EvidenceKept ==
  [][/\ plan # NoPlan => plan' = plan
     /\ result # "none" => result' = result]_vars

\* Data that forbid the way back are never lost to it.
ProtectedStays138 == protected => shape = 138

\* When deploy.sh takes a retained result for the outcome of the recovery that
\* it was asked for, the marker is clean ("SUCCEEDED with clean postStatus").
ReusedResultMeansClean ==
  /\ orphan = 0 /\ \A p \in Procs : pc[p] = "idle"
  /\ plan # NoPlan /\ result # "none"
  /\ marker \in {Dirty(plan.dirty), Clean(plan.force)}
  => ~marker.dirty
=============================================================================
