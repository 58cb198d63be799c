----------------------------- MODULE MCMigration ----------------------------
(***************************************************************************)
(* The timestamp migration: part "expand" runs TimestampExpand with two     *)
(* rows, one writer and three manifests, part "recovery" runs               *)
(* MigrationRecovery with two processes.                                    *)
(***************************************************************************)
EXTENDS TimestampExpand, TLC

CONSTANTS Procs, None, Server

ASSUME ProcessesNamed == None \notin Procs /\ Server \notin Procs \cup {None}

VARIABLES part,
          marker, shape, protected, lock, engine, tables, pc, goal, orphan,
          plan, pending, result, reserved

Recovery == INSTANCE MigrationRecovery

recoveryVars == <<marker, shape, protected, lock, engine, tables, pc, goal, orphan,
                  plan, pending, result, reserved>>
mcVars == <<part, vars, recoveryVars>>

MCInit == part \in {"expand", "recovery"} /\ Init /\ Recovery!Init

MCNext ==
  /\ UNCHANGED part
  /\ \/ part = "expand" /\ Next /\ UNCHANGED recoveryVars
     \/ part = "recovery" /\ Recovery!Next /\ UNCHANGED vars

MCSpec == MCInit /\ [][MCNext]_mcVars

Sym == Permutations(Rows) \cup Permutations(Procs)

-----------------------------------------------------------------------------
\* TimestampExpand keeps decisions and the way back; in MigrationRecovery a clean
\* marker names the schema that is there, data that forbid the way back are not
\* lost to it, and one process at a time applies a plan.
MigrationSafe ==
  /\ DecisionsKept /\ NeverStranded
  /\ Recovery!CleanMeansMatching /\ Recovery!ProtectedStays138 /\ Recovery!OneApplier
=============================================================================
