------------------------------ MODULE StepGraph ------------------------------
(***************************************************************************)
(* Validation of the step graph of a process revision: the depth-first      *)
(* search of validateDeploymentProcessStepGraph                             *)
(* (internal/db/deployment_processes.go), one visit or return at a time.    *)
(* Everything downstream of it, from the batches of a lease to the          *)
(* completion of a task, relies on the graphs it lets through.              *)
(***************************************************************************)
EXTENDS Naturals, Sequences, StepBatch

CONSTANTS
    Key,    \* the step keys of the revision
    Name    \* what a dependency may say, keys or not

ASSUME KeyAssumption == Key \subseteq Name

VARIABLES
    deps,      \* the dependencies of each step, as submitted
    roots,     \* keys the outer loop has still to visit (map order: any)
    stack,     \* the keys being visited, in call order
    todo,      \* for a key on the stack, the dependencies not yet followed
    visited,
    verdict

graphVars == <<deps, roots, stack, todo, visited, verdict>>

Visiting == {stack[i] : i \in 1..Len(stack)}

GraphTypeOK ==
    /\ deps \in [Key -> SUBSET Name]
    /\ roots \subseteq Key
    /\ stack \in Seq(Key)
    /\ todo \in [Key -> SUBSET Name]
    /\ visited \subseteq Key
    /\ verdict \in {"NONE", "VISITING", "ACCEPTED", "UNKNOWN_OR_SELF", "CYCLE"}

GraphInit ==
    /\ deps \in [Key -> SUBSET Name]
    /\ roots = Key
    /\ stack = <<>>
    /\ todo = [k \in Key |-> {}]
    /\ visited = {}
    /\ verdict = "NONE"

(* The first loop: no step depends on itself or on a step that is not there.*)
CheckNames ==
    /\ verdict = "NONE"
    /\ verdict' = IF \A k \in Key : deps[k] \subseteq Key \ {k}
                  THEN "VISITING" ELSE "UNKNOWN_OR_SELF"
    /\ UNCHANGED <<deps, roots, stack, todo, visited>>

(* visit(k), called by the outer loop or for a dependency.                  *)
Visit_IgnoresVisiting(k) ==
    IF k \in visited \cup Visiting THEN UNCHANGED <<stack, visited, verdict>>
    ELSE /\ stack' = Append(stack, k)
         /\ UNCHANGED <<visited, verdict>>
Visit(k) ==
    IF k \in visited THEN UNCHANGED <<stack, visited, verdict>>
    ELSE IF k \in Visiting THEN verdict' = "CYCLE" /\ UNCHANGED <<stack, visited>>
    ELSE /\ stack' = Append(stack, k)
         /\ UNCHANGED <<visited, verdict>>

VisitRoot(k) ==
    /\ verdict = "VISITING" /\ stack = <<>> /\ k \in roots
    /\ roots' = roots \ {k}
    /\ todo' = IF k \in visited THEN todo ELSE [todo EXCEPT ![k] = deps[k]]
    /\ Visit(k)
    /\ UNCHANGED deps

Follow(d) ==
    /\ verdict = "VISITING" /\ stack # <<>>
    /\ d \in todo[stack[Len(stack)]]
    /\ todo' = [k \in Key |->
                  IF k = stack[Len(stack)] THEN todo[k] \ {d}
                  ELSE IF k = d /\ d \notin visited \cup Visiting THEN deps[d]
                  ELSE todo[k]]
    /\ Visit(d)
    /\ UNCHANGED <<deps, roots>>

(* The key was only being visited: it becomes visited.                      *)
Return ==
    /\ verdict = "VISITING" /\ stack # <<>> /\ todo[stack[Len(stack)]] = {}
    /\ stack' = SubSeq(stack, 1, Len(stack) - 1)
    /\ visited' = visited \cup {stack[Len(stack)]}
    /\ UNCHANGED <<deps, roots, todo, verdict>>

Accept ==
    /\ verdict = "VISITING" /\ stack = <<>> /\ roots = {}
    /\ verdict' = "ACCEPTED"
    /\ UNCHANGED <<deps, roots, stack, todo, visited>>

GraphNext ==
    \/ CheckNames
    \/ \E k \in Key : VisitRoot(k)
    \/ \E d \in Name : Follow(d)
    \/ Return
    \/ Accept

GraphSpec == GraphInit /\ [][GraphNext]_graphVars

-----------------------------------------------------------------------------
(***************************************************************************)
(* A revision that is accepted has an acyclic graph over its own steps,     *)
(* whatever order the map iteration of the outer loop takes.                *)
(***************************************************************************)
AcceptedIsAcyclic ==
    verdict = "ACCEPTED" => /\ \A k \in Key : deps[k] \subseteq Key
                            /\ Acyclic(Key, deps)

(***************************************************************************)
(* A revision rejected for a cycle has one: a step reached twice over       *)
(* different paths (a diamond) is no cycle.                                 *)
(***************************************************************************)
RejectedHasCycle == verdict = "CYCLE" => ~Acyclic(Key, deps)

(***************************************************************************)
(* The recursion never enters a key it is already inside, so its depth is   *)
(* bounded by the number of steps for every graph, cyclic ones included.    *)
(***************************************************************************)
RecursionBounded == \A i, j \in 1..Len(stack) : stack[i] = stack[j] => i = j
=============================================================================
