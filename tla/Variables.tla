----------------------------- MODULE Variables -----------------------------
(***************************************************************************)
(* Variable sets, how their variables are resolved for a scope, the         *)
(* snapshot a publication takes, and drift (internal/db/variable_sets.go,   *)
(* variable_snapshots.go, internal/variablescope, variableresolution,       *)
(* variabledrift, api/variable_set.go).                                     *)
(*                                                                          *)
(* One variable set of one application.  A variable is                      *)
(*   [key, type, required, default, ref, scoped];                           *)
(* a scoped value is [scope, order, value, ref].  A scope is a function     *)
(* from the dimensions it fixes; a value is [kind, v], a reference          *)
(* [id, name].  An update replaces every row of the set, in one             *)
(* transaction; a publication reads in several statements without locks.    *)
(***************************************************************************)
EXTENDS Naturals, Sequences

CONSTANTS
    Nil,
    VariableSets,    \* sets of variables that requests may bring
    Deployments,     \* deployed configurations: [yaml, env]
    Secret,
    At,              \* scopes that values are resolved for
    Publication,     \* the scope of a publication: application and channel
    MaxEdition

VARIABLES
    set,         \* the committed set: [edition, vars], or Nil
    history,     \* every content that was committed
    git,         \* whether Git has authority over the set
    secrets,     \* secrets that exist
    deployed,    \* configuration of a deployment
    tx,          \* reads of a publication
    snapshot     \* what it stored: [variables, values], or Nil

vars == <<set, history, git, secrets, deployed, tx, snapshot>>
Idle == [op |-> "idle"]

Init ==
    /\ set = Nil /\ history = {} /\ git = FALSE /\ secrets = Secret
    /\ deployed \in Deployments
    /\ tx = Idle /\ snapshot = Nil

-----------------------------------------------------------------------------
(* Scopes.                                                                   *)

(* The shapes of scopes, the most specific first.                            *)
shapes == <<{"tenant", "environment", "target", "channel", "step"},
    {"tenant", "environment", "target"}, {"tenant", "environment", "channel"},
    {"tenant", "environment"}, {"environment", "tag"}, {"environment"},
    {"channel"}, {"application"}>>

Mask(scope) == DOMAIN scope
Supported(scope) == \E i \in DOMAIN shapes : shapes[i] = Mask(scope)
Source(scope) == 1 + CHOOSE i \in DOMAIN shapes : shapes[i] = Mask(scope)

(* What a value fixes is in the scope that is asked for; of tags, one.       *)
scopeMatches(scope, at) ==
    \A d \in DOMAIN scope :
        d \in DOMAIN at /\ IF d = "tag" THEN scope[d] \in at[d] ELSE scope[d] = at[d]

-----------------------------------------------------------------------------
(* Requests.                                                                 *)

isReferenceVariableType(t) == t \in {"secret", "account", "certificate"}
isKnownVariableType(t) == isReferenceVariableType(t) \/ t \in {"string", "number", "boolean", "json"}
validateValueForVariableType(t, v) == t = "json" \/ v.kind = t

ValidReference(t, ref) == t # "secret" => ref.name # Nil

normalizeValueVariable(v) ==
    /\ v.ref = Nil
    /\ IF v.default = Nil THEN v.required ELSE validateValueForVariableType(v.type, v.default)

normalizeReferenceVariable(v) ==
    v.default = Nil /\ IF v.ref = Nil THEN v.required ELSE ValidReference(v.type, v.ref)

normalizeScopedValue(t, x) ==
    /\ x.order \in Nat /\ Supported(x.scope)
    /\ IF isReferenceVariableType(t)
       THEN x.value = Nil /\ x.ref # Nil /\ ValidReference(t, x.ref)
       ELSE x.ref = Nil /\ x.value # Nil /\ validateValueForVariableType(t, x.value)

(* One value for a scope.                                                    *)
normalizeScopedValues(v) ==
    /\ \A x \in v.scoped : normalizeScopedValue(v.type, x)
    /\ \A x, y \in v.scoped : x.scope = y.scope => x = y

normalizeVariable(v) ==
    /\ isKnownVariableType(v.type)
    /\ IF isReferenceVariableType(v.type) THEN normalizeReferenceVariable(v) ELSE normalizeValueVariable(v)
    /\ normalizeScopedValues(v)

normalizeVariableSet(c) ==
    /\ \A v \in c : normalizeVariable(v)
    /\ \A v, w \in c : v.key = w.key => v = w

ensureVariableSecretReference(t, ref) == (t = "secret" /\ ref # Nil) => ref.id \in secrets
ensureVariableReferences(c) == \A v \in c : ensureVariableSecretReference(v.type, v.ref)
ensureVariableScopedValueReferences(c) ==
    \A v \in c : \A x \in v.scoped : ensureVariableSecretReference(v.type, x.ref)

MayWrite(c) ==
    normalizeVariableSet(c) /\ ensureVariableReferences(c) /\ ensureVariableScopedValueReferences(c)

Edition == IF set = Nil THEN 0 ELSE set.edition

CreateVariableSet(c) ==
    /\ set = Nil /\ history = {} /\ MayWrite(c)
    /\ set' = [edition |-> 1, vars |-> c] /\ history' = {c}
    /\ UNCHANGED <<git, secrets, deployed, tx, snapshot>>

(* The rows are deleted and written anew, with new ids (replaceVariableSet-  *)
(* Children, insertVariables, insertScopedValues).                           *)
UpdateVariableSet(c) ==
    /\ set # Nil /\ set.edition < MaxEdition
    /\ ~git /\ MayWrite(c)
    /\ set' = [edition |-> set.edition + 1, vars |-> c] /\ history' = history \cup {c}
    /\ UNCHANGED <<git, secrets, deployed, tx, snapshot>>

DeleteVariableSetWithID ==
    /\ set # Nil /\ ~git
    /\ set' = Nil
    /\ UNCHANGED <<history, git, secrets, deployed, tx, snapshot>>

UpsertConfigAsCodeAuthority(g) ==
    /\ set # Nil /\ git' = g
    /\ UNCHANGED <<set, history, secrets, deployed, tx, snapshot>>

(* A secret that a variable refers to is protected.                          *)
References == IF set = Nil THEN {} ELSE
    {v.ref : v \in set.vars} \cup UNION {{x.ref : x \in v.scoped} : v \in set.vars}
DeleteSecret(s) ==
    /\ s \in secrets /\ \A r \in References \ {Nil} : r.id # s
    /\ secrets' = secrets \ {s}
    /\ UNCHANGED <<set, history, git, deployed, tx, snapshot>>

-----------------------------------------------------------------------------
(* Resolution.                                                               *)

hasResolutionDefault(v) == IF isReferenceVariableType(v.type) THEN v.ref # Nil ELSE v.default # Nil

Candidates(v, at, prompted) ==
    (IF prompted = Nil THEN {}
     ELSE {[rank |-> 1, order |-> 0, tag |-> 0, value |-> prompted.value, ref |-> prompted.ref]})
    \cup {[rank |-> Source(x.scope), order |-> x.order,
           tag |-> IF "tag" \in DOMAIN x.scope THEN x.scope["tag"] ELSE 0,
           value |-> x.value, ref |-> x.ref] : x \in {y \in v.scoped : scopeMatches(y.scope, at)}}
    \cup (IF hasResolutionDefault(v)
          THEN {[rank |-> 10, order |-> 0, tag |-> 0, value |-> v.default, ref |-> v.ref]} ELSE {})

(* By rank, then by sort order, then by scope (two tags of one target).      *)
Before(a, b) ==
    \/ a.rank < b.rank
    \/ a.rank = b.rank /\ a.order < b.order
    \/ a.rank = b.rank /\ a.order = b.order /\ a.tag <= b.tag

Resolution(v, status, value, ref) ==
    [key |-> v.key, type |-> v.type, required |-> v.required, status |-> status,
     value |-> value, ref |-> ref]

resolveVariable(v, at, prompted) ==
    LET C == Candidates(v, at, prompted)
        x == CHOOSE a \in C : \A b \in C : Before(a, b)
    IN IF C = {} THEN Resolution(v, "unresolved", Nil, Nil)
       ELSE Resolution(v, "resolved", IF isReferenceVariableType(v.type) THEN Nil ELSE x.value, x.ref)

Resolve(c, at) == {resolveVariable(v, at, Nil) : v \in c}

(* A prompted value is of the variable's type; a secret exists.              *)
preparePromptedValues(v, p) ==
    IF isReferenceVariableType(v.type)
    THEN p.value = Nil /\ p.ref # Nil /\ ValidReference(v.type, p.ref)
         /\ ensureVariableSecretReference(v.type, p.ref)
    ELSE p.ref = Nil /\ p.value # Nil /\ validateValueForVariableType(v.type, p.value)

-----------------------------------------------------------------------------
(* The snapshot.  Pass 1 reads what is stored as variables, pass 2 what is   *)
(* resolved; each reads the set, its variables, and the scoped values of one *)
(* variable after the other by the variable's id.                            *)

Keys(c) == {v.key : v \in c}

getVariableSetsForApplication ==
    /\ tx = Idle /\ snapshot = Nil
    /\ tx' = IF set = Nil THEN [op |-> "insert", pass |-> 1, edition |-> 0, done |-> {}, todo |-> {}, first |-> {}]
             ELSE [op |-> "variables", pass |-> 1, edition |-> 0, done |-> {}, todo |-> {}, first |-> {}]
    /\ UNCHANGED <<set, history, git, secrets, deployed, snapshot>>

getVariablesForSet ==
    LET c == IF set = Nil THEN {} ELSE set.vars IN
    /\ tx.op = "variables"
    /\ tx' = [tx EXCEPT !.op = "scoped", !.edition = Edition,
                        !.todo = {[v EXCEPT !.scoped = {}] : v \in c}]
    /\ UNCHANGED <<set, history, git, secrets, deployed, snapshot>>

(* Rows that an update has replaced are gone.                                *)
getScopedValuesForVariable ==
    /\ tx.op = "scoped"
    /\ \E v \in tx.todo :
          tx' = [tx EXCEPT !.todo = @ \ {v},
                    !.done = @ \cup {IF tx.edition = Edition
                                     THEN CHOOSE w \in set.vars : w.key = v.key ELSE v}]
    /\ UNCHANGED <<set, history, git, secrets, deployed, snapshot>>

(* The second reading starts with the set, which must still be there.        *)
ResolveVariablesPreview ==
    /\ tx.op = "scoped" /\ tx.todo = {} /\ tx.pass = 1
    /\ tx' = IF set = Nil THEN Idle
             ELSE [tx EXCEPT !.op = "variables", !.pass = 2, !.first = tx.done, !.done = {}]
    /\ UNCHANGED <<set, history, git, secrets, deployed, snapshot>>

canonicalVariableSnapshotVariables(c) ==
    {[v EXCEPT !.default = IF isReferenceVariableType(v.type) THEN Nil ELSE @] : v \in c}

canonicalizeVariableSnapshot(first, second) ==
    [variables |-> canonicalVariableSnapshotVariables(first), values |-> Resolve(second, Publication)]

createVariableSnapshotForReleaseBundle ==
    /\ tx.op = "insert" \/ (tx.op = "scoped" /\ tx.todo = {} /\ tx.pass = 2)
    /\ snapshot' = canonicalizeVariableSnapshot(tx.first, tx.done)
    /\ tx' = Idle
    /\ UNCHANGED <<set, history, git, secrets, deployed>>

Rollback == tx # Idle /\ tx' = Idle /\ UNCHANGED <<set, history, git, secrets, deployed, snapshot>>

Next ==
    \/ \E c \in VariableSets : CreateVariableSet(c) \/ UpdateVariableSet(c)
    \/ DeleteVariableSetWithID
    \/ \E g \in BOOLEAN : UpsertConfigAsCodeAuthority(g)
    \/ \E s \in Secret : DeleteSecret(s)
    \/ getVariableSetsForApplication \/ getVariablesForSet \/ getScopedValuesForVariable
    \/ ResolveVariablesPreview \/ createVariableSnapshotForReleaseBundle \/ Rollback

Spec == Init /\ [][Next]_vars

-----------------------------------------------------------------------------
(* Drift.                                                                    *)

(* YAML by paths: a map is a value and has parts, a list has only parts.     *)
flattenYAML(y) ==
    LET top == {k \in DOMAIN y : y[k].kind # "list"}
        inner == {k \in DOMAIN y : y[k].kind \in {"map", "list"}}
    IN [p \in {<<k>> : k \in top} \cup UNION {{<<k, j>> : j \in DOMAIN y[k].v} : k \in inner} |->
           IF Len(p) = 1 THEN y[p[1]] ELSE y[p[1]].v[p[2]]]

(* The environment file comes last, and its values are strings.              *)
parseDeployedValues(d) ==
    LET y == flattenYAML(d.yaml) IN
    [p \in DOMAIN y \cup {<<k>> : k \in DOMAIN d.env} |->
        IF Len(p) = 1 /\ p[1] \in DOMAIN d.env THEN [kind |-> "string", v |-> d.env[p[1]]] ELSE y[p]]

Numerals == {"1", "2"}
coerceDeployedValue(x, t) ==
    CASE t = "json" /\ x.kind # "null" -> x
      [] x.kind = t -> x
      [] t = "number" /\ x.kind = "string" /\ x.v \in Numerals -> [kind |-> t, v |-> x.v]
      [] t = "boolean" /\ x.kind = "string" /\ x.v \in {"true", "false"} -> [kind |-> t, v |-> x.v]
      [] OTHER -> Nil

jsonEqual(x, y) == x.kind = y.kind /\ x.v = y.v

(* What a secret was when it was deployed nobody knows.                      *)
referenceChanged(r, x) ==
    \/ r.type = "secret" \/ x.kind # "string"
    \/ x.v \notin IF r.ref = Nil THEN {""} ELSE {r.ref.id, r.ref.name}

hasCurrentParentKey_Fault(keys, p) == TRUE
hasCurrentParentKey(keys, p) == Len(p) > 1 /\ p[1] \in keys

Compare(current, d) ==
    LET values == parseDeployedValues(d)
        x(r) == values[<<r.key>>]
        found == {r \in current : <<r.key>> \in DOMAIN values}
        plain == {r \in found : ~isReferenceVariableType(r.type)}
        typed == {r \in plain : coerceDeployedValue(x(r), r.type) # Nil}
        keys == {r.key : r \in current}
    IN [missing |-> {r.key : r \in current \ found},
        removed |-> {p \in DOMAIN values : p \notin {<<k>> : k \in keys} /\ ~hasCurrentParentKey(keys, p)},
        types |-> {r.key : r \in plain \ typed},
        defaults |-> {r.key : r \in {q \in typed :
            q.value # Nil /\ ~jsonEqual(q.value, coerceDeployedValue(x(q), q.type))}},
        references |-> {r.key : r \in {q \in found \ plain : referenceChanged(q, x(q))}}]

HasDrift(drift) == \E part \in DOMAIN drift : drift[part] # {}

GetDeploymentConfigurationDrift(at) ==
    Compare(IF set = Nil THEN {} ELSE Resolve(set.vars, at), deployed)

-----------------------------------------------------------------------------
(***************************************************************************)
(* For every scope that is asked for, the value of a variable is that of a  *)
(* scope that matches and that no other matching scope refines; without     *)
(* one it is the default, and without that the variable is unresolved.      *)
(***************************************************************************)
Finer(x, y) == Mask(y.scope) \subseteq Mask(x.scope) /\ Mask(x.scope) # Mask(y.scope)
MostSpecificWins ==
    set # Nil => \A v \in set.vars, at \in At :
        LET r == resolveVariable(v, at, Nil)
            M == {x \in v.scoped : scopeMatches(x.scope, at)}
        IN IF M = {} THEN r.value = v.default /\ r.ref = v.ref
           ELSE \E x \in M : /\ r.value = x.value /\ r.ref = x.ref
                             /\ ~\E y \in M : Finer(y, x)

(* A prompted value, if it fits, comes before all of them.                   *)
PromptedWins ==
    set # Nil => \A v, w \in set.vars, at \in At :
        LET p == [value |-> w.default, ref |-> w.ref] IN
        preparePromptedValues(v, p) => resolveVariable(v, at, p).ref = p.ref
                                       /\ resolveVariable(v, at, p).value = p.value

(***************************************************************************)
(* A report without drift means that the deployment has each variable as it *)
(* is resolved now, and nothing else but lists without elements; no secret  *)
(* is ever called unchanged.                                                *)
(***************************************************************************)
Deployed(r) ==
    LET x == IF r.key \in DOMAIN deployed.env THEN [kind |-> "string", v |-> deployed.env[r.key]]
             ELSE deployed.yaml[r.key]
    IN IF r.value = Nil THEN x.v \in {r.ref.id, r.ref.name}
       ELSE x.v = r.value.v /\ (r.type = "json" => x.kind = r.value.kind)
NoDriftMeansDeployed ==
    \A at \in At : ~HasDrift(GetDeploymentConfigurationDrift(at)) =>
        LET R == IF set = Nil THEN {} ELSE Resolve(set.vars, at)
            yaml == deployed.yaml
        IN /\ \A r \in R : r.type # "secret" /\ (r.status = "resolved" => Deployed(r))
           /\ {r.key : r \in R} = DOMAIN deployed.env
                 \cup {k \in DOMAIN yaml : yaml[k].kind = "list" => DOMAIN yaml[k].v # {}}

(***************************************************************************)
(* docs/fork/PR-016_VARIABLE_SNAPSHOTS_AND_DRIFT.md: "Snapshot values for   *)
(* resolved Variable Sets associated with the Release Bundle Application":  *)
(* what a publication stores is what the application's variables were at    *)
(* some moment.                                                             *)
(***************************************************************************)
SnapshotOfOneEdition ==
    snapshot # Nil => \E c \in history \cup {{}} : snapshot = canonicalizeVariableSnapshot(c, c)
=============================================================================
