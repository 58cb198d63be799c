--------------------------- MODULE ReleaseBundles ---------------------------
(***************************************************************************)
(* Release bundles: drafts that are written, validated against their        *)
(* channel, published with a snapshot of the variables, blocked and         *)
(* archived (internal/db/release_bundles.go, internal/releasebundles,       *)
(* internal/channelrules, api/release_bundle.go and the handlers).          *)
(*                                                                          *)
(* One application with one channel.  A bundle's content is                 *)
(*   number, comps (a sequence of components), branch, tag, contract;       *)
(* a component has key, type, version, ref, digest.  A range or a pattern   *)
(* of the channel's rules is the set of what it admits.  Requests are       *)
(* transactions under READ COMMITTED, modelled statement by statement.      *)
(***************************************************************************)
EXTENDS Naturals, Sequences

CONSTANTS
    Bundle, Key, Session, Nil,
    Contents,        \* what requests may contain
    VersionName,     \* name of each application version
    RuleSets,        \* rules the channel may get: [ranges, prereleases, branches, tags]
    MaxEdits         \* how often variables change

None == [status |-> "NONE"]
Deleted == [status |-> "DELETED"]
Idle == [op |-> "idle", bundle |-> Nil]
NoKey == "no key"

VARIABLES
    row,         \* committed bundles: [status, content, snapshot, checksum]
    key,         \* idempotency records: [checksum, bundle]
    accepted,    \* status changes in the audit log of each bundle
    rules,       \* the channel's rules
    variables,   \* edition of the application's variables
    tx           \* transaction of each session

vars == <<row, key, accepted, rules, variables, tx>>

Exists(b) == row[b].status \notin {"NONE", "DELETED"}
Elements(c) == {c.comps[i] : i \in DOMAIN c.comps}
Children(c) == {x.ref : x \in {y \in Elements(c) : y.type = "child_release_bundle"}}

Init ==
    /\ row = [b \in Bundle |-> None] /\ key = [k \in Key |-> Nil]
    /\ accepted = [b \in Bundle |-> <<>>]
    /\ rules \in RuleSets /\ variables = 0
    /\ tx = [s \in Session |-> Idle]

-----------------------------------------------------------------------------
(* The request.                                                              *)

IsSHA256Digest(d) == d # Nil

validComponent(x) ==
    /\ x.version # Nil
    /\ CASE x.type = "application_version" -> x.ref # Nil
         [] x.type = "child_release_bundle" -> x.ref # Nil
         [] x.type = "oci_image" -> x.ref # Nil /\ IsSHA256Digest(x.digest)
         [] x.type = "helm_chart" -> x.ref # Nil
         [] x.type = "external_artifact" -> x.ref # Nil /\ x.digest # Nil
         [] OTHER -> FALSE

(* Every image of the contract is the image of the component of that name.   *)
validateReleaseContractComponents(ct, cs) ==
    /\ ct.images # {}
    /\ \A i \in ct.images : \E x \in cs :
          /\ x.key = i.name /\ x.type = "oci_image"
          /\ x.ref = i.ref /\ x.digest = i.digest /\ x.version = i.version
    /\ \A i, j \in ct.images : i.name = j.name => i = j

validateReleaseContractCompatibility(ct) ==
    /\ ct.affected # {} /\ ct.affected \subseteq {i.name : i \in ct.images}
    /\ \A q \in ct.requires : q.contract # Nil \/ q.minimum # Nil

ValidateReleaseContract(ct, cs) ==
    ct # Nil => /\ validateReleaseContractComponents(ct, cs)
                /\ validateReleaseContractCompatibility(ct)

UniqueKeys(c) == \A i, j \in DOMAIN c.comps : c.comps[i].key = c.comps[j].key => i = j

Validate(c) ==
    /\ c.comps # <<>> /\ UniqueKeys(c)
    /\ \A x \in Elements(c) : validComponent(x)
    /\ ValidateReleaseContract(c.contract, Elements(c))

(* The checksum of what a bundle contains: components count in the order of  *)
(* their keys, whatever order the request had.                               *)
Canonicalize(c, snapshot) == <<[c EXCEPT !.comps = Elements(c)], snapshot>>

-----------------------------------------------------------------------------
(* The channel's rules.                                                      *)

evaluateVersionRanges(v) == rules.ranges = {} \/ \E r \in rules.ranges : v.name \in r
evaluatePrereleasePatterns(v) ==
    v.prerelease = Nil \/ rules.prereleases = {} \/ \E p \in rules.prereleases : v.prerelease \in p
EvaluateVersion(v) == v.semver /\ evaluateVersionRanges(v) /\ evaluatePrereleasePatterns(v)

(* A source is needed where there are rules about sources, and what is named *)
(* needs a rule that admits it.                                              *)
evaluateSourceRules(c) ==
    \/ rules.branches = {} /\ rules.tags = {}
    \/ /\ c.branch # Nil \/ c.tag # Nil
       /\ c.branch # Nil => \E p \in rules.branches : c.branch \in p
       /\ c.tag # Nil => \E p \in rules.tags : c.tag \in p

-----------------------------------------------------------------------------
(* Transactions.                                                             *)

LockedByOther(s, b) == \E o \in Session \ {s} : tx[o].bundle = b
Ends(s) == tx' = [tx EXCEPT ![s] = Idle]
Goes(s, t) == tx' = [tx EXCEPT ![s] = t]
Same == UNCHANGED <<rules, variables>>

ensureReleaseBundleApplicationVersionReference(x) == x.ref \in DOMAIN VersionName
ensureReleaseBundleChildReference(b, x) == x.ref # b /\ Exists(x.ref)
ensureReleaseBundleComponentReferences(b, x) ==
    CASE x.type = "application_version" -> ensureReleaseBundleApplicationVersionReference(x)
      [] x.type = "child_release_bundle" -> ensureReleaseBundleChildReference(b, x)
      [] x.type = "oci_image" -> IsSHA256Digest(x.digest)
      [] OTHER -> TRUE
ensureReleaseBundleReferences(b, c) ==
    \A x \in Elements(c) : ensureReleaseBundleComponentReferences(b, x)

(* Foreign keys of the components: the children exist when they are written, *)
(* and the write waits for whoever has locked one.                           *)
insertReleaseBundleComponents(s, c) ==
    \A d \in Children(c) : Exists(d) /\ ~LockedByOther(s, d)

NumberFree(b, c) == \A d \in Bundle \ {b} : Exists(d) => row[d].content.number # c.number

createReleaseBundleHandler(s, c, k) ==
    /\ tx[s] = Idle /\ Validate(c)
    /\ ensureReleaseBundleReferences(Nil, c)
    /\ Goes(s, [op |-> "create", bundle |-> Nil, content |-> c, key |-> k])
    /\ Same /\ UNCHANGED <<row, key, accepted>>

(* The advisory lock on the key: requests with one key follow each other.    *)
lockReleaseBundleIdempotencyKey(s) ==
    /\ tx[s].op = "create" /\ tx[s].key # NoKey
    /\ \A o \in Session \ {s} : tx[o].op = "insert" => tx[o].key # tx[s].key
    /\ Goes(s, [tx[s] EXCEPT !.op = "insert"])
    /\ Same /\ UNCHANGED <<row, key, accepted>>

(* A record ends the request: with the bundle it names, or with an error for *)
(* another request.                                                          *)
getReleaseBundleIdempotencyRecord(s) ==
    /\ tx[s].op = "insert" /\ key[tx[s].key] # Nil
    /\ Ends(s)
    /\ Same /\ UNCHANGED <<row, key, accepted>>

insertReleaseBundle(s, b) ==
    LET c == tx[s].content IN
    /\ tx[s].op = "insert" \/ (tx[s].op = "create" /\ tx[s].key = NoKey)
    /\ tx[s].key # NoKey => key[tx[s].key] = Nil
    /\ row[b] = None
    /\ insertReleaseBundleComponents(s, c) /\ NumberFree(b, c)
    /\ row' = [row EXCEPT ![b] = [status |-> "DRAFT", content |-> c, snapshot |-> Nil,
                                  checksum |-> Canonicalize(c, Nil)]]
    /\ key' = IF tx[s].key = NoKey THEN key
              ELSE [key EXCEPT ![tx[s].key] = [checksum |-> Canonicalize(c, Nil), bundle |-> b]]
    /\ Ends(s) /\ Same /\ UNCHANGED <<accepted>>

(* getReleaseBundle for update: the row is locked and read.                  *)
getReleaseBundle(s, b, op, c) ==
    /\ tx[s] = Idle /\ Exists(b) /\ ~LockedByOther(s, b)
    /\ Goes(s, [op |-> op, bundle |-> b, content |-> c, key |-> NoKey])
    /\ Same /\ UNCHANGED <<row, key, accepted>>

updateReleaseBundleHandler(s, b, c) ==
    Validate(c) /\ row[b].status = "DRAFT" /\ getReleaseBundle(s, b, "update", c)

UpdateReleaseBundle(s) ==
    LET b == tx[s].bundle  c == tx[s].content IN
    /\ tx[s].op = "update"
    /\ ensureReleaseBundleReferences(b, c)
    /\ insertReleaseBundleComponents(s, c) /\ NumberFree(b, c)
    /\ row' = [row EXCEPT ![b].content = c, ![b].checksum = Canonicalize(c, row[b].snapshot)]
    /\ Ends(s) /\ Same /\ UNCHANGED <<key, accepted>>

(* Parents and idempotency records protect a draft.                          *)
DeleteReleaseBundleWithID(s, b) ==
    /\ tx[s] = Idle /\ row[b].status = "DRAFT" /\ ~LockedByOther(s, b)
    /\ \A d \in Bundle : Exists(d) => b \notin Children(row[d].content)
    /\ \A k \in Key : key[k] # Nil => key[k].bundle # b
    /\ row' = [row EXCEPT ![b] = Deleted]
    /\ Same /\ UNCHANGED <<key, accepted, tx>>

-----------------------------------------------------------------------------
(* Publication, one statement after the other under the lock on the bundle.  *)

ValidateBundleContent(r) ==
    /\ r.content.comps # <<>>
    /\ r.checksum = Canonicalize(r.content, r.snapshot)
    /\ ValidateReleaseContract(r.content.contract, Elements(r.content))

validateApplicationVersionComponent(x) ==
    x.ref \in DOMAIN VersionName /\ VersionName[x.ref] = x.version /\ EvaluateVersion(x.version)

validateReleaseBundleContentAndRules(r) ==
    /\ ValidateBundleContent(r) /\ evaluateSourceRules(r.content)
    /\ \A x \in Elements(r.content) :
          x.type = "application_version" => validateApplicationVersionComponent(x)

validateChildReleaseBundleComponent_Fault(d) == Exists(d)
validateChildReleaseBundleComponent(d) == row[d].status = "PUBLISHED"

(* A rejected change is recorded and committed; nothing reads the record.    *)
insertRejectedAuditEvent(s) == Ends(s)

PublishReleaseBundle(s) ==
    LET r == row[tx[s].bundle] IN
    /\ tx[s].op = "publish"
    /\ IF r.status = "DRAFT" /\ validateReleaseBundleContentAndRules(r)
       THEN Goes(s, [op |-> "children", bundle |-> tx[s].bundle, left |-> Children(r.content)])
       ELSE insertRejectedAuditEvent(s)
    /\ Same /\ UNCHANGED <<row, key, accepted>>

(* The children are looked at one after the other, and not locked.           *)
validateChildren(s) ==
    /\ tx[s].op = "children" /\ tx[s].left # {}
    /\ \E d \in tx[s].left :
          IF validateChildReleaseBundleComponent(d)
          THEN Goes(s, [tx[s] EXCEPT !.left = @ \ {d}])
          ELSE insertRejectedAuditEvent(s)
    /\ Same /\ UNCHANGED <<row, key, accepted>>

createVariableSnapshotForReleaseBundle(s) ==
    /\ tx[s].op = "children" /\ tx[s].left = {}
    /\ Goes(s, [op |-> "write", bundle |-> tx[s].bundle, snapshot |-> variables])
    /\ Same /\ UNCHANGED <<row, key, accepted>>

publishReleaseBundleStatus(s) ==
    LET b == tx[s].bundle IN
    /\ tx[s].op = "write"
    /\ row' = [row EXCEPT ![b] = [status |-> "PUBLISHED", content |-> @.content,
                                  snapshot |-> tx[s].snapshot,
                                  checksum |-> Canonicalize(@.content, tx[s].snapshot)]]
    /\ accepted' = [accepted EXCEPT ![b] = Append(@, "PUBLISHED")]
    /\ Ends(s) /\ Same /\ UNCHANGED key

AllowedFrom_Fault(to) == IF to = "BLOCKED" THEN {"PUBLISHED", "ARCHIVED"} ELSE {"PUBLISHED", "BLOCKED"}
AllowedFrom(to) == IF to = "BLOCKED" THEN {"PUBLISHED"} ELSE {"PUBLISHED", "BLOCKED"}

(* BlockReleaseBundle and ArchiveReleaseBundle; a change that is not allowed *)
(* is recorded as rejected.                                                  *)
transitionReleaseBundle(s, b, to) ==
    /\ tx[s] = Idle /\ Exists(b) /\ ~LockedByOther(s, b)
    /\ IF row[b].status \in AllowedFrom(to)
       THEN /\ row' = [row EXCEPT ![b].status = to]
            /\ accepted' = [accepted EXCEPT ![b] = Append(@, to)]
       ELSE UNCHANGED <<row, accepted>>
    /\ Same /\ UNCHANGED <<key, tx>>

(* A failed statement, a conflict, a deadlock or a lost connection.          *)
Rollback(s) == tx[s] # Idle /\ Ends(s) /\ Same /\ UNCHANGED <<row, key, accepted>>

ChangeRules(r) == rules' = r /\ UNCHANGED <<row, key, accepted, variables, tx>>
ChangeVariables ==
    /\ variables < MaxEdits /\ variables' = variables + 1
    /\ UNCHANGED <<row, key, accepted, rules, tx>>

SessionNext(s) ==
    \/ \E c \in Contents, k \in Key \cup {NoKey} : createReleaseBundleHandler(s, c, k)
    \/ lockReleaseBundleIdempotencyKey(s) \/ getReleaseBundleIdempotencyRecord(s)
    \/ \E b \in Bundle :
          \/ insertReleaseBundle(s, b) \/ DeleteReleaseBundleWithID(s, b)
          \/ getReleaseBundle(s, b, "publish", Nil)
          \/ \E c \in Contents : updateReleaseBundleHandler(s, b, c)
          \/ \E to \in {"BLOCKED", "ARCHIVED"} : transitionReleaseBundle(s, b, to)
    \/ UpdateReleaseBundle(s) \/ PublishReleaseBundle(s) \/ validateChildren(s)
    \/ createVariableSnapshotForReleaseBundle(s) \/ publishReleaseBundleStatus(s)
    \/ Rollback(s)

Next ==
    \/ \E s \in Session : SessionNext(s)
    \/ \E r \in RuleSets : ChangeRules(r)
    \/ ChangeVariables

Spec == Init /\ [][Next]_vars

-----------------------------------------------------------------------------
Released == {b \in Bundle : row[b].status \in {"PUBLISHED", "BLOCKED", "ARCHIVED"}}

(***************************************************************************)
(* What is released contains released bundles only, however publications,   *)
(* updates and deletions of parents and children overlap, and no bundle     *)
(* contains itself, directly or through others (no set of released bundles  *)
(* in which each has a child in the set).                                   *)
(***************************************************************************)
ReleasesClosed ==
    /\ \A b \in Released : Children(row[b].content) \subseteq Released
    /\ ~\E S \in (SUBSET Released) \ {{}} : \A b \in S : Children(row[b].content) \cap S # {}

(***************************************************************************)
(* The audit log accounts for every bundle's status, and an idempotency key *)
(* names a bundle that exists, so that a repeated request finds it.         *)
(***************************************************************************)
ReleasesAccountedFor ==
    /\ \A b \in Bundle : Exists(b) =>
          row[b].status = IF accepted[b] = <<>> THEN "DRAFT" ELSE accepted[b][Len(accepted[b])]
    /\ \A k \in Key : key[k] # Nil => Exists(key[k].bundle)

(***************************************************************************)
(* A release is never changed again but in its status, which never goes     *)
(* back, and a key is never given to another bundle.                        *)
(***************************************************************************)
After(st) == CASE st = "PUBLISHED" -> {"PUBLISHED", "BLOCKED", "ARCHIVED"}
               [] st = "BLOCKED" -> {"BLOCKED", "ARCHIVED"}
               [] st = "ARCHIVED" -> {"ARCHIVED"}
ReleasesFrozen ==
    [][/\ \A b \in Released : /\ row'[b].status \in After(row[b].status)
                              /\ row'[b] = [row[b] EXCEPT !.status = row'[b].status]
       /\ \A k \in Key : key[k] # Nil => key'[k] = key[k]]_vars
=============================================================================
