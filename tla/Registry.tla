------------------------------ MODULE Registry ------------------------------
(***************************************************************************)
(* The OCI registry of one organization: pushes and pulls                   *)
(* (internal/registry), its tables (internal/db/artifacts.go,               *)
(* artifact_entitlements.go), pull-through artifacts (registry/upstream)    *)
(* and the clean-up of blobs (internal/cleanup/artifact_blobs.go).          *)
(*                                                                          *)
(* A version row <<artifact, name>> is a tag, or a digest under its own     *)
(* name.  What a manifest consists of is fixed by its digest (Content).     *)
(* Requests read in one step and write in a later one; the transaction that *)
(* does both runs at READ COMMITTED, and unique names are the only lock.    *)
(***************************************************************************)
EXTENDS Naturals, FiniteSets

CONSTANTS
    Artifact, PullThrough,   \* names, and those created with an upstream URL
    Tag, Manifest, Blob,
    Content,                 \* per manifest, the blobs and manifests it lists
    Customer, Entitlement, Session,
    Limit,                   \* artifact_tag_limit of the organization
    Mutable,                 \* feature artifact_version_mutable
    MaxChunks, Nil, All

Name == Tag \cup Manifest
Row == Artifact \X Name

VARIABLES
    artifact,      \* per name: "pushed", or the sync status of a pull-through artifact, or Nil
    version,       \* per row: the digest of its manifest, or Nil
    parts,         \* per row: its ArtifactVersionPart rows
    entitlement,   \* [customer, grants, expired], or Nil
    remote,        \* what the upstream registry has under each tag
    store,         \* per blob: "absent", "fresh" (younger than the minimum age) or "old"
    upload,        \* per session: the chunks of an upload, or Nil
    tx,            \* per session: the request under way and what it has read, or Nil
    sweep,         \* clean-up under way: [referenced, listed], or Nil
    exposed,       \* history: blobs a push relied on while a clean-up had given them up
    pulled         \* history: what customers got, and whether it was granted when checked

vars == <<artifact, version, parts, entitlement, remote, store, upload, tx, sweep, exposed, pulled>>
rows == <<artifact, version, parts>>
blobs == <<store, upload, sweep>>
past == <<exposed, pulled>>

Init ==
    /\ artifact = [a \in Artifact |-> Nil]
    /\ version = [r \in Row |-> Nil] /\ parts = [r \in Row |-> {}]
    /\ entitlement = [e \in Entitlement |-> Nil]
    /\ remote \in [Tag -> IF PullThrough = {} THEN {Nil} ELSE Manifest]
    /\ store = [b \in Blob |-> "absent"] /\ upload = [s \in Session |-> Nil]
    /\ tx = [s \in Session |-> Nil] /\ sweep = Nil
    /\ exposed = {} /\ pulled = {}

-----------------------------------------------------------------------------
(* Queries.                                                                 *)

Rows == {r \in Row : version[r] # Nil}
GetArtifactByName(a) == artifact[a] # Nil
GetArtifactVersion(a, n) == version[<<a, n>>]
GetArtifactVersionsByDigest(a, m) == {n \in Name : version[<<a, n>>] = m}
TagsOf(a) == {t \in Tag : version[<<a, t>>] # Nil}
IsLastTagOfArtifact(a) == Cardinality(TagsOf(a)) = 1

(* The limit is compared with the count after the insert, and not at all    *)
(* while the organization has no tag.                                       *)
EnsureArtifactTagLimitForInsert ==
    LET count == Cardinality({r \in Rows : r[2] \in Tag})
    IN  count > 0 => count + 1 < Limit

HasAnyArtifactEntitlement == \E e \in Entitlement : entitlement[e] # Nil
GrantedTo(c) ==
    UNION {entitlement[e].grants : e \in {x \in Entitlement :
               entitlement[x] # Nil /\ entitlement[x].customer = c /\ ~entitlement[x].expired}}
Grants(c, r) == \E g \in GrantedTo(c) : g[1] = r[1] /\ g[2] \in {r[2], All}

(* The recursive queries: rows, and the rows that list what they hold.  A   *)
(* row is missing from no set that begins like this and is closed.          *)
ArtifactVersionAggregate(start) ==
    {r \in Rows : \A U \in SUBSET (Rows \ {r}) :
        start \subseteq U => \E q \in U, o \in Rows \ U : version[q] \in parts[o]}

(* The rows a reference means: every name of the manifest under it.         *)
Meant(a, n) ==
    {q \in Rows : q[1] = a /\ \E k \in Name : (k = n \/ version[q] = n) /\ version[<<a, k>>] = version[q]}

CheckEntitlementForArtifact_Fault(c, a, n) ==
    HasAnyArtifactEntitlement =>
        \E r \in ArtifactVersionAggregate(Meant(a, n)) :
            \E g \in GrantedTo(c) : g[1] = r[1]
CheckEntitlementForArtifact(c, a, n) ==
    HasAnyArtifactEntitlement =>
        \E r \in ArtifactVersionAggregate(Meant(a, n)) : Grants(c, r)
CheckEntitlementForArtifactBlob(c, b) ==
    HasAnyArtifactEntitlement =>
        \E r \in ArtifactVersionAggregate({q \in Rows : b \in parts[q]}) : Grants(c, r)

(* What a customer is shown: manifests that have a tag.                     *)
GetVersionsForArtifact(c, a) ==
    {m \in Manifest :
        /\ version[<<a, m>>] = m /\ \E t \in TagsOf(a) : version[<<a, t>>] = m
        /\ \/ ~HasAnyArtifactEntitlement
           \/ <<a, All>> \in GrantedTo(c)
           \/ \E r \in ArtifactVersionAggregate({q \in Rows : q[1] = a /\ version[q] = m}) :
                  r[1] = a /\ r \in GrantedTo(c)}

GetAllReferencedBlobDigests == {version[r] : r \in Rows} \cup UNION {parts[r] : r \in Rows}

-----------------------------------------------------------------------------
(* Uploads: chunks in order, then the object under its digest.              *)

StartSession(s) ==
    /\ upload[s] = Nil /\ upload' = [upload EXCEPT ![s] = 0]
    /\ UNCHANGED <<rows, entitlement, remote, store, tx, sweep, past>>

(* A chunk must start where the uploaded ones end; the first must be first. *)
PutChunk(s, start) ==
    /\ upload[s] # Nil /\ upload[s] = start /\ start < MaxChunks
    /\ upload' = [upload EXCEPT ![s] = start + 1]
    /\ UNCHANGED <<rows, entitlement, remote, store, tx, sweep, past>>

CompleteSession(s, b) ==
    /\ upload[s] # Nil /\ upload[s] > 0
    /\ upload' = [upload EXCEPT ![s] = Nil]
    /\ store' = [store EXCEPT ![b] = "fresh"]
    /\ UNCHANGED <<rows, entitlement, remote, tx, sweep, past>>

(* A clean-up compares with the time at which it began.                     *)
BlobAges(b) ==
    /\ sweep = Nil /\ store[b] = "fresh" /\ store' = [store EXCEPT ![b] = "old"]
    /\ UNCHANGED <<rows, entitlement, remote, upload, tx, sweep, past>>

-----------------------------------------------------------------------------
(* Pushing a manifest under a tag, and under its digest.                    *)

authorizeWrite(a) == artifact[a] \in {Nil, "pushed"}

(* A request that creates the artifact makes the others wait.               *)
GetOrCreateArtifact(a) ==
    artifact[a] = Nil => \A s \in Session : tx[s] # Nil => ~(tx[s].op = "put" /\ tx[s].a = a)

(* Clients put a manifest under a tag or under its own digest (the registry *)
(* does not compare); what it lists may be there or not.                    *)
PutRead(s, a, t, m) ==
    /\ tx[s] = Nil /\ authorizeWrite(a) /\ t \in Tag \cup {m} /\ GetOrCreateArtifact(a)
    /\ LET new == {n \in {m, t} : GetArtifactVersion(a, n) = Nil}
       IN  /\ new # {} => EnsureArtifactTagLimitForInsert
           /\ t \in Tag \ new => Mutable
           /\ tx' = [tx EXCEPT ![s] = [op |-> "put", a |-> a, t |-> t, m |-> m, new |-> new]]
    /\ UNCHANGED <<rows, entitlement, remote, blobs, past>>

(* Removing rows takes their parts and what entitlements say of them.       *)
Cascade(gone) ==
    entitlement' = [e \in Entitlement |->
        IF entitlement[e] = Nil THEN Nil
        ELSE [entitlement[e] EXCEPT !.grants = @ \ gone]]

(* A row somebody else has inserted meanwhile fails the transaction, and so *)
(* does one to be replaced that is gone.                                    *)
CreateArtifactVersion_Fault(s) ==
    LET q == tx[s]
        written == {q.a} \X (q.new \cup ({q.t} \cap Tag))
    IN  /\ tx[s] # Nil /\ q.op = "put"
        /\ artifact' = [artifact EXCEPT ![q.a] = IF @ = Nil THEN "pushed" ELSE @]
        /\ version' = [r \in Row |-> IF r \in written THEN q.m ELSE version[r]]
        /\ parts' = [r \in Row |-> IF r \in written THEN Content[q.m] ELSE parts[r]]
        /\ Cascade({r \in written : version[r] # Nil})
        /\ exposed' = exposed \cup {b \in Content[q.m] \cap Blob :
               store[b] = "absent" \/ (sweep # Nil /\ b \notin sweep.referenced /\ store[b] = "old")
                 \/ (sweep # Nil /\ b \in sweep.listed)}
        /\ tx' = [tx EXCEPT ![s] = Nil]
        /\ UNCHANGED <<remote, blobs, pulled>>
CreateArtifactVersion(s) ==
    LET q == tx[s]
        written == {q.a} \X (q.new \cup ({q.t} \cap Tag))
    IN  /\ tx[s] # Nil /\ q.op = "put"
        /\ \A n \in Name : <<q.a, n>> \in written => ((n \in q.new) <=> (version[<<q.a, n>>] = Nil))
        /\ artifact' = [artifact EXCEPT ![q.a] = IF @ = Nil THEN "pushed" ELSE @]
        /\ version' = [r \in Row |-> IF r \in written THEN q.m ELSE version[r]]
        /\ parts' = [r \in Row |-> IF r \in written THEN Content[q.m] ELSE parts[r]]
        /\ Cascade({r \in written : version[r] # Nil})
        /\ exposed' = exposed \cup {b \in Content[q.m] \cap Blob :
               store[b] = "absent" \/ (sweep # Nil /\ b \notin sweep.referenced /\ store[b] = "old")
                 \/ (sweep # Nil /\ b \in sweep.listed)}
        /\ tx' = [tx EXCEPT ![s] = Nil]
        /\ UNCHANGED <<remote, blobs, pulled>>

(* A request ends without writing: an error, a conflict, a lost connection. *)
GiveUp(s) ==
    /\ tx[s] # Nil /\ tx' = [tx EXCEPT ![s] = Nil]
    /\ UNCHANGED <<rows, entitlement, remote, blobs, past>>

-----------------------------------------------------------------------------
(* Deleting tags and artifacts.                                             *)

checkAllVersionsEntitlement(a) ==
    \A e \in Entitlement : entitlement[e] # Nil => <<a, All>> \notin entitlement[e].grants

CheckArtifactVersionDeletionForEntitlements(a, t) ==
    LET m == version[<<a, t>>]
        shaGranted == version[<<a, m>>] # Nil
                        /\ \E e \in Entitlement : entitlement[e] # Nil /\ <<a, m>> \in entitlement[e].grants
    IN  /\ shaGranted => \E n \in GetArtifactVersionsByDigest(a, m) : n \in Tag \ {t}
        /\ checkAllVersionsEntitlement(a)

DeleteTagRead(s, a, t) ==
    /\ tx[s] = Nil /\ GetArtifactByName(a) /\ version[<<a, t>>] # Nil
    /\ CheckArtifactVersionDeletionForEntitlements(a, t) /\ ~IsLastTagOfArtifact(a)
    /\ tx' = [tx EXCEPT ![s] = [op |-> "untag", a |-> a, t |-> t]]
    /\ UNCHANGED <<rows, entitlement, remote, blobs, past>>

DeleteArtifactVersion(s) ==
    LET r == <<tx[s].a, tx[s].t>>
    IN  /\ tx[s] # Nil /\ tx[s].op = "untag" /\ version[r] # Nil
        /\ version' = [version EXCEPT ![r] = Nil] /\ parts' = [parts EXCEPT ![r] = {}]
        /\ Cascade({r}) /\ tx' = [tx EXCEPT ![s] = Nil]
        /\ UNCHANGED <<artifact, remote, blobs, past>>

ArtifactIsReferencedInEntitlements(a) ==
    \E e \in Entitlement : entitlement[e] # Nil /\ \E g \in entitlement[e].grants : g[1] = a

DeleteArtifactRead(s, a) ==
    /\ tx[s] = Nil /\ GetArtifactByName(a) /\ ~ArtifactIsReferencedInEntitlements(a)
    /\ tx' = [tx EXCEPT ![s] = [op |-> "delete", a |-> a]]
    /\ UNCHANGED <<rows, entitlement, remote, blobs, past>>

(* Requests under way that write to an artifact fail when it is deleted.    *)
Writing(s, a) == tx[s] # Nil /\ tx[s].op \in {"put", "sync"} /\ tx[s].a = a

DeleteArtifactWithID(s) ==
    LET a == tx[s].a
    IN  /\ tx[s] # Nil /\ tx[s].op = "delete" /\ artifact[a] # Nil
        /\ artifact' = [artifact EXCEPT ![a] = Nil]
        /\ version' = [r \in Row |-> IF r[1] = a THEN Nil ELSE version[r]]
        /\ parts' = [r \in Row |-> IF r[1] = a THEN {} ELSE parts[r]]
        /\ Cascade({a} \X (Name \cup {All}))
        /\ tx' = [o \in Session |-> IF o = s \/ Writing(o, a) THEN Nil ELSE tx[o]]
        /\ UNCHANGED <<remote, blobs, past>>

-----------------------------------------------------------------------------
(* Entitlements: all versions of an artifact, or one.                       *)

addArtifacts(grants) ==
    \A g \in grants : artifact[g[1]] # Nil /\ (g[2] # All => version[g] # Nil)

CreateArtifactEntitlement(e, c, grants) ==
    /\ entitlement[e] = Nil /\ addArtifacts(grants)
    /\ entitlement' = [entitlement EXCEPT ![e] = [customer |-> c, grants |-> grants, expired |-> FALSE]]
    /\ UNCHANGED <<rows, remote, blobs, tx, past>>

UpdateArtifactEntitlement(e, c, grants, expired) ==
    /\ entitlement[e] # Nil /\ addArtifacts(grants)
    /\ entitlement' = [entitlement EXCEPT ![e] = [customer |-> c, grants |-> grants, expired |-> expired]]
    /\ UNCHANGED <<rows, remote, blobs, tx, past>>

EntitlementExpires(e) ==
    /\ entitlement[e] # Nil /\ ~entitlement[e].expired
    /\ entitlement' = [entitlement EXCEPT ![e].expired = TRUE]
    /\ UNCHANGED <<rows, remote, blobs, tx, past>>

DeleteArtifactEntitlementWithID(e) ==
    /\ entitlement[e] # Nil /\ entitlement' = [entitlement EXCEPT ![e] = Nil]
    /\ UNCHANGED <<rows, remote, blobs, tx, past>>

-----------------------------------------------------------------------------
(* Pulls of a customer: the check, then the read.                           *)

(* What a grant covers, read downwards: a row, and what it lists.           *)
Below(r) ==
    LET closed == {D \in SUBSET (Manifest \cup Blob) :
                      /\ version[r] \in D /\ parts[r] \subseteq D
                      /\ \A q \in Rows : version[q] \in D => parts[q] \subseteq D}
    IN  {x \in Manifest \cup Blob : \A D \in closed : x \in D}
Covered(c, x) ==
    HasAnyArtifactEntitlement =>
        \E r \in Rows : Grants(c, r) /\ x \in Below(r)

AuthorizeReference(s, c, a, n) ==
    /\ tx[s] = Nil /\ CheckEntitlementForArtifact(c, a, n)
    /\ tx' = [tx EXCEPT ![s] = [op |-> "pull", c |-> c, a |-> a, n |-> n,
                                covered |-> {m \in Manifest : Covered(c, m)}]]
    /\ UNCHANGED <<rows, entitlement, remote, blobs, past>>

handleGet(s) ==
    LET q == tx[s]
        m == GetArtifactVersion(q.a, q.n)
    IN  /\ tx[s] # Nil /\ q.op = "pull" /\ m # Nil
        /\ pulled' = pulled \cup {[x |-> q.n, granted |-> m \in q.covered]}
        /\ tx' = [tx EXCEPT ![s] = Nil]
        /\ UNCHANGED <<rows, entitlement, remote, blobs, exposed>>

(* A blob that is not in the store is fetched from the artifact's upstream  *)
(* registry, and stored.                                                    *)
FetchAndStoreBlob(a, b) == artifact[a] \notin {Nil, "pushed"}

GetBlob(c, a, b) ==
    /\ CheckEntitlementForArtifactBlob(c, b)
    /\ \/ store[b] # "absent" /\ UNCHANGED store
       \/ store[b] = "absent" /\ FetchAndStoreBlob(a, b) /\ store' = [store EXCEPT ![b] = "fresh"]
    /\ pulled' = pulled \cup {[x |-> b, granted |-> Covered(c, b)]}
    /\ UNCHANGED <<rows, entitlement, remote, upload, tx, sweep, exposed>>

-----------------------------------------------------------------------------
(* Pull-through artifacts.                                                  *)

CreateArtifact(a) ==
    /\ a \in PullThrough /\ artifact[a] = Nil
    /\ artifact' = [artifact EXCEPT ![a] = "never"]
    /\ UNCHANGED <<version, parts, entitlement, remote, blobs, tx, past>>

UpstreamMoves(t, m) ==
    /\ remote' = [remote EXCEPT ![t] = m]
    /\ UNCHANGED <<rows, entitlement, blobs, tx, past>>

(* The job skips tags that exist, a sync on request does not.  Rows are     *)
(* written one by one, each in a transaction of its own.                    *)
SyncTag(s, a, t, skipExistingTags) ==
    /\ tx[s] = Nil /\ artifact[a] \notin {Nil, "pushed"}
    /\ skipExistingTags => version[<<a, t>>] = Nil
    /\ tx' = [tx EXCEPT ![s] = [op |-> "sync", a |-> a, t |-> t, m |-> remote[t],
                                todo |-> {<<t, remote[t]>>}]]
    /\ UNCHANGED <<rows, entitlement, remote, blobs, past>>

(* The tag, then the digest, then the parts of both, then the manifests     *)
(* that an index lists.                                                     *)
AfterRow(q, row) ==
    CASE row = <<q.t, q.m>> -> {<<q.m, q.m>>}
      [] row = <<q.m, q.m>> -> {<<"parts", q.m>>}
      [] OTHER -> q.todo \ {row}
UpsertArtifactVersionForSync(s) ==
    /\ tx[s] # Nil /\ tx[s].op = "sync" /\ artifact[tx[s].a] # Nil
    /\ \E row \in tx[s].todo :
          LET q == tx[s]
              r == <<q.a, row[1]>>
          IN  /\ row[1] # "parts"
              /\ version' = [version EXCEPT ![r] = row[2]]
              /\ parts' = IF row[1] \in {q.t, q.m} THEN parts
                          ELSE [parts EXCEPT ![r] = @ \cup Content[row[2]]]
              /\ tx' = [tx EXCEPT ![s].todo = AfterRow(q, row)]
    /\ UNCHANGED <<artifact, entitlement, remote, blobs, past>>

BulkUpsertArtifactVersionParts(s) ==
    LET q == tx[s]
    IN  /\ tx[s] # Nil /\ q.op = "sync" /\ <<"parts", q.m>> \in q.todo
        /\ version[<<q.a, q.t>>] # Nil /\ version[<<q.a, q.m>>] # Nil
        /\ parts' = [parts EXCEPT ![<<q.a, q.t>>] = @ \cup Content[q.m],
                                  ![<<q.a, q.m>>] = @ \cup Content[q.m]]
        /\ tx' = [tx EXCEPT ![s].todo = {<<b, b>> : b \in Content[q.m] \cap Manifest}]
        /\ UNCHANGED <<artifact, version, entitlement, remote, blobs, past>>

UpdateArtifactSyncStatus(s) ==
    /\ tx[s] # Nil /\ tx[s].op = "sync"
    /\ artifact' = [artifact EXCEPT ![tx[s].a] =
           IF @ = Nil THEN Nil ELSE IF tx[s].todo = {} THEN "synced" ELSE "failed"]
    /\ tx' = [tx EXCEPT ![s] = Nil]
    /\ UNCHANGED <<version, parts, entitlement, remote, blobs, past>>

-----------------------------------------------------------------------------
(* The clean-up: references, then a listing, then the deletions.            *)

RunArtifactBlobCleanup ==
    /\ sweep = Nil
    /\ sweep' = [referenced |-> GetAllReferencedBlobDigests, listed |-> {}]
    /\ UNCHANGED <<rows, entitlement, remote, store, upload, tx, past>>

ListObjects(b) ==
    /\ sweep # Nil /\ store[b] = "old" /\ b \notin sweep.referenced
    /\ sweep' = [sweep EXCEPT !.listed = @ \cup {b}]
    /\ UNCHANGED <<rows, entitlement, remote, store, upload, tx, past>>

(* Batches are deleted on the way, and single deletions may fail.           *)
flushDelete ==
    /\ sweep # Nil
    /\ \E gone \in SUBSET sweep.listed :
          store' = [b \in Blob |-> IF b \in gone THEN "absent" ELSE store[b]]
    /\ sweep' \in {Nil, [sweep EXCEPT !.listed = {}]}
    /\ UNCHANGED <<rows, entitlement, remote, upload, tx, past>>

-----------------------------------------------------------------------------
Push ==
    \E s \in Session :
        \/ StartSession(s)
        \/ \E n \in 0..MaxChunks : PutChunk(s, n)
        \/ \E b \in Blob : CompleteSession(s, b)
        \/ \E a \in Artifact, m \in Manifest, t \in Name : PutRead(s, a, t, m)
        \/ CreateArtifactVersion(s) \/ GiveUp(s)

Removal ==
    \E s \in Session :
        \/ \E a \in Artifact, t \in Tag : DeleteTagRead(s, a, t)
        \/ \E a \in Artifact : DeleteArtifactRead(s, a)
        \/ DeleteArtifactVersion(s) \/ DeleteArtifactWithID(s)

Entitling ==
    \E e \in Entitlement :
        \/ \E c \in Customer, g \in Artifact \X (Name \cup {All}) :
              \/ CreateArtifactEntitlement(e, c, {g})
              \/ \E expired \in BOOLEAN : UpdateArtifactEntitlement(e, c, {g}, expired)
        \/ EntitlementExpires(e) \/ DeleteArtifactEntitlementWithID(e)

Pull ==
    \/ \E s \in Session :
          \/ \E c \in Customer, a \in Artifact, n \in Name : AuthorizeReference(s, c, a, n)
          \/ handleGet(s)
    \/ \E c \in Customer, a \in Artifact, b \in Blob : GetBlob(c, a, b)

Sync ==
    \/ \E a \in Artifact : CreateArtifact(a)
    \/ \E t \in Tag, m \in Manifest : UpstreamMoves(t, m)
    \/ \E s \in Session :
          \/ \E a \in Artifact, t \in Tag, skip \in BOOLEAN : SyncTag(s, a, t, skip)
          \/ UpsertArtifactVersionForSync(s) \/ BulkUpsertArtifactVersionParts(s)
          \/ UpdateArtifactSyncStatus(s)

CleanUp ==
    RunArtifactBlobCleanup \/ (\E b \in Blob : ListObjects(b) \/ BlobAges(b)) \/ flushDelete

Next == Push \/ Removal \/ Entitling \/ Pull \/ Sync \/ CleanUp

Spec == Init /\ [][Next]_vars

-----------------------------------------------------------------------------
(* Properties.                                                              *)

Pushed(r) == version[r] # Nil /\ artifact[r[1]] = "pushed"

(***************************************************************************)
(* Pushes of one tag race, tags are deleted and pushed again: a tag that    *)
(* was pushed always comes with the row of its digest, and both list what   *)
(* the manifest consists of, so that it can be pulled either way.           *)
(***************************************************************************)
PushedIsComplete ==
    \A a \in Artifact, t \in Tag : Pushed(<<a, t>>) =>
        LET m == version[<<a, t>>]
        IN  version[<<a, m>>] = m /\ parts[<<a, t>>] = Content[m] /\ parts[<<a, m>>] = Content[m]

(***************************************************************************)
(* The number of tags passes the limit only by pushes that checked it       *)
(* together.  (The check stops one short of the limit, but lets a first     *)
(* tag in.)                                                                 *)
(***************************************************************************)
TagLimitHolds ==
    Cardinality({r \in Rows : r[2] \in Tag /\ artifact[r[1]] = "pushed"})
        <= (IF Limit > 2 THEN Limit - 1 ELSE 1) + Cardinality(Session) - 1

(***************************************************************************)
(* A blob that a pushed version lists is missing only if the clean-up had   *)
(* already given up on it, as old and unreferenced, when it was pushed:     *)
(* what a client has just uploaded is safe.                                 *)
(***************************************************************************)
BlobsKept ==
    \A r \in Rows : artifact[r[1]] = "pushed" =>
        \A b \in parts[r] \cap Blob : store[b] = "absent" => b \in exposed

(***************************************************************************)
(* Customers get by digest only what an unexpired entitlement covered when  *)
(* the request was checked, whatever happens between the check and the      *)
(* read; and what they are shown they may pull.                             *)
(***************************************************************************)
PulledWasGranted == \A p \in pulled : p.x \notin Tag => p.granted
ShownIsPullable ==
    \A c \in Customer, a \in Artifact : \A m \in GetVersionsForArtifact(c, a) :
        CheckEntitlementForArtifact(c, a, m)

RegistrySafe ==
    PushedIsComplete /\ TagLimitHolds /\ BlobsKept /\ PulledWasGranted /\ ShownIsPullable

(***************************************************************************)
(* Unless the organization has made tags mutable, a tag that was pushed     *)
(* never names another manifest from one step to the next: pushes that race *)
(* for it cannot both win.                                                  *)
(***************************************************************************)
PushedTagKept ==
    \A a \in Artifact, t \in Tag :
        LET r == <<a, t>>
        IN  (Pushed(r) /\ version'[r] # Nil /\ ~Mutable) => version'[r] = version[r]
TagsStay == [][PushedTagKept]_vars
=============================================================================
