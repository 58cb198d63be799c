-------------------------- MODULE Registry_proofs --------------------------
(***************************************************************************)
(* Why the registry keeps its promises, for any number of clients, tags,    *)
(* manifests, blobs and entitlements.                                       *)
(*                                                                          *)
(* A request reads in one step and writes in a later one.  What makes that  *)
(* sound is that a row under a digest is never changed and goes only with   *)
(* its artifact, and that the deletion of an artifact ends the requests     *)
(* that write to it: what a push has seen of the digest still holds when    *)
(* it writes.  What makes the check of a customer sound is that a reference *)
(* by digest names one manifest for ever.  The limit on tags is overrun     *)
(* only by the pushes that have read the count and not yet written, so they *)
(* are counted with the tags.                                               *)
(***************************************************************************)
EXTENDS Registry, FiniteSetTheorems, TLAPS

(* What the constants must be: names of tags are no digests, a manifest     *)
(* lists manifests and blobs, and there are finitely many rows of tags and  *)
(* clients.                                                                 *)
RegistryAssumption ==
    /\ Tag \cap Manifest = {}
    /\ Nil \notin Manifest \cup {"pushed", "never", "synced", "failed"}
    /\ PullThrough \subseteq Artifact
    /\ Content \in [Manifest -> SUBSET (Manifest \cup Blob)]
    /\ IsFiniteSet(Artifact) /\ IsFiniteSet(Tag) /\ IsFiniteSet(Session)
    /\ Limit \in Nat

-----------------------------------------------------------------------------
(* The inductive invariant.                                                 *)

RowsOK ==
    /\ artifact \in [Artifact -> {Nil, "pushed", "never", "synced", "failed"}]
    /\ version \in [Row -> Manifest \cup {Nil}]
    /\ parts \in [Row -> SUBSET (Manifest \cup Blob)]
    /\ remote \in [Tag -> Manifest \cup {Nil}]
    /\ store \in [Blob -> {"absent", "fresh", "old"}]

(* Artifacts that are synced have an upstream registry.                     *)
UpstreamKnown ==
    /\ \A a \in Artifact : artifact[a] \notin {Nil, "pushed"} => a \in PullThrough
    /\ PullThrough # {} => \A t \in Tag : remote[t] \in Manifest

RowsHaveArtifact ==
    \A a \in Artifact, n \in Name : version[<<a, n>>] # Nil => artifact[a] # Nil

DigestNamesItself ==
    \A a \in Artifact, m \in Manifest : version[<<a, m>>] \in {Nil, m}

PushedRowsComplete ==
    \A a \in Artifact, n \in Name :
        artifact[a] = "pushed" /\ version[<<a, n>>] # Nil =>
            /\ parts[<<a, n>>] = Content[version[<<a, n>>]]
            /\ version[<<a, version[<<a, n>>]>>] = version[<<a, n>>]

(* What a request has read and means to write,                              *)
Putting(q) ==
    /\ q \in [op : {"put"}, a : Artifact, t : Name, m : Manifest, new : SUBSET Name]
    /\ q.t \in Tag \cup {q.m} /\ q.new \subseteq {q.m, q.t}
    /\ q.t \in Tag \ q.new => Mutable
Untagging(q) == q \in [op : {"untag"}, a : Artifact, t : Tag]
Deleting(q) == q \in [op : {"delete"}, a : Artifact]
Pulling(q) ==
    /\ q \in [op : {"pull"}, c : Customer, a : Artifact, n : Name, covered : SUBSET Manifest]
    /\ q.n \in Manifest => q.n \in q.covered
SyncRows(q) == {<<q.t, q.m>>, <<"parts", q.m>>} \cup {<<b, b>> : b \in Manifest}
Syncing(q) ==
    /\ q \in [op : {"sync"}, a : Artifact, t : Tag, m : Manifest,
              todo : SUBSET ((Name \cup {"parts"}) \X Manifest)]
    /\ q.todo \subseteq SyncRows(q)
Request(q) == Putting(q) \/ Untagging(q) \/ Deleting(q) \/ Pulling(q) \/ Syncing(q)
RequestsOK ==
    /\ tx = [s \in Session |-> tx[s]]
    /\ \A s \in Session : tx[s] = Nil \/ Request(tx[s])

(* as far as it still holds when it writes.                                 *)
PutsHold ==
    \A s \in Session : tx[s] # Nil /\ tx[s].op = "put" /\ tx[s].m \notin tx[s].new =>
        artifact[tx[s].a] = "pushed" /\ version[<<tx[s].a, tx[s].m>>] = tx[s].m
SyncsHold ==
    \A s \in Session : tx[s] # Nil /\ tx[s].op = "sync" => artifact[tx[s].a] \notin {Nil, "pushed"}

TablesWhole == RowsOK /\ UpstreamKnown /\ RowsHaveArtifact /\ DigestNamesItself /\ PushedRowsComplete
Whole == TablesWhole /\ RequestsOK /\ PutsHold /\ SyncsHold

(* A blob that a pushed version lists is there, and the clean-up has not    *)
(* given it up, unless it had when the version was pushed.                  *)
SweepOK == sweep # Nil => sweep = [referenced |-> sweep.referenced, listed |-> sweep.listed]
Spared(b) ==
    /\ store[b] # "absent"
    /\ sweep # Nil => (b \in sweep.referenced \/ store[b] # "old") /\ b \notin sweep.listed
BlobsSpared ==
    \A a \in Artifact, n \in Name :
        artifact[a] = "pushed" /\ version[<<a, n>>] # Nil =>
            \A b \in (parts[<<a, n>>] \cap Blob) \ exposed : Spared(b)

(* Tags there are, and tags that a push has counted but not yet written.    *)
PushedTags == {r \in Artifact \X Tag : version[r] # Nil /\ artifact[r[1]] = "pushed"}
Coming == {s \in Session : tx[s] # Nil /\ tx[s].op = "put" /\ tx[s].t \in Tag \cap tx[s].new}
Bound == (IF Limit > 2 THEN Limit - 1 ELSE 1) + Cardinality(Session) - 1
TagsCounted == Cardinality(PushedTags) + Cardinality(Coming) <= Bound

RegistryInv == Whole /\ SweepOK /\ BlobsSpared /\ TagsCounted /\ PulledWasGranted

-----------------------------------------------------------------------------
(* What requests read and write keeps the tables whole.                     *)

(* The tables are whole to begin with: there is nothing in them.            *)
LEMMA WholeInit == ASSUME RegistryAssumption, Init PROVE Whole
<1> USE DEF RegistryAssumption, Init, Row, Name
<1>1. RowsOK
    BY DEF RowsOK
<1>2. UpstreamKnown
    BY DEF UpstreamKnown
<1>3. RowsHaveArtifact /\ DigestNamesItself
    BY DEF RowsHaveArtifact, DigestNamesItself
<1>4. PushedRowsComplete
    BY DEF PushedRowsComplete
<1>5. RequestsOK /\ PutsHold /\ SyncsHold
    BY DEF RequestsOK, PutsHold, SyncsHold
<1> QED BY <1>1, <1>2, <1>3, <1>4, <1>5 DEF Whole, TablesWhole

(* Steps that leave the tables alone.                                       *)
LEMMA TablesQuiet ==
    ASSUME TablesWhole, UNCHANGED <<artifact, version, parts, remote>>,
           store' \in [Blob -> {"absent", "fresh", "old"}]
    PROVE  TablesWhole'
BY DEF TablesWhole, RowsOK, UpstreamKnown, RowsHaveArtifact, DigestNamesItself, PushedRowsComplete

LEMMA WholeQuiet ==
    ASSUME Whole, UNCHANGED <<rows, remote, tx>>, store' \in [Blob -> {"absent", "fresh", "old"}]
    PROVE  Whole'
<1>1. TablesWhole'
    BY TablesQuiet DEF Whole, rows
<1> QED BY <1>1 DEF Whole, rows, RequestsOK, PutsHold, SyncsHold

(* A request begins, with what it has read, or ends without writing.        *)
LEMMA WholeRequest ==
    ASSUME Whole, UNCHANGED <<rows, remote, store>>, NEW s \in Session, NEW q,
           tx' = [tx EXCEPT ![s] = q], q = Nil \/ Request(q),
           q # Nil /\ q.op = "put" /\ q.m \notin q.new =>
               artifact[q.a] = "pushed" /\ version[<<q.a, q.m>>] = q.m,
           q # Nil /\ q.op = "sync" => artifact[q.a] \notin {Nil, "pushed"}
    PROVE  Whole'
<1>1. TablesWhole'
    BY TablesQuiet DEF Whole, rows, TablesWhole, RowsOK
<1>2. tx' = [o \in Session |-> IF o = s THEN q ELSE tx[o]]
    BY DEF Whole, RequestsOK
<1>3. RequestsOK'
    BY <1>2 DEF Whole, RequestsOK
<1>4. PutsHold'
    BY <1>2 DEF Whole, rows, PutsHold
<1>5. SyncsHold'
    BY <1>2 DEF Whole, rows, SyncsHold
<1> QED BY <1>1, <1>3, <1>4, <1>5 DEF Whole

(* What is pushed: the rows of a digest that is there are not written, and  *)
(* those that are written name the manifest that was pushed.                *)
LEMMA WholePut ==
    ASSUME RegistryAssumption, Whole, NEW s \in Session, CreateArtifactVersion(s)
    PROVE  Whole'
<1> DEFINE q == tx[s]
           written == {q.a} \X (q.new \cup ({q.t} \cap Tag))
<1>1. Putting(q) /\ tx[s] # Nil
    BY DEF CreateArtifactVersion, Whole, RequestsOK, Request, Putting, Untagging, Deleting, Pulling, Syncing
<1>2. /\ q.a \in Artifact /\ q.m \in Manifest /\ q.new \subseteq {q.m, q.t} /\ q.t \in Tag \cup {q.m}
      /\ q.new \subseteq Name
    BY <1>1 DEF Putting
<1>3. /\ artifact' = [artifact EXCEPT ![q.a] = IF @ = Nil THEN "pushed" ELSE @]
      /\ version' = [r \in Row |-> IF r \in written THEN q.m ELSE version[r]]
      /\ parts' = [r \in Row |-> IF r \in written THEN Content[q.m] ELSE parts[r]]
      /\ tx' = [tx EXCEPT ![s] = Nil]
      /\ remote' = remote /\ store' = store
    BY DEF CreateArtifactVersion, blobs
<1>4. tx[s].op = "put"
    BY DEF CreateArtifactVersion
<1>5. q.m \notin q.new => artifact[q.a] = "pushed" /\ version[<<q.a, q.m>>] = q.m
    BY <1>1, <1>4 DEF Whole, PutsHold
<1>6. \A a \in Artifact, n \in Name : <<a, n>> \in written <=> a = q.a /\ n \in q.new \cup ({q.t} \cap Tag)
    OBVIOUS
<1>7. \A m \in Manifest : <<q.a, m>> \in written => m = q.m
    BY <1>2 DEF RegistryAssumption, Name
<1>8. q.m \in Name /\ <<q.a, q.m>> \in Row
    BY <1>2 DEF Row, Name
<1>9. version'[<<q.a, q.m>>] = q.m
    BY <1>2, <1>3, <1>5, <1>6, <1>8
<1> HIDE DEF q, written
<1>10. \A a \in Artifact, n \in Name :
           /\ version'[<<a, n>>] = IF <<a, n>> \in written THEN q.m ELSE version[<<a, n>>]
           /\ parts'[<<a, n>>] = IF <<a, n>> \in written THEN Content[q.m] ELSE parts[<<a, n>>]
    BY <1>3 DEF Row
<1>11. \A a \in Artifact : artifact'[a] = IF a = q.a /\ artifact[a] = Nil THEN "pushed" ELSE artifact[a]
    BY <1>3 DEF Whole, TablesWhole, RowsOK
<1>12. RowsOK'
    <2>1. Content[q.m] \in SUBSET (Manifest \cup Blob)
        BY <1>2 DEF RegistryAssumption
    <2>2. version' \in [Row -> Manifest \cup {Nil}] /\ parts' \in [Row -> SUBSET (Manifest \cup Blob)]
        BY <1>2, <1>3, <2>1 DEF Whole, TablesWhole, RowsOK
    <2>3. artifact' \in [Artifact -> {Nil, "pushed", "never", "synced", "failed"}]
        BY <1>2, <1>3 DEF Whole, TablesWhole, RowsOK
    <2> QED BY <1>3, <2>2, <2>3 DEF Whole, TablesWhole, RowsOK
<1>13. UpstreamKnown'
    BY <1>3, <1>11 DEF Whole, TablesWhole, UpstreamKnown
<1>14. RowsHaveArtifact'
    BY <1>6, <1>10, <1>11 DEF Whole, TablesWhole, RowsHaveArtifact, RegistryAssumption
<1>15. DigestNamesItself'
    <2> SUFFICES ASSUME NEW a \in Artifact, NEW m \in Manifest PROVE version'[<<a, m>>] \in {Nil, m}
        BY DEF DigestNamesItself
    <2>1. m \in Name
        BY DEF Name
    <2>2. CASE <<a, m>> \in written
        BY <1>6, <1>7, <1>10, <2>1, <2>2
    <2>3. CASE <<a, m>> \notin written
        BY <1>10, <2>1, <2>3 DEF Whole, TablesWhole, DigestNamesItself
    <2> QED BY <2>2, <2>3
<1>16. PushedRowsComplete'
    <2> SUFFICES ASSUME NEW a \in Artifact, NEW n \in Name, artifact'[a] = "pushed", version'[<<a, n>>] # Nil
                 PROVE  /\ parts'[<<a, n>>] = Content[version'[<<a, n>>]]
                        /\ version'[<<a, version'[<<a, n>>]>>] = version'[<<a, n>>]
        BY DEF PushedRowsComplete
    <2>1. CASE <<a, n>> \in written
        BY <1>6, <1>9, <1>10, <2>1
    <2>2. CASE <<a, n>> \notin written
        <3> DEFINE m == version[<<a, n>>]
        <3>1. version'[<<a, n>>] = m /\ parts'[<<a, n>>] = parts[<<a, n>>] /\ m # Nil
            BY <1>10, <2>2
        <3>2. artifact[a] = "pushed"
            BY <1>11, <3>1 DEF Whole, TablesWhole, RowsHaveArtifact
        <3>3. parts[<<a, n>>] = Content[m] /\ version[<<a, m>>] = m
            BY <3>1, <3>2 DEF Whole, TablesWhole, PushedRowsComplete
        <3>4. m \in Manifest /\ m \in Name
            BY <3>1 DEF Whole, TablesWhole, RowsOK, Row, Name
        <3>5. <<a, m>> \in written => m = q.m
            BY <1>6, <1>7, <3>4
        <3> HIDE DEF m
        <3>6. version'[<<a, m>>] = m
            BY <1>10, <3>3, <3>4, <3>5
        <3> QED BY <3>1, <3>3, <3>6
    <2> QED BY <2>1, <2>2
<1>17. tx' = [o \in Session |-> IF o = s THEN Nil ELSE tx[o]]
    BY <1>3 DEF Whole, RequestsOK
<1>18. RequestsOK'
    BY <1>17 DEF Whole, RequestsOK
<1>19. PutsHold'
    <2> SUFFICES ASSUME NEW o \in Session, tx'[o] # Nil, tx'[o].op = "put", tx'[o].m \notin tx'[o].new
                 PROVE  artifact'[tx'[o].a] = "pushed" /\ version'[<<tx'[o].a, tx'[o].m>>] = tx'[o].m
        BY DEF PutsHold
    <2>1. tx'[o] = tx[o]
        BY <1>17
    <2>2. Putting(tx[o])
        BY <2>1 DEF Whole, RequestsOK, Request, Putting, Untagging, Deleting, Pulling, Syncing
    <2>3. tx[o].a \in Artifact /\ tx[o].m \in Manifest /\ tx[o].m \in Name
        BY <2>2 DEF Putting, Name
    <2>4. artifact[tx[o].a] = "pushed" /\ version[<<tx[o].a, tx[o].m>>] = tx[o].m
        BY <2>1 DEF Whole, PutsHold
    <2>5. <<tx[o].a, tx[o].m>> \in written => tx[o].m = q.m
        BY <1>6, <1>7, <2>3
    <2> QED BY <1>10, <1>11, <2>1, <2>3, <2>4, <2>5
<1>20. SyncsHold'
    <2> SUFFICES ASSUME NEW o \in Session, tx'[o] # Nil, tx'[o].op = "sync"
                 PROVE  artifact'[tx'[o].a] \notin {Nil, "pushed"}
        BY DEF SyncsHold
    <2>1. tx'[o] = tx[o]
        BY <1>17
    <2>2. tx[o].a \in Artifact
        BY <2>1 DEF Whole, RequestsOK, Request, Putting, Untagging, Deleting, Pulling, Syncing
    <2> QED BY <1>11, <2>1, <2>2 DEF Whole, SyncsHold
<1> QED BY <1>12, <1>13, <1>14, <1>15, <1>16, <1>18, <1>19, <1>20 DEF Whole, TablesWhole

(* What a request of each kind is.                                          *)
LEMMA RequestKinds ==
    ASSUME RequestsOK, NEW s \in Session, tx[s] # Nil
    PROVE  /\ tx[s].op = "put" => Putting(tx[s])
           /\ tx[s].op = "untag" => Untagging(tx[s])
           /\ tx[s].op = "delete" => Deleting(tx[s])
           /\ tx[s].op = "pull" => Pulling(tx[s])
           /\ tx[s].op = "sync" => Syncing(tx[s])
BY DEF RequestsOK, Request, Putting, Untagging, Deleting, Pulling, Syncing

(* A tag goes: no digest that a push has seen, and no row of one.           *)
LEMMA WholeUntag ==
    ASSUME RegistryAssumption, Whole, NEW s \in Session, DeleteArtifactVersion(s)
    PROVE  Whole'
<1> DEFINE q == tx[s]
<1>1. q.a \in Artifact /\ q.t \in Tag
    BY RequestKinds DEF DeleteArtifactVersion, Whole, Untagging
<1>2. /\ version' = [version EXCEPT ![<<q.a, q.t>>] = Nil] /\ parts' = [parts EXCEPT ![<<q.a, q.t>>] = {}]
      /\ tx' = [tx EXCEPT ![s] = Nil]
      /\ artifact' = artifact /\ remote' = remote /\ store' = store
    BY DEF DeleteArtifactVersion, blobs
<1> HIDE DEF q
<1>3. \A a \in Artifact, n \in Name :
          /\ version'[<<a, n>>] = IF a = q.a /\ n = q.t THEN Nil ELSE version[<<a, n>>]
          /\ parts'[<<a, n>>] = IF a = q.a /\ n = q.t THEN {} ELSE parts[<<a, n>>]
    BY <1>2 DEF Whole, TablesWhole, RowsOK, Row
<1>4. \A m \in Manifest : m \in Name /\ m # q.t
    BY <1>1 DEF Name, RegistryAssumption
<1>5. RowsOK'
    BY <1>2 DEF Whole, TablesWhole, RowsOK
<1>6. UpstreamKnown' /\ RowsHaveArtifact' /\ DigestNamesItself'
    BY <1>2, <1>3, <1>4 DEF Whole, TablesWhole, UpstreamKnown, RowsHaveArtifact, DigestNamesItself
<1>7. PushedRowsComplete'
    <2> SUFFICES ASSUME NEW a \in Artifact, NEW n \in Name, artifact'[a] = "pushed", version'[<<a, n>>] # Nil
                 PROVE  /\ parts'[<<a, n>>] = Content[version'[<<a, n>>]]
                        /\ version'[<<a, version'[<<a, n>>]>>] = version'[<<a, n>>]
        BY DEF PushedRowsComplete
    <2>1. version'[<<a, n>>] = version[<<a, n>>] /\ parts'[<<a, n>>] = parts[<<a, n>>] /\ version[<<a, n>>] # Nil
        BY <1>3
    <2>2. version[<<a, n>>] \in Manifest
        BY <2>1 DEF Whole, TablesWhole, RowsOK, Row
    <2>3. parts[<<a, n>>] = Content[version[<<a, n>>]] /\ version[<<a, version[<<a, n>>]>>] = version[<<a, n>>]
        BY <1>2, <2>1 DEF Whole, TablesWhole, PushedRowsComplete
    <2>4. version'[<<a, version[<<a, n>>]>>] = version[<<a, version[<<a, n>>]>>]
        BY <1>3, <1>4, <2>2
    <2> QED BY <2>1, <2>3, <2>4
<1>8. tx' = [o \in Session |-> IF o = s THEN Nil ELSE tx[o]]
    BY <1>2 DEF Whole, RequestsOK
<1>9. RequestsOK' /\ SyncsHold'
    BY <1>2, <1>8 DEF Whole, RequestsOK, SyncsHold
<1>10. PutsHold'
    <2> SUFFICES ASSUME NEW o \in Session, tx'[o] # Nil, tx'[o].op = "put", tx'[o].m \notin tx'[o].new
                 PROVE  artifact'[tx'[o].a] = "pushed" /\ version'[<<tx'[o].a, tx'[o].m>>] = tx'[o].m
        BY DEF PutsHold
    <2>1. tx'[o] = tx[o]
        BY <1>8
    <2>2. tx[o].a \in Artifact /\ tx[o].m \in Manifest
        BY <2>1, RequestKinds DEF Whole, Putting
    <2>3. version'[<<tx[o].a, tx[o].m>>] = version[<<tx[o].a, tx[o].m>>]
        BY <1>3, <1>4, <2>2
    <2> QED BY <1>2, <2>1, <2>3 DEF Whole, PutsHold
<1> QED BY <1>5, <1>6, <1>7, <1>9, <1>10 DEF Whole, TablesWhole

(* An artifact goes with its rows and with the requests that write to it.   *)
LEMMA WholeDelete ==
    ASSUME RegistryAssumption, Whole, NEW s \in Session, DeleteArtifactWithID(s)
    PROVE  Whole'
<1> DEFINE d == tx[s].a
<1>1. d \in Artifact
    BY RequestKinds DEF DeleteArtifactWithID, Whole, Deleting
<1>2. /\ artifact' = [artifact EXCEPT ![d] = Nil]
      /\ version' = [r \in Row |-> IF r[1] = d THEN Nil ELSE version[r]]
      /\ parts' = [r \in Row |-> IF r[1] = d THEN {} ELSE parts[r]]
      /\ tx' = [o \in Session |-> IF o = s \/ Writing(o, d) THEN Nil ELSE tx[o]]
      /\ remote' = remote /\ store' = store
    BY DEF DeleteArtifactWithID, blobs
<1> HIDE DEF d
<1>3. \A a \in Artifact, n \in Name :
          /\ version'[<<a, n>>] = IF a = d THEN Nil ELSE version[<<a, n>>]
          /\ parts'[<<a, n>>] = IF a = d THEN {} ELSE parts[<<a, n>>]
    BY <1>2 DEF Row
<1>4. \A a \in Artifact : artifact'[a] = IF a = d THEN Nil ELSE artifact[a]
    BY <1>2 DEF Whole, TablesWhole, RowsOK
<1>5. \A m \in Manifest : m \in Name
    BY DEF Name
<1>6. RowsOK'
    BY <1>1, <1>2 DEF Whole, TablesWhole, RowsOK
<1>7. UpstreamKnown'
    BY <1>2, <1>4 DEF Whole, TablesWhole, UpstreamKnown
<1>8. RowsHaveArtifact' /\ DigestNamesItself'
    BY <1>3, <1>4, <1>5 DEF Whole, TablesWhole, RowsHaveArtifact, DigestNamesItself
<1>9. PushedRowsComplete'
    <2> SUFFICES ASSUME NEW a \in Artifact, NEW n \in Name, artifact'[a] = "pushed", version'[<<a, n>>] # Nil
                 PROVE  /\ parts'[<<a, n>>] = Content[version'[<<a, n>>]]
                        /\ version'[<<a, version'[<<a, n>>]>>] = version'[<<a, n>>]
        BY DEF PushedRowsComplete
    <2>1. /\ version'[<<a, n>>] = version[<<a, n>>] /\ parts'[<<a, n>>] = parts[<<a, n>>] /\ version[<<a, n>>] # Nil
          /\ a # d /\ artifact[a] = "pushed"
        BY <1>3, <1>4 DEF RegistryAssumption
    <2>2. version[<<a, n>>] \in Name
        BY <1>5, <2>1 DEF Whole, TablesWhole, RowsOK, Row
    <2>3. parts[<<a, n>>] = Content[version[<<a, n>>]] /\ version[<<a, version[<<a, n>>]>>] = version[<<a, n>>]
        BY <2>1 DEF Whole, TablesWhole, PushedRowsComplete
    <2>4. version'[<<a, version[<<a, n>>]>>] = version[<<a, version[<<a, n>>]>>]
        BY <1>3, <2>1, <2>2
    <2> QED BY <2>1, <2>3, <2>4
<1>10. RequestsOK'
    BY <1>2 DEF Whole, RequestsOK
<1>11. PutsHold'
    <2> SUFFICES ASSUME NEW o \in Session, tx'[o] # Nil, tx'[o].op = "put", tx'[o].m \notin tx'[o].new
                 PROVE  artifact'[tx'[o].a] = "pushed" /\ version'[<<tx'[o].a, tx'[o].m>>] = tx'[o].m
        BY DEF PutsHold
    <2>1. tx'[o] = tx[o] /\ tx[o].a # d
        BY <1>2 DEF Writing
    <2>2. tx[o].a \in Artifact /\ tx[o].m \in Manifest
        BY <2>1, RequestKinds DEF Whole, Putting
    <2>3. version'[<<tx[o].a, tx[o].m>>] = version[<<tx[o].a, tx[o].m>>] /\ artifact'[tx[o].a] = artifact[tx[o].a]
        BY <1>3, <1>4, <1>5, <2>1, <2>2
    <2> QED BY <2>1, <2>3 DEF Whole, PutsHold
<1>12. SyncsHold'
    <2> SUFFICES ASSUME NEW o \in Session, tx'[o] # Nil, tx'[o].op = "sync"
                 PROVE  artifact'[tx'[o].a] \notin {Nil, "pushed"}
        BY DEF SyncsHold
    <2>1. tx'[o] = tx[o] /\ tx[o].a # d
        BY <1>2 DEF Writing
    <2>2. tx[o].a \in Artifact
        BY <2>1, RequestKinds DEF Whole, Syncing
    <2> QED BY <1>4, <2>1, <2>2 DEF Whole, SyncsHold
<1> QED BY <1>6, <1>7, <1>8, <1>9, <1>10, <1>11, <1>12 DEF Whole, TablesWhole

(* The status of a pull-through artifact, and its creation.                 *)
LEMMA WholeStatus ==
    ASSUME RegistryAssumption, Whole, NEW a \in Artifact, NEW st \in {"never", "synced", "failed"},
           artifact[a] # "pushed", a \in PullThrough,
           artifact' = [artifact EXCEPT ![a] = st],
           UNCHANGED <<version, parts, remote, store, tx>>
    PROVE  Whole'
<1>1. \A o \in Artifact : artifact'[o] = IF o = a THEN st ELSE artifact[o]
    BY DEF Whole, TablesWhole, RowsOK
<1>2. st \notin {Nil, "pushed"}
    BY DEF RegistryAssumption
<1>3. RowsOK' /\ UpstreamKnown'
    BY <1>1 DEF Whole, TablesWhole, RowsOK, UpstreamKnown
<1>4. RowsHaveArtifact' /\ DigestNamesItself'
    BY <1>1, <1>2 DEF Whole, TablesWhole, RowsHaveArtifact, DigestNamesItself
<1>5. PushedRowsComplete'
    BY <1>1, <1>2 DEF Whole, TablesWhole, PushedRowsComplete
<1>6. RequestsOK'
    BY DEF Whole, RequestsOK
<1>7. PutsHold'
    <2> SUFFICES ASSUME NEW o \in Session, tx[o] # Nil, tx[o].op = "put", tx[o].m \notin tx[o].new
                 PROVE  artifact'[tx[o].a] = "pushed" /\ version[<<tx[o].a, tx[o].m>>] = tx[o].m
        BY DEF PutsHold
    <2>1. tx[o].a \in Artifact
        BY RequestKinds DEF Whole, Putting
    <2> QED BY <1>1, <2>1 DEF Whole, PutsHold
<1>8. SyncsHold'
    <2> SUFFICES ASSUME NEW o \in Session, tx[o] # Nil, tx[o].op = "sync"
                 PROVE  artifact'[tx[o].a] \notin {Nil, "pushed"}
        BY DEF SyncsHold
    <2>1. tx[o].a \in Artifact
        BY RequestKinds DEF Whole, Syncing
    <2> QED BY <1>1, <1>2, <2>1 DEF Whole, SyncsHold
<1> QED BY <1>3, <1>4, <1>5, <1>6, <1>7, <1>8 DEF Whole, TablesWhole

(* Rows of a pull-through artifact are written.                             *)
LEMMA WholeSync ==
    ASSUME RegistryAssumption, Whole, NEW a \in Artifact, artifact[a] \notin {Nil, "pushed"},
           version' \in [Row -> Manifest \cup {Nil}], parts' \in [Row -> SUBSET (Manifest \cup Blob)],
           \A r \in Row : r[1] # a => version'[r] = version[r] /\ parts'[r] = parts[r],
           \A m \in Manifest : version'[<<a, m>>] \in {Nil, m},
           UNCHANGED <<artifact, remote, store>>, RequestsOK',
           \A s \in Session : tx'[s] # Nil /\ tx'[s].op \in {"put", "sync"} =>
               /\ tx[s] # Nil /\ tx'[s].op = tx[s].op /\ tx'[s].a = tx[s].a /\ tx'[s].m = tx[s].m
               /\ tx[s].op = "put" => tx'[s] = tx[s]
    PROVE  Whole'
<1>1. \A o \in Artifact, n \in Name : o # a =>
          version'[<<o, n>>] = version[<<o, n>>] /\ parts'[<<o, n>>] = parts[<<o, n>>]
    BY DEF Row
<1>2. \A m \in Manifest : m \in Name
    BY DEF Name
<1>3. RowsOK' /\ UpstreamKnown'
    BY DEF Whole, TablesWhole, RowsOK, UpstreamKnown
<1>4. RowsHaveArtifact'
    BY <1>1 DEF Whole, TablesWhole, RowsHaveArtifact
<1>5. DigestNamesItself'
    BY <1>1, <1>2 DEF Whole, TablesWhole, DigestNamesItself
<1>6. PushedRowsComplete'
    <2> SUFFICES ASSUME NEW o \in Artifact, NEW n \in Name, artifact[o] = "pushed", version'[<<o, n>>] # Nil
                 PROVE  /\ parts'[<<o, n>>] = Content[version'[<<o, n>>]]
                        /\ version'[<<o, version'[<<o, n>>]>>] = version'[<<o, n>>]
        BY DEF PushedRowsComplete
    <2>1. o # a
        OBVIOUS
    <2>2. version'[<<o, n>>] = version[<<o, n>>] /\ parts'[<<o, n>>] = parts[<<o, n>>]
        BY <1>1, <2>1
    <2>3. version[<<o, n>>] \in Name
        BY <1>2, <2>2 DEF Whole, TablesWhole, RowsOK, Row
    <2>4. parts[<<o, n>>] = Content[version[<<o, n>>]] /\ version[<<o, version[<<o, n>>]>>] = version[<<o, n>>]
        BY <2>2 DEF Whole, TablesWhole, PushedRowsComplete
    <2>5. version'[<<o, version[<<o, n>>]>>] = version[<<o, version[<<o, n>>]>>]
        BY <1>1, <2>1, <2>3
    <2> QED BY <2>2, <2>4, <2>5
<1>7. PutsHold'
    <2> SUFFICES ASSUME NEW s \in Session, tx'[s] # Nil, tx'[s].op = "put", tx'[s].m \notin tx'[s].new
                 PROVE  artifact[tx'[s].a] = "pushed" /\ version'[<<tx'[s].a, tx'[s].m>>] = tx'[s].m
        BY DEF PutsHold
    <2>1. tx[s] # Nil /\ tx'[s] = tx[s]
        OBVIOUS
    <2>2. artifact[tx[s].a] = "pushed" /\ version[<<tx[s].a, tx[s].m>>] = tx[s].m
        BY <2>1 DEF Whole, PutsHold
    <2>3. tx[s].a \in Artifact /\ tx[s].m \in Name /\ tx[s].a # a
        BY <1>2, <2>1, <2>2, RequestKinds DEF Whole, Putting
    <2> QED BY <1>1, <2>1, <2>2, <2>3
<1>8. SyncsHold'
    BY DEF Whole, SyncsHold
<1> QED BY <1>3, <1>4, <1>5, <1>6, <1>7, <1>8 DEF Whole, TablesWhole

LEMMA WholeUpsert ==
    ASSUME RegistryAssumption, Whole, NEW s \in Session, UpsertArtifactVersionForSync(s)
    PROVE  Whole'
<1> DEFINE q == tx[s]
<1>1. PICK row \in q.todo :
          /\ row[1] # "parts"
          /\ version' = [version EXCEPT ![<<q.a, row[1]>>] = row[2]]
          /\ parts' = IF row[1] \in {q.t, q.m} THEN parts
                      ELSE [parts EXCEPT ![<<q.a, row[1]>>] = @ \cup Content[row[2]]]
          /\ tx' = [tx EXCEPT ![s].todo = AfterRow(q, row)]
    BY DEF UpsertArtifactVersionForSync
<1>2. q # Nil /\ q.op = "sync"
      /\ artifact' = artifact /\ remote' = remote /\ store' = store
    BY DEF UpsertArtifactVersionForSync, blobs
<1>3. Syncing(q)
    BY <1>2, RequestKinds DEF Whole
<1>4. q.a \in Artifact /\ q.t \in Tag /\ q.m \in Manifest /\ artifact[q.a] \notin {Nil, "pushed"}
    BY <1>2, <1>3 DEF Syncing, Whole, SyncsHold
<1>5. row \in SyncRows(q) /\ row \in (Name \cup {"parts"}) \X Manifest
    BY <1>3 DEF Syncing
<1>6. row[1] \in Name /\ row[2] \in Manifest /\ ((row[1] = q.t /\ row[2] = q.m) \/ row[2] = row[1])
    BY <1>1, <1>5 DEF SyncRows
<1>7. Content[row[2]] \subseteq Manifest \cup Blob
    BY <1>6 DEF RegistryAssumption
<1>8. AfterRow(q, row) \subseteq SyncRows(q) /\ AfterRow(q, row) \subseteq (Name \cup {"parts"}) \X Manifest
    <2>1. {<<q.m, q.m>>} \subseteq SyncRows(q) /\ {<<"parts", q.m>>} \subseteq SyncRows(q)
          /\ q.todo \ {row} \subseteq SyncRows(q)
        BY <1>3, <1>4 DEF Syncing, SyncRows
    <2>2. {<<q.m, q.m>>} \subseteq (Name \cup {"parts"}) \X Manifest
          /\ {<<"parts", q.m>>} \subseteq (Name \cup {"parts"}) \X Manifest
          /\ q.todo \ {row} \subseteq (Name \cup {"parts"}) \X Manifest
        BY <1>3, <1>4 DEF Syncing, Name
    <2> QED BY <2>1, <2>2 DEF AfterRow
<1>9. tx' = [o \in Session |-> IF o = s THEN [q EXCEPT !.todo = AfterRow(q, row)] ELSE tx[o]]
    BY <1>1 DEF Whole, RequestsOK
<1>10. Syncing([q EXCEPT !.todo = AfterRow(q, row)])
    BY <1>3, <1>8 DEF Syncing, SyncRows
<1>11. RequestsOK'
    BY <1>9, <1>10 DEF Whole, RequestsOK, Request
<1>12. /\ [q EXCEPT !.todo = AfterRow(q, row)].op = "sync" /\ [q EXCEPT !.todo = AfterRow(q, row)].a = q.a
       /\ [q EXCEPT !.todo = AfterRow(q, row)].m = q.m
    BY <1>2, <1>3 DEF Syncing
<1> HIDE DEF q
<1>13. <<q.a, row[1]>> \in Row
    BY <1>4, <1>6 DEF Row
<1>14. version' \in [Row -> Manifest \cup {Nil}] /\ parts' \in [Row -> SUBSET (Manifest \cup Blob)]
    <2>1. version' \in [Row -> Manifest \cup {Nil}]
        BY <1>1, <1>6 DEF Whole, TablesWhole, RowsOK
    <2>2. parts' \in [Row -> SUBSET (Manifest \cup Blob)]
        BY <1>1, <1>7, <1>13 DEF Whole, TablesWhole, RowsOK
    <2> QED BY <2>1, <2>2
<1>15. \A r \in Row : r[1] # q.a => version'[r] = version[r] /\ parts'[r] = parts[r]
    BY <1>1 DEF Whole, TablesWhole, RowsOK
<1>16. \A m \in Manifest : version'[<<q.a, m>>] \in {Nil, m}
    <2> SUFFICES ASSUME NEW m \in Manifest PROVE version'[<<q.a, m>>] \in {Nil, m}
        OBVIOUS
    <2>1. <<q.a, m>> \in Row /\ m # q.t
        BY <1>4 DEF Row, Name, RegistryAssumption
    <2>2. version'[<<q.a, m>>] = IF row[1] = m THEN row[2] ELSE version[<<q.a, m>>]
        BY <1>1, <2>1 DEF Whole, TablesWhole, RowsOK
    <2> QED BY <1>4, <1>6, <2>1, <2>2 DEF Whole, TablesWhole, DigestNamesItself
<1>17. \A o \in Session : tx'[o] # Nil /\ tx'[o].op \in {"put", "sync"} =>
               /\ tx[o] # Nil /\ tx'[o].op = tx[o].op /\ tx'[o].a = tx[o].a /\ tx'[o].m = tx[o].m
               /\ tx[o].op = "put" => tx'[o] = tx[o]
    BY <1>2, <1>9, <1>12 DEF q
<1> QED BY <1>2, <1>4, <1>11, <1>14, <1>15, <1>16, <1>17, WholeSync

LEMMA WholeParts ==
    ASSUME RegistryAssumption, Whole, NEW s \in Session, BulkUpsertArtifactVersionParts(s)
    PROVE  Whole'
<1> DEFINE q == tx[s]
           todo == {<<b, b>> : b \in Content[q.m] \cap Manifest}
<1>1. /\ q # Nil /\ q.op = "sync"
      /\ parts' = [parts EXCEPT ![<<q.a, q.t>>] = @ \cup Content[q.m], ![<<q.a, q.m>>] = @ \cup Content[q.m]]
      /\ tx' = [tx EXCEPT ![s].todo = todo]
      /\ artifact' = artifact /\ version' = version /\ remote' = remote /\ store' = store
    BY DEF BulkUpsertArtifactVersionParts, blobs
<1>2. Syncing(q)
    BY <1>1, RequestKinds DEF Whole
<1>3. q.a \in Artifact /\ q.t \in Tag /\ q.m \in Manifest /\ artifact[q.a] \notin {Nil, "pushed"}
    BY <1>1, <1>2 DEF Syncing, Whole, SyncsHold
<1>4. Content[q.m] \subseteq Manifest \cup Blob
    BY <1>3 DEF RegistryAssumption
<1>5. tx' = [o \in Session |-> IF o = s THEN [q EXCEPT !.todo = todo] ELSE tx[o]]
    BY <1>1 DEF Whole, RequestsOK
<1>6. todo \subseteq SyncRows(q) /\ todo \subseteq (Name \cup {"parts"}) \X Manifest
    BY DEF SyncRows, Name
<1>7. Syncing([q EXCEPT !.todo = todo])
    <2> HIDE DEF todo
    <2> QED BY <1>2, <1>6 DEF Syncing, SyncRows
<1>8. RequestsOK'
    BY <1>5, <1>7 DEF Whole, RequestsOK, Request
<1>9. [q EXCEPT !.todo = todo].op = "sync" /\ [q EXCEPT !.todo = todo].a = q.a /\ [q EXCEPT !.todo = todo].m = q.m
    BY <1>1, <1>2 DEF Syncing
<1> HIDE DEF q, todo
<1>10. <<q.a, q.t>> \in Row /\ <<q.a, q.m>> \in Row
    BY <1>3 DEF Row, Name
<1>11. parts' \in [Row -> SUBSET (Manifest \cup Blob)]
    BY <1>1, <1>4, <1>10 DEF Whole, TablesWhole, RowsOK
<1>12. \A r \in Row : r[1] # q.a => version'[r] = version[r] /\ parts'[r] = parts[r]
    BY <1>1 DEF Whole, TablesWhole, RowsOK
<1>13. \A m \in Manifest : version'[<<q.a, m>>] \in {Nil, m}
    BY <1>1, <1>3 DEF Whole, TablesWhole, DigestNamesItself
<1>14. \A o \in Session : tx'[o] # Nil /\ tx'[o].op \in {"put", "sync"} =>
               /\ tx[o] # Nil /\ tx'[o].op = tx[o].op /\ tx'[o].a = tx[o].a /\ tx'[o].m = tx[o].m
               /\ tx[o].op = "put" => tx'[o] = tx[o]
    BY <1>1, <1>5, <1>9 DEF q
<1>15. version' \in [Row -> Manifest \cup {Nil}]
    BY <1>1 DEF Whole, TablesWhole, RowsOK
<1> QED BY <1>1, <1>3, <1>8, <1>11, <1>12, <1>13, <1>14, <1>15, WholeSync

(* The status at the end of a sync, and the end of its request.             *)
LEMMA WholeSynced ==
    ASSUME RegistryAssumption, Whole, NEW s \in Session, UpdateArtifactSyncStatus(s)
    PROVE  Whole'
<1> DEFINE a == tx[s].a
           st == IF tx[s].todo = {} THEN "synced" ELSE "failed"
<1>1. a \in Artifact /\ artifact[a] \notin {Nil, "pushed"}
    BY RequestKinds DEF UpdateArtifactSyncStatus, Whole, Syncing, SyncsHold
<1>2. artifact' = [artifact EXCEPT ![a] = st] /\ tx' = [tx EXCEPT ![s] = Nil]
      /\ UNCHANGED <<version, parts, remote, store>>
    BY <1>1 DEF UpdateArtifactSyncStatus, blobs
<1>3. st \in {"never", "synced", "failed"} /\ st \notin {Nil, "pushed"}
    BY DEF RegistryAssumption
<1>4. a \in PullThrough
    BY <1>1 DEF Whole, TablesWhole, UpstreamKnown
<1> HIDE DEF a, st
<1>5. \A o \in Artifact : artifact'[o] = IF o = a THEN st ELSE artifact[o]
    BY <1>2 DEF Whole, TablesWhole, RowsOK
<1>6. tx' = [o \in Session |-> IF o = s THEN Nil ELSE tx[o]]
    BY <1>2 DEF Whole, RequestsOK
<1>7. RowsOK' /\ UpstreamKnown'
    BY <1>2, <1>3, <1>4, <1>5 DEF Whole, TablesWhole, RowsOK, UpstreamKnown
<1>8. RowsHaveArtifact' /\ DigestNamesItself'
    BY <1>2, <1>3, <1>5 DEF Whole, TablesWhole, RowsHaveArtifact, DigestNamesItself
<1>9. PushedRowsComplete'
    BY <1>2, <1>3, <1>5 DEF Whole, TablesWhole, PushedRowsComplete
<1>10. RequestsOK'
    BY <1>6 DEF Whole, RequestsOK
<1>11. PutsHold'
    <2> SUFFICES ASSUME NEW o \in Session, tx'[o] # Nil, tx'[o].op = "put", tx'[o].m \notin tx'[o].new
                 PROVE  artifact'[tx[o].a] = "pushed" /\ version[<<tx[o].a, tx[o].m>>] = tx[o].m /\ tx'[o] = tx[o]
        BY <1>2 DEF PutsHold
    <2>1. tx'[o] = tx[o]
        BY <1>6
    <2>2. tx[o].a \in Artifact /\ artifact[tx[o].a] = "pushed"
        BY <2>1, RequestKinds DEF Whole, Putting, PutsHold
    <2> QED BY <1>1, <1>5, <2>1, <2>2 DEF Whole, PutsHold
<1>12. SyncsHold'
    <2> SUFFICES ASSUME NEW o \in Session, tx'[o] # Nil, tx'[o].op = "sync"
                 PROVE  artifact'[tx[o].a] \notin {Nil, "pushed"} /\ tx'[o] = tx[o]
        BY DEF SyncsHold
    <2>1. tx'[o] = tx[o] /\ tx[o].a \in Artifact
        BY <1>6, RequestKinds DEF Whole, Syncing
    <2> QED BY <1>3, <1>5, <2>1 DEF Whole, SyncsHold
<1> QED BY <1>7, <1>8, <1>9, <1>10, <1>11, <1>12 DEF Whole, TablesWhole

-----------------------------------------------------------------------------
(* What a check covers.                                                     *)

(* If what a row is about covers x, so do the rows that list it: whatever   *)
(* is closed below them is closed below it.                                 *)
LEMMA AggregateCovers ==
    ASSUME NEW x \in Manifest \cup Blob, NEW start, start \subseteq Rows, \A q \in start : x \in Below(q)
    PROVE  \A r \in ArtifactVersionAggregate(start) : r \in Rows /\ x \in Below(r)
<1> DEFINE over == {r \in Rows : x \in Below(r)}
<1>1. start \subseteq over /\ over \in SUBSET Rows
    OBVIOUS
<1>2. ASSUME NEW q \in over, NEW r \in Rows, version[q] \in parts[r] PROVE r \in over
    <2>1. x \in Below(q) /\ q \in Rows
        OBVIOUS
    <2>2. ASSUME NEW D \in SUBSET (Manifest \cup Blob), version[r] \in D, parts[r] \subseteq D,
                 \A p \in Rows : version[p] \in D => parts[p] \subseteq D
          PROVE  x \in D
        <3>1. version[q] \in D /\ parts[q] \subseteq D
            BY <1>2, <2>1, <2>2
        <3> QED BY <2>1, <2>2, <3>1 DEF Below
    <2>3. x \in Below(r)
        BY <2>2 DEF Below
    <2> QED BY <2>3
<1> HIDE DEF over
<1>3. ArtifactVersionAggregate(start) \subseteq over
    BY <1>1, <1>2 DEF ArtifactVersionAggregate
<1> QED BY <1>3 DEF over, ArtifactVersionAggregate

(* A reference by digest is covered when it is granted.                     *)
LEMMA ReferenceCovered ==
    ASSUME Whole, NEW c, NEW a \in Artifact, NEW m \in Manifest, CheckEntitlementForArtifact(c, a, m)
    PROVE  Covered(c, m)
<1> SUFFICES ASSUME HasAnyArtifactEntitlement PROVE \E r \in Rows : Grants(c, r) /\ m \in Below(r)
    BY DEF Covered
<1>1. PICK r \in ArtifactVersionAggregate(Meant(a, m)) : Grants(c, r)
    BY DEF CheckEntitlementForArtifact
<1>2. ASSUME NEW q \in Meant(a, m) PROVE q \in Rows /\ m \in Below(q)
    <2>1. q \in Rows /\ version[q] # Nil
        BY DEF Meant, Rows
    <2>2. PICK k \in Name : (k = m \/ version[q] = m) /\ version[<<a, k>>] = version[q]
        BY DEF Meant
    <2>3. version[q] = m
        BY <2>1, <2>2 DEF Whole, TablesWhole, DigestNamesItself
    <2> QED BY <2>1, <2>3 DEF Below
<1>3. r \in Rows /\ m \in Below(r)
    BY <1>1, <1>2, AggregateCovers
<1> QED BY <1>1, <1>3

(* And so is a blob.                                                        *)
LEMMA BlobCovered ==
    ASSUME NEW c, NEW b \in Blob, CheckEntitlementForArtifactBlob(c, b)
    PROVE  Covered(c, b)
<1> SUFFICES ASSUME HasAnyArtifactEntitlement PROVE \E r \in Rows : Grants(c, r) /\ b \in Below(r)
    BY DEF Covered
<1> DEFINE start == {q \in Rows : b \in parts[q]}
<1>1. PICK r \in ArtifactVersionAggregate(start) : Grants(c, r)
    BY DEF CheckEntitlementForArtifactBlob
<1>2. start \subseteq Rows /\ \A q \in start : b \in Below(q)
    BY DEF Below
<1> HIDE DEF start
<1>3. r \in Rows /\ b \in Below(r)
    BY <1>1, <1>2, AggregateCovers
<1> QED BY <1>1, <1>3

(* What customers are shown they may pull.                                  *)
LEMMA Shown == ASSUME Whole PROVE ShownIsPullable
<1> SUFFICES ASSUME NEW c \in Customer, NEW a \in Artifact, NEW m \in GetVersionsForArtifact(c, a),
                    HasAnyArtifactEntitlement
             PROVE  \E r \in ArtifactVersionAggregate(Meant(a, m)) : Grants(c, r)
    BY DEF ShownIsPullable, CheckEntitlementForArtifact
<1> DEFINE start == {q \in Rows : q[1] = a /\ version[q] = m}
<1>1. /\ m \in Manifest /\ version[<<a, m>>] = m /\ <<a, m>> \in Row
      /\ \E t \in TagsOf(a) : version[<<a, t>>] = m
    BY DEF GetVersionsForArtifact, Row, Name
<1>2. m # Nil
    BY <1>1 DEF TagsOf
<1>3. m \in Name /\ <<a, m>> \in Rows
    BY <1>1, <1>2 DEF Name, Rows
<1>4. start \subseteq Meant(a, m) /\ Meant(a, m) \subseteq Rows /\ <<a, m>> \in Meant(a, m)
    BY <1>1, <1>3 DEF Meant
<1>5. CASE <<a, All>> \in GrantedTo(c)
    <2>1. Grants(c, <<a, m>>)
        BY <1>5 DEF Grants
    <2>2. <<a, m>> \in ArtifactVersionAggregate(Meant(a, m))
        BY <1>3, <1>4 DEF ArtifactVersionAggregate
    <2> QED BY <2>1, <2>2
<1>6. CASE \E r \in ArtifactVersionAggregate(start) : r[1] = a /\ r \in GrantedTo(c)
    <2>1. PICK r \in ArtifactVersionAggregate(start) : r[1] = a /\ r \in GrantedTo(c)
        BY <1>6
    <2> HIDE DEF start
    <2>2. r \in ArtifactVersionAggregate(Meant(a, m))
        BY <1>4 DEF ArtifactVersionAggregate
    <2>3. Grants(c, r)
        BY <2>1 DEF Grants
    <2> QED BY <2>2, <2>3
<1> QED BY <1>5, <1>6 DEF GetVersionsForArtifact

-----------------------------------------------------------------------------
(* Every step keeps the tables whole.                                       *)

LEMMA WholePush ==
    ASSUME RegistryAssumption, Whole, Push
    PROVE  Whole'
<1> PICK s \in Session :
        \/ StartSession(s)
        \/ \E n \in 0..MaxChunks : PutChunk(s, n)
        \/ \E b \in Blob : CompleteSession(s, b)
        \/ \E a \in Artifact, m \in Manifest, t \in Name : PutRead(s, a, t, m)
        \/ CreateArtifactVersion(s) \/ GiveUp(s)
    BY DEF Push
<1>0. store \in [Blob -> {"absent", "fresh", "old"}]
    BY DEF Whole, TablesWhole, RowsOK
<1>1. CASE StartSession(s) \/ \E n \in 0..MaxChunks : PutChunk(s, n)
    BY <1>0, <1>1, WholeQuiet DEF StartSession, PutChunk, rows
<1>2. ASSUME NEW b \in Blob, CompleteSession(s, b) PROVE Whole'
    <2>1. UNCHANGED <<rows, remote, tx>> /\ store' = [store EXCEPT ![b] = "fresh"]
        BY <1>2 DEF CompleteSession
    <2> QED BY <1>0, <2>1, WholeQuiet
<1>3. ASSUME NEW a \in Artifact, NEW m \in Manifest, NEW t \in Name, PutRead(s, a, t, m) PROVE Whole'
    <2> DEFINE new == {n \in {m, t} : GetArtifactVersion(a, n) = Nil}
               q == [op |-> "put", a |-> a, t |-> t, m |-> m, new |-> new]
    <2>1. /\ UNCHANGED <<rows, remote, store>> /\ tx' = [tx EXCEPT ![s] = q]
          /\ authorizeWrite(a) /\ t \in Tag \cup {m} /\ (t \in Tag \ new => Mutable)
        BY <1>3 DEF PutRead, blobs
    <2>2. q.op = "put" /\ q.a = a /\ q.m = m /\ q.t = t /\ q.new = new /\ new \subseteq {m, t} /\ m \in Name
        BY DEF Name
    <2>3. m \notin new => artifact[a] = "pushed" /\ version[<<a, m>>] = m
        <3> SUFFICES ASSUME m \notin new PROVE artifact[a] = "pushed" /\ version[<<a, m>>] = m
            OBVIOUS
        <3>1. version[<<a, m>>] # Nil
            BY DEF GetArtifactVersion
        <3>2. version[<<a, m>>] = m
            BY <3>1 DEF Whole, TablesWhole, DigestNamesItself
        <3>3. artifact[a] # Nil
            BY <2>2, <3>1 DEF Whole, TablesWhole, RowsHaveArtifact
        <3> QED BY <2>1, <3>2, <3>3 DEF authorizeWrite
    <2> HIDE DEF new
    <2>4. Putting(q)
        BY <2>1, <2>2 DEF Putting
    <2> HIDE DEF q
    <2> QED BY <2>1, <2>2, <2>3, <2>4, WholeRequest DEF Request
<1>4. CASE CreateArtifactVersion(s)
    BY <1>4, WholePut
<1>5. CASE GiveUp(s)
    BY <1>5, WholeRequest DEF GiveUp, blobs
<1> QED BY <1>1, <1>2, <1>3, <1>4, <1>5

LEMMA WholeRemoval ==
    ASSUME RegistryAssumption, Whole, Removal
    PROVE  Whole'
<1> PICK s \in Session :
        \/ \E a \in Artifact, t \in Tag : DeleteTagRead(s, a, t)
        \/ \E a \in Artifact : DeleteArtifactRead(s, a)
        \/ DeleteArtifactVersion(s) \/ DeleteArtifactWithID(s)
    BY DEF Removal
<1>1. ASSUME NEW a \in Artifact, NEW t \in Tag, DeleteTagRead(s, a, t) PROVE Whole'
    <2> DEFINE q == [op |-> "untag", a |-> a, t |-> t]
    <2>1. UNCHANGED <<rows, remote, store>> /\ tx' = [tx EXCEPT ![s] = q]
        BY <1>1 DEF DeleteTagRead, blobs
    <2>2. Untagging(q) /\ q.op = "untag"
        BY DEF Untagging
    <2> HIDE DEF q
    <2> QED BY <2>1, <2>2, WholeRequest DEF Request
<1>2. ASSUME NEW a \in Artifact, DeleteArtifactRead(s, a) PROVE Whole'
    <2> DEFINE q == [op |-> "delete", a |-> a]
    <2>1. UNCHANGED <<rows, remote, store>> /\ tx' = [tx EXCEPT ![s] = q]
        BY <1>2 DEF DeleteArtifactRead, blobs
    <2>2. Deleting(q) /\ q.op = "delete"
        BY DEF Deleting
    <2> HIDE DEF q
    <2> QED BY <2>1, <2>2, WholeRequest DEF Request
<1>3. CASE DeleteArtifactVersion(s)
    BY <1>3, WholeUntag
<1>4. CASE DeleteArtifactWithID(s)
    BY <1>4, WholeDelete
<1> QED BY <1>1, <1>2, <1>3, <1>4

LEMMA WholeEntitling ==
    ASSUME Whole, Entitling
    PROVE  Whole' /\ UNCHANGED <<rows, blobs, tx, past>>
<1>1. UNCHANGED <<rows, remote, blobs, tx, past>>
    BY DEF Entitling, CreateArtifactEntitlement, UpdateArtifactEntitlement, EntitlementExpires,
           DeleteArtifactEntitlementWithID
<1> QED BY <1>1, WholeQuiet DEF blobs, Whole, TablesWhole, RowsOK

LEMMA WholePull ==
    ASSUME Whole, Pull
    PROVE  Whole'
<1>0. store \in [Blob -> {"absent", "fresh", "old"}]
    BY DEF Whole, TablesWhole, RowsOK
<1>1. ASSUME NEW s \in Session, NEW c \in Customer, NEW a \in Artifact, NEW n \in Name,
             AuthorizeReference(s, c, a, n)
      PROVE  Whole'
    <2> DEFINE covered == {m \in Manifest : Covered(c, m)}
               q == [op |-> "pull", c |-> c, a |-> a, n |-> n, covered |-> covered]
    <2>1. UNCHANGED <<rows, remote, store>> /\ tx' = [tx EXCEPT ![s] = q]
        BY <1>1 DEF AuthorizeReference, blobs
    <2>2. n \in Manifest => n \in covered
        BY <1>1, ReferenceCovered DEF AuthorizeReference
    <2>3. covered \in SUBSET Manifest
        OBVIOUS
    <2> HIDE DEF covered
    <2>4. Pulling(q) /\ q.op = "pull"
        BY <2>2, <2>3 DEF Pulling
    <2> HIDE DEF q
    <2> QED BY <2>1, <2>4, WholeRequest DEF Request
<1>2. ASSUME NEW s \in Session, handleGet(s) PROVE Whole'
    BY <1>2, WholeRequest DEF handleGet, blobs
<1>3. ASSUME NEW c \in Customer, NEW a \in Artifact, NEW b \in Blob, GetBlob(c, a, b) PROVE Whole'
    <2>1. UNCHANGED <<rows, remote, tx>> /\ (store' = store \/ store' = [store EXCEPT ![b] = "fresh"])
        BY <1>3 DEF GetBlob
    <2> QED BY <1>0, <2>1, WholeQuiet
<1> QED BY <1>1, <1>2, <1>3 DEF Pull

LEMMA WholeSyncing ==
    ASSUME RegistryAssumption, Whole, Sync
    PROVE  Whole'
<1>1. ASSUME NEW a \in Artifact, CreateArtifact(a) PROVE Whole'
    BY <1>1, WholeStatus DEF CreateArtifact, blobs, RegistryAssumption
<1>2. ASSUME NEW t \in Tag, NEW m \in Manifest, UpstreamMoves(t, m) PROVE Whole'
    <2>1. UNCHANGED <<artifact, version, parts, store, tx>> /\ remote' = [remote EXCEPT ![t] = m]
        BY <1>2 DEF UpstreamMoves, rows, blobs
    <2>2. RowsOK' /\ UpstreamKnown'
        BY <2>1 DEF Whole, TablesWhole, RowsOK, UpstreamKnown
    <2> QED BY <2>1, <2>2 DEF Whole, TablesWhole, RowsHaveArtifact, DigestNamesItself, PushedRowsComplete,
                              RequestsOK, PutsHold, SyncsHold
<1>3. ASSUME NEW s \in Session, NEW a \in Artifact, NEW t \in Tag, NEW skip \in BOOLEAN, SyncTag(s, a, t, skip)
      PROVE  Whole'
    <2> DEFINE m == remote[t]
               q == [op |-> "sync", a |-> a, t |-> t, m |-> m, todo |-> {<<t, m>>}]
    <2>1. UNCHANGED <<rows, remote, store>> /\ tx' = [tx EXCEPT ![s] = q] /\ artifact[a] \notin {Nil, "pushed"}
        BY <1>3 DEF SyncTag, blobs
    <2>2. m \in Manifest
        BY <2>1 DEF Whole, TablesWhole, UpstreamKnown
    <2> HIDE DEF m
    <2>3. Syncing(q) /\ q.op = "sync" /\ q.a = a
        BY <2>2 DEF Syncing, SyncRows, Name
    <2> HIDE DEF q
    <2> QED BY <2>1, <2>3, WholeRequest DEF Request
<1>4. ASSUME NEW s \in Session, UpsertArtifactVersionForSync(s) PROVE Whole'
    BY <1>4, WholeUpsert
<1>5. ASSUME NEW s \in Session, BulkUpsertArtifactVersionParts(s) PROVE Whole'
    BY <1>5, WholeParts
<1>6. ASSUME NEW s \in Session, UpdateArtifactSyncStatus(s) PROVE Whole'
    BY <1>6, WholeSynced
<1> QED BY <1>1, <1>2, <1>3, <1>4, <1>5, <1>6 DEF Sync

LEMMA WholeCleanUp ==
    ASSUME Whole, CleanUp
    PROVE  Whole' /\ UNCHANGED <<rows, tx, past>>
<1>0. store \in [Blob -> {"absent", "fresh", "old"}]
    BY DEF Whole, TablesWhole, RowsOK
<1>1. UNCHANGED <<rows, remote, tx, past>>
    BY DEF CleanUp, RunArtifactBlobCleanup, ListObjects, BlobAges, flushDelete
<1>2. store' \in [Blob -> {"absent", "fresh", "old"}]
    BY <1>0 DEF CleanUp, RunArtifactBlobCleanup, ListObjects, BlobAges, flushDelete
<1> QED BY <1>1, <1>2, WholeQuiet

LEMMA WholeNext ==
    ASSUME RegistryAssumption, Whole, [Next]_vars
    PROVE  Whole'
<1>1. CASE UNCHANGED vars
    BY <1>1, WholeQuiet DEF vars, rows, Whole, TablesWhole, RowsOK
<1> QED BY <1>1, WholePush, WholeRemoval, WholeEntitling, WholePull, WholeSyncing, WholeCleanUp DEF Next

-----------------------------------------------------------------------------
(* What steps do to pushed rows and to pushes under way.                    *)

NoRowPushed ==
    \A a \in Artifact, n \in Name :
        artifact'[a] = "pushed" /\ version'[<<a, n>>] # Nil =>
            /\ artifact[a] = "pushed" /\ version[<<a, n>>] # Nil
            /\ parts'[<<a, n>>] = parts[<<a, n>>]
NoTagMoved ==
    \A a \in Artifact, n \in Name :
        artifact[a] = "pushed" /\ version'[<<a, n>>] # Nil => version'[<<a, n>>] = version[<<a, n>>]
NoPutBegun ==
    \A s \in Session : tx'[s] # Nil /\ tx'[s].op = "put" => tx'[s] = tx[s]
NoPush == NoRowPushed /\ NoTagMoved /\ NoPutBegun

(* The steps that change which blobs are there, or which are to go.         *)
BlobStep ==
    \/ \E s \in Session, b \in Blob : CompleteSession(s, b)
    \/ \E b \in Blob : BlobAges(b) \/ ListObjects(b)
    \/ \E c \in Customer, a \in Artifact, b \in Blob : GetBlob(c, a, b)
    \/ RunArtifactBlobCleanup \/ flushDelete

LEMMA NoPushQuiet ==
    ASSUME Whole, UNCHANGED rows, NEW s \in Session, NEW q, tx' = [tx EXCEPT ![s] = q], q = Nil \/ q.op # "put"
    PROVE  NoPush
BY DEF NoPush, NoRowPushed, NoTagMoved, NoPutBegun, rows, Whole, RequestsOK

(* Only a push adds rows to a pushed artifact, and moves tags of one.       *)
LEMMA StepKinds ==
    ASSUME RegistryAssumption, Whole, [Next]_vars
    PROVE  \/ \E s \in Session : CreateArtifactVersion(s)
           \/ \E s \in Session, a \in Artifact, m \in Manifest, t \in Name : PutRead(s, a, t, m)
           \/ NoPush /\ UNCHANGED <<store, sweep, exposed>>
           \/ NoPush /\ UNCHANGED rows /\ BlobStep
<1> DEFINE Kinds == \/ NoPush /\ UNCHANGED <<store, sweep, exposed>>
                    \/ NoPush /\ UNCHANGED rows /\ BlobStep
<1>0. ASSUME UNCHANGED <<rows, tx>> PROVE NoPush
    BY <1>0 DEF NoPush, NoRowPushed, NoTagMoved, NoPutBegun, rows
<1>1. CASE UNCHANGED vars
    BY <1>0, <1>1 DEF vars, rows
<1>2. ASSUME NEW s \in Session,
             StartSession(s) \/ (\E n \in 0..MaxChunks : PutChunk(s, n)) \/ (\E b \in Blob : CompleteSession(s, b))
      PROVE  Kinds
    BY <1>0, <1>2 DEF StartSession, PutChunk, CompleteSession, BlobStep, past
<1>3. ASSUME NEW s \in Session, GiveUp(s) PROVE Kinds
    BY <1>3, NoPushQuiet DEF GiveUp, blobs, past
<1>4. ASSUME NEW s \in Session, NEW a \in Artifact, NEW t \in Tag, DeleteTagRead(s, a, t) PROVE Kinds
    BY <1>4, NoPushQuiet DEF DeleteTagRead, blobs, past
<1>5. ASSUME NEW s \in Session, NEW a \in Artifact, DeleteArtifactRead(s, a) PROVE Kinds
    BY <1>5, NoPushQuiet DEF DeleteArtifactRead, blobs, past
<1>6. ASSUME NEW s \in Session, DeleteArtifactVersion(s) PROVE Kinds
    <2> DEFINE r == <<tx[s].a, tx[s].t>>
    <2>1. /\ version' = [version EXCEPT ![r] = Nil] /\ parts' = [parts EXCEPT ![r] = {}]
          /\ tx' = [tx EXCEPT ![s] = Nil] /\ artifact' = artifact
          /\ UNCHANGED <<store, sweep, exposed>>
        BY <1>6 DEF DeleteArtifactVersion, blobs, past
    <2> HIDE DEF r
    <2>2. \A p \in Row : version'[p] # Nil => version'[p] = version[p] /\ parts'[p] = parts[p]
        BY <2>1 DEF Whole, TablesWhole, RowsOK
    <2>3. NoRowPushed /\ NoTagMoved
        BY <2>1, <2>2 DEF NoRowPushed, NoTagMoved, Row
    <2>4. NoPutBegun
        BY <2>1 DEF NoPutBegun, Whole, RequestsOK
    <2> QED BY <2>1, <2>3, <2>4 DEF NoPush
<1>7. ASSUME NEW s \in Session, DeleteArtifactWithID(s) PROVE Kinds
    <2> DEFINE d == tx[s].a
    <2>1. /\ artifact' = [artifact EXCEPT ![d] = Nil]
          /\ version' = [r \in Row |-> IF r[1] = d THEN Nil ELSE version[r]]
          /\ parts' = [r \in Row |-> IF r[1] = d THEN {} ELSE parts[r]]
          /\ tx' = [o \in Session |-> IF o = s \/ Writing(o, d) THEN Nil ELSE tx[o]]
          /\ UNCHANGED <<store, sweep, exposed>>
        BY <1>7 DEF DeleteArtifactWithID, blobs, past
    <2> HIDE DEF d
    <2>2. \A p \in Row : version'[p] # Nil => version'[p] = version[p] /\ parts'[p] = parts[p]
        BY <2>1
    <2>3. \A a \in Artifact : artifact'[a] = "pushed" => artifact[a] = "pushed"
        BY <2>1 DEF Whole, TablesWhole, RowsOK, RegistryAssumption
    <2>4. NoRowPushed /\ NoTagMoved
        BY <2>2, <2>3 DEF NoRowPushed, NoTagMoved, Row
    <2>5. NoPutBegun
        BY <2>1 DEF NoPutBegun
    <2> QED BY <2>1, <2>4, <2>5 DEF NoPush
<1>8. ASSUME Entitling PROVE Kinds
    BY <1>0, <1>8, WholeEntitling DEF blobs, past
<1>9. ASSUME NEW s \in Session, NEW c \in Customer, NEW a \in Artifact, NEW n \in Name,
             AuthorizeReference(s, c, a, n)
      PROVE  Kinds
    <2> DEFINE q == [op |-> "pull", c |-> c, a |-> a, n |-> n, covered |-> {m \in Manifest : Covered(c, m)}]
    <2>1. UNCHANGED rows /\ tx' = [tx EXCEPT ![s] = q] /\ q.op # "put" /\ UNCHANGED <<store, sweep, exposed>>
        BY <1>9 DEF AuthorizeReference, blobs, past
    <2> HIDE DEF q
    <2> QED BY <2>1, NoPushQuiet
<1>10. ASSUME NEW s \in Session, handleGet(s) PROVE Kinds
    BY <1>10, NoPushQuiet DEF handleGet, blobs
<1>11. ASSUME NEW c \in Customer, NEW a \in Artifact, NEW b \in Blob, GetBlob(c, a, b) PROVE Kinds
    BY <1>0, <1>11 DEF GetBlob, BlobStep
<1>12. ASSUME NEW a \in Artifact, CreateArtifact(a) PROVE Kinds
    <2>1. /\ artifact' = [artifact EXCEPT ![a] = "never"] /\ artifact[a] = Nil
          /\ UNCHANGED <<version, parts, tx, store, sweep, exposed>>
        BY <1>12 DEF CreateArtifact, blobs, past
    <2>2. \A o \in Artifact : artifact'[o] = "pushed" => artifact[o] = "pushed"
        BY <2>1 DEF Whole, TablesWhole, RowsOK
    <2> QED BY <2>1, <2>2 DEF NoPush, NoRowPushed, NoTagMoved, NoPutBegun
<1>13. ASSUME NEW t \in Tag, NEW m \in Manifest, UpstreamMoves(t, m) PROVE Kinds
    BY <1>0, <1>13 DEF UpstreamMoves, blobs, past
<1>14. ASSUME NEW s \in Session, NEW a \in Artifact, NEW t \in Tag, NEW skip \in BOOLEAN, SyncTag(s, a, t, skip)
       PROVE  Kinds
    BY <1>14, NoPushQuiet DEF SyncTag, blobs, past
<1>15. ASSUME NEW s \in Session, UpsertArtifactVersionForSync(s) \/ BulkUpsertArtifactVersionParts(s)
       PROVE  Kinds
    <2> DEFINE q == tx[s]
    <2>1. q # Nil /\ q.op = "sync" /\ artifact' = artifact /\ UNCHANGED <<store, sweep, exposed>>
        BY <1>15 DEF UpsertArtifactVersionForSync, BulkUpsertArtifactVersionParts, blobs, past
    <2>2. Syncing(q) /\ artifact[q.a] # "pushed"
        BY <2>1, RequestKinds DEF Whole, SyncsHold
    <2>3. \A p \in Row : p[1] # q.a => version'[p] = version[p] /\ parts'[p] = parts[p]
        <3>1. version = [p \in Row |-> version[p]] /\ parts = [p \in Row |-> parts[p]]
            BY DEF Whole, TablesWhole, RowsOK
        <3>2. CASE UpsertArtifactVersionForSync(s)
            <4>1. PICK row \in q.todo :
                      /\ version' = [version EXCEPT ![<<q.a, row[1]>>] = row[2]]
                      /\ parts' = IF row[1] \in {q.t, q.m} THEN parts
                                  ELSE [parts EXCEPT ![<<q.a, row[1]>>] = @ \cup Content[row[2]]]
                BY <3>2 DEF UpsertArtifactVersionForSync
            <4> HIDE DEF q
            <4>2. \A p \in Row : p[1] # q.a => p # <<q.a, row[1]>>
                OBVIOUS
            <4>3. \A p \in Row : p[1] # q.a => version'[p] = version[p]
                BY <3>1, <4>1, <4>2
            <4>4. \A p \in Row : p[1] # q.a => parts'[p] = parts[p]
                BY <3>1, <4>1, <4>2
            <4> QED BY <4>3, <4>4
        <3>3. CASE BulkUpsertArtifactVersionParts(s)
            BY <3>1, <3>3 DEF BulkUpsertArtifactVersionParts
        <3> QED BY <1>15, <3>2, <3>3
    <2>4. \A a \in Artifact, n \in Name : artifact[a] = "pushed" =>
              version'[<<a, n>>] = version[<<a, n>>] /\ parts'[<<a, n>>] = parts[<<a, n>>]
        BY <2>2, <2>3 DEF Row
    <2>5. NoRowPushed /\ NoTagMoved
        BY <2>1, <2>4 DEF NoRowPushed, NoTagMoved
    <2>6. PICK todo : tx' = [tx EXCEPT ![s] = [q EXCEPT !.todo = todo]]
        BY <1>15 DEF UpsertArtifactVersionForSync, BulkUpsertArtifactVersionParts
    <2>7. [q EXCEPT !.todo = todo].op = "sync"
        BY <2>1, <2>2 DEF Syncing
    <2>8. NoPutBegun
        BY <2>6, <2>7 DEF NoPutBegun, Whole, RequestsOK
    <2> QED BY <2>1, <2>5, <2>8 DEF NoPush
<1>16. ASSUME NEW s \in Session, UpdateArtifactSyncStatus(s) PROVE Kinds
    <2> DEFINE a == tx[s].a
    <2>1. /\ a \in Artifact /\ artifact[a] \notin {Nil, "pushed"}
          /\ artifact' = [artifact EXCEPT ![a] = IF tx[s].todo = {} THEN "synced" ELSE "failed"]
          /\ UNCHANGED <<version, parts, store, sweep, exposed>> /\ tx' = [tx EXCEPT ![s] = Nil]
        BY <1>16, RequestKinds DEF UpdateArtifactSyncStatus, Whole, Syncing, SyncsHold, blobs, past
    <2>2. \A o \in Artifact : artifact'[o] = "pushed" => artifact[o] = "pushed"
        BY <2>1 DEF Whole, TablesWhole, RowsOK
    <2>3. NoPutBegun
        BY <2>1 DEF NoPutBegun, Whole, RequestsOK
    <2> QED BY <2>1, <2>2, <2>3 DEF NoPush, NoRowPushed, NoTagMoved
<1>17. ASSUME CleanUp PROVE Kinds
    <2>1. UNCHANGED <<rows, tx, exposed>>
        BY <1>17, WholeCleanUp DEF past
    <2>2. BlobStep
        BY <1>17 DEF CleanUp, BlobStep
    <2> QED BY <1>0, <2>1, <2>2
<1> HIDE DEF Kinds
<1> QED BY <1>1, <1>2, <1>3, <1>4, <1>5, <1>6, <1>7, <1>8, <1>9, <1>10, <1>11, <1>12, <1>13, <1>14, <1>15, <1>16,
           <1>17 DEF Next, Push, Removal, Pull, Sync, Kinds

-----------------------------------------------------------------------------
(* Blobs.                                                                   *)

(* What is written by a push, for the rows there are then.                  *)
LEMMA PushWrites ==
    ASSUME RegistryAssumption, Whole, NEW s \in Session, CreateArtifactVersion(s),
           NEW a \in Artifact, NEW n \in Name, artifact'[a] = "pushed", version'[<<a, n>>] # Nil
    PROVE  \/ parts'[<<a, n>>] = Content[tx[s].m]
           \/ artifact[a] = "pushed" /\ version[<<a, n>>] # Nil /\ parts'[<<a, n>>] = parts[<<a, n>>]
<1> DEFINE q == tx[s]
           written == {q.a} \X (q.new \cup ({q.t} \cap Tag))
<1>1. /\ artifact' = [artifact EXCEPT ![q.a] = IF @ = Nil THEN "pushed" ELSE @]
      /\ version' = [r \in Row |-> IF r \in written THEN q.m ELSE version[r]]
      /\ parts' = [r \in Row |-> IF r \in written THEN Content[q.m] ELSE parts[r]]
    BY DEF CreateArtifactVersion
<1>2. <<a, n>> \in Row
    BY DEF Row
<1> HIDE DEF written
<1>3. CASE <<a, n>> \in written
    BY <1>1, <1>2, <1>3
<1>4. CASE <<a, n>> \notin written
    <2>1. version[<<a, n>>] # Nil /\ parts'[<<a, n>>] = parts[<<a, n>>]
        BY <1>1, <1>2, <1>4
    <2>2. artifact[a] # Nil
        BY <2>1 DEF Whole, TablesWhole, RowsHaveArtifact
    <2>3. artifact[a] = "pushed"
        BY <1>1, <2>2 DEF Whole, TablesWhole, RowsOK
    <2> QED BY <2>1, <2>3
<1> QED BY <1>3, <1>4

LEMMA SweepNext ==
    ASSUME RegistryAssumption, Whole, SweepOK, [Next]_vars
    PROVE  SweepOK'
<1>1. CASE sweep' = sweep
    BY <1>1 DEF SweepOK
<1>2. ASSUME NEW s \in Session, CreateArtifactVersion(s) PROVE sweep' = sweep
    BY <1>2 DEF CreateArtifactVersion, blobs
<1>3. ASSUME NEW s \in Session, NEW a \in Artifact, NEW m \in Manifest, NEW t \in Name, PutRead(s, a, t, m)
      PROVE  sweep' = sweep
    BY <1>3 DEF PutRead, blobs
<1>4. CASE BlobStep
    <2>1. CASE \/ \E s \in Session, b \in Blob : CompleteSession(s, b)
               \/ \E b \in Blob : BlobAges(b)
               \/ \E c \in Customer, a \in Artifact, b \in Blob : GetBlob(c, a, b)
        BY <1>1, <2>1 DEF CompleteSession, BlobAges, GetBlob
    <2>2. ASSUME NEW b \in Blob, ListObjects(b) PROVE SweepOK'
        BY <2>2 DEF ListObjects, SweepOK
    <2>3. CASE RunArtifactBlobCleanup \/ flushDelete
        BY <2>3 DEF RunArtifactBlobCleanup, flushDelete, SweepOK
    <2> QED BY <1>4, <2>1, <2>2, <2>3 DEF BlobStep
<1> QED BY <1>1, <1>2, <1>3, <1>4, StepKinds

LEMMA SparedNext ==
    ASSUME RegistryAssumption, Whole, SweepOK, BlobsSpared, [Next]_vars
    PROVE  BlobsSpared'
<1> SUFFICES ASSUME NEW a \in Artifact, NEW n \in Name, artifact'[a] = "pushed", version'[<<a, n>>] # Nil,
                    NEW b \in (parts'[<<a, n>>] \cap Blob) \ exposed'
             PROVE  /\ store'[b] # "absent"
                    /\ sweep' # Nil => (b \in sweep'.referenced \/ store'[b] # "old") /\ b \notin sweep'.listed
    BY DEF BlobsSpared, Spared
<1>0. store \in [Blob -> {"absent", "fresh", "old"}]
    BY DEF Whole, TablesWhole, RowsOK
<1>1. ASSUME artifact[a] = "pushed", version[<<a, n>>] # Nil, parts'[<<a, n>>] = parts[<<a, n>>], b \notin exposed
      PROVE  /\ store[b] # "absent"
             /\ sweep # Nil => (b \in sweep.referenced \/ store[b] # "old") /\ b \notin sweep.listed
    BY <1>1 DEF BlobsSpared, Spared
<1>2. ASSUME NEW s \in Session, CreateArtifactVersion(s)
      PROVE  /\ store'[b] # "absent"
             /\ sweep' # Nil => (b \in sweep'.referenced \/ store'[b] # "old") /\ b \notin sweep'.listed
    <2>1. /\ UNCHANGED <<store, sweep>>
          /\ exposed' = exposed \cup {x \in Content[tx[s].m] \cap Blob :
                 store[x] = "absent" \/ (sweep # Nil /\ x \notin sweep.referenced /\ store[x] = "old")
                   \/ (sweep # Nil /\ x \in sweep.listed)}
        BY <1>2 DEF CreateArtifactVersion, blobs
    <2>2. CASE b \in Content[tx[s].m]
        BY <2>1, <2>2
    <2>3. CASE b \notin Content[tx[s].m]
        BY <1>1, <1>2, <2>1, <2>3, PushWrites
    <2> QED BY <2>2, <2>3
<1>3. ASSUME NEW s \in Session, NEW o \in Artifact, NEW m \in Manifest, NEW t \in Name, PutRead(s, o, t, m)
      PROVE  /\ store'[b] # "absent"
             /\ sweep' # Nil => (b \in sweep'.referenced \/ store'[b] # "old") /\ b \notin sweep'.listed
    BY <1>1, <1>3 DEF PutRead, rows, blobs, past
<1>4. CASE NoPush /\ UNCHANGED <<store, sweep, exposed>>
    BY <1>1, <1>4 DEF NoPush, NoRowPushed
<1>5. CASE UNCHANGED rows /\ BlobStep
    <2>1. artifact[a] = "pushed" /\ version[<<a, n>>] # Nil /\ parts'[<<a, n>>] = parts[<<a, n>>]
        BY <1>5 DEF rows
    <2>2. exposed' = exposed
        BY <1>5 DEF BlobStep, CompleteSession, BlobAges, ListObjects, GetBlob, RunArtifactBlobCleanup, flushDelete,
                    past
    <2>3. /\ store[b] # "absent" /\ b \in Blob
          /\ sweep # Nil => (b \in sweep.referenced \/ store[b] # "old") /\ b \notin sweep.listed
        BY <1>1, <2>1, <2>2
    <2>4. CASE \/ \E s \in Session, x \in Blob : CompleteSession(s, x)
               \/ \E c \in Customer, o \in Artifact, x \in Blob : GetBlob(c, o, x)
        <3>1. PICK x \in Blob : (store' = store \/ store' = [store EXCEPT ![x] = "fresh"]) /\ sweep' = sweep
            BY <2>4 DEF CompleteSession, GetBlob
        <3> QED BY <1>0, <2>3, <3>1
    <2>5. ASSUME NEW x \in Blob, BlobAges(x)
          PROVE  store'[b] # "absent" /\ sweep' = Nil
        BY <1>0, <2>3, <2>5 DEF BlobAges
    <2>6. ASSUME NEW x \in Blob, ListObjects(x)
          PROVE  /\ store' = store
                 /\ sweep' # Nil => (b \in sweep'.referenced \/ store'[b] # "old") /\ b \notin sweep'.listed
        <3>1. /\ sweep # Nil /\ store[x] = "old" /\ x \notin sweep.referenced /\ store' = store
              /\ sweep' = [sweep EXCEPT !.listed = @ \cup {x}]
            BY <2>6 DEF ListObjects
        <3>2. sweep'.referenced = sweep.referenced /\ sweep'.listed = sweep.listed \cup {x} /\ b # x
            BY <2>3, <3>1 DEF SweepOK
        <3> QED BY <2>3, <3>1, <3>2
    <2>7. CASE RunArtifactBlobCleanup
        <3>1. store' = store /\ sweep' = [referenced |-> GetAllReferencedBlobDigests, listed |-> {}]
            BY <2>7 DEF RunArtifactBlobCleanup
        <3>2. <<a, n>> \in Rows /\ b \in parts[<<a, n>>]
            BY <2>1 DEF Rows, Row
        <3>3. b \in GetAllReferencedBlobDigests
            BY <3>2 DEF GetAllReferencedBlobDigests
        <3> QED BY <2>3, <3>1, <3>3
    <2>8. CASE flushDelete
        <3>1. sweep # Nil
            BY <2>8 DEF flushDelete
        <3>2. PICK gone \in SUBSET sweep.listed : store' = [x \in Blob |-> IF x \in gone THEN "absent" ELSE store[x]]
            BY <2>8 DEF flushDelete
        <3>3. store'[b] = store[b]
            BY <2>3, <3>1, <3>2
        <3>4. sweep' \in {Nil, [sweep EXCEPT !.listed = {}]}
            BY <2>8 DEF flushDelete
        <3>5. [sweep EXCEPT !.listed = {}].referenced = sweep.referenced /\ [sweep EXCEPT !.listed = {}].listed = {}
            BY <3>1 DEF SweepOK
        <3> QED BY <2>3, <3>1, <3>3, <3>4, <3>5
    <2> QED BY <1>5, <2>3, <2>4, <2>5, <2>6, <2>7, <2>8 DEF BlobStep
<1> QED BY <1>2, <1>3, <1>4, <1>5, StepKinds

-----------------------------------------------------------------------------
(* The limit on tags.                                                       *)

LEMMA TagsFinite ==
    ASSUME RegistryAssumption
    PROVE  /\ IsFiniteSet(PushedTags) /\ IsFiniteSet(Coming)
           /\ Cardinality(PushedTags) \in Nat /\ Cardinality(Coming) \in Nat
           /\ Cardinality(Coming) <= Cardinality(Session) /\ Cardinality(Session) \in Nat
<1>1. IsFiniteSet(Artifact \X Tag)
    BY FS_Product DEF RegistryAssumption
<1>2. PushedTags \subseteq Artifact \X Tag /\ Coming \subseteq Session
    BY DEF PushedTags, Coming
<1>3. IsFiniteSet(PushedTags) /\ IsFiniteSet(Coming) /\ IsFiniteSet(Session)
    BY <1>1, <1>2, FS_Subset DEF RegistryAssumption
<1>4. Cardinality(Coming) <= Cardinality(Session)
    BY <1>2, <1>3, FS_Subset
<1> QED BY <1>3, <1>4, FS_CardinalityType

LEMMA TagsFiniteNext ==
    ASSUME RegistryAssumption
    PROVE  /\ IsFiniteSet(PushedTags') /\ IsFiniteSet(Coming')
           /\ Cardinality(PushedTags') \in Nat /\ Cardinality(Coming') \in Nat
           /\ Cardinality(Coming') <= Cardinality(Session)
<1>1. IsFiniteSet(Artifact \X Tag)
    BY FS_Product DEF RegistryAssumption
<1>2. PushedTags' \subseteq Artifact \X Tag /\ Coming' \subseteq Session
    BY DEF PushedTags, Coming
<1>3. IsFiniteSet(PushedTags') /\ IsFiniteSet(Coming') /\ IsFiniteSet(Session)
    BY <1>1, <1>2, FS_Subset DEF RegistryAssumption
<1>4. Cardinality(Coming') <= Cardinality(Session)
    BY <1>2, <1>3, FS_Subset
<1> QED BY <1>3, <1>4, FS_CardinalityType

(* A step after which there are no other tags and pushes.                   *)
LEMMA NoMoreTags ==
    ASSUME RegistryAssumption, TagsCounted, PushedTags' \subseteq PushedTags, Coming' \subseteq Coming
    PROVE  TagsCounted'
<1>1. Cardinality(PushedTags') <= Cardinality(PushedTags) /\ Cardinality(Coming') <= Cardinality(Coming)
    BY TagsFinite, FS_Subset
<1>2. Limit \in Nat /\ Cardinality(Session) \in Nat
    BY TagsFinite DEF RegistryAssumption
<1> QED BY <1>1, <1>2, TagsFinite, TagsFiniteNext DEF TagsCounted, Bound

(* A push that read the count under the limit, or when there was no tag.    *)
LEMMA TagRead ==
    ASSUME RegistryAssumption, Whole, TagsCounted, NEW s \in Session, NEW a \in Artifact, NEW m \in Manifest,
           NEW t \in Name, PutRead(s, a, t, m)
    PROVE  TagsCounted'
<1> DEFINE new == {n \in {m, t} : GetArtifactVersion(a, n) = Nil}
           q == [op |-> "put", a |-> a, t |-> t, m |-> m, new |-> new]
<1>1. /\ UNCHANGED <<artifact, version>> /\ tx' = [tx EXCEPT ![s] = q]
      /\ new # {} => EnsureArtifactTagLimitForInsert
    BY DEF PutRead, rows
<1>2. q.op = "put" /\ q.t = t /\ q.new = new
    OBVIOUS
<1> HIDE DEF new, q
<1>3. tx' = [o \in Session |-> IF o = s THEN q ELSE tx[o]]
    BY <1>1 DEF Whole, RequestsOK
<1>4. PushedTags' = PushedTags
    BY <1>1 DEF PushedTags
<1>5. CASE t \notin Tag \cap new
    <2>1. Coming' \subseteq Coming
        BY <1>2, <1>3, <1>5 DEF Coming
    <2> QED BY <1>4, <2>1, NoMoreTags
<1>6. CASE t \in Tag \cap new
    <2> DEFINE tags == {r \in Rows : r[2] \in Tag}
    <2>1. EnsureArtifactTagLimitForInsert
        BY <1>1, <1>6
    <2>2. PushedTags \subseteq tags
        BY DEF PushedTags, Rows, Row, Name
    <2>3. tags \subseteq Artifact \X Tag
        BY DEF Rows, Row
    <2> HIDE DEF tags
    <2>4. IsFiniteSet(tags)
        BY <2>3, FS_Product, FS_Subset DEF RegistryAssumption
    <2>5. Cardinality(PushedTags) <= Cardinality(tags) /\ Cardinality(tags) \in Nat
        BY <2>2, <2>4, FS_Subset, FS_CardinalityType
    <2>6. Cardinality(tags) > 0 => Cardinality(tags) + 1 < Limit
        BY <2>1 DEF EnsureArtifactTagLimitForInsert, tags
    <2>7. Limit \in Nat /\ Cardinality(Session) \in Nat /\ Cardinality(PushedTags) \in Nat
          /\ Cardinality(Coming') \in Nat /\ Cardinality(Coming') <= Cardinality(Session)
        BY TagsFinite, TagsFiniteNext DEF RegistryAssumption
    <2>8. Cardinality(PushedTags) + Cardinality(Coming') <= Bound
        BY <2>5, <2>6, <2>7 DEF Bound
    <2> QED BY <1>4, <2>8 DEF TagsCounted, Bound
<1> QED BY <1>5, <1>6

(* A push that writes: its tag is counted with the tags now.                *)
LEMMA TagWritten ==
    ASSUME RegistryAssumption, Whole, TagsCounted, NEW s \in Session, CreateArtifactVersion(s)
    PROVE  TagsCounted'
<1> DEFINE q == tx[s]
           written == {q.a} \X (q.new \cup ({q.t} \cap Tag))
<1>1. Putting(q) /\ q # Nil /\ q.op = "put"
    BY RequestKinds DEF CreateArtifactVersion, Whole
<1>2. /\ q.a \in Artifact /\ q.m \in Manifest /\ q.new \subseteq {q.m, q.t} /\ q.t \in Tag \cup {q.m}
    BY <1>1 DEF Putting
<1>3. /\ artifact' = [artifact EXCEPT ![q.a] = IF @ = Nil THEN "pushed" ELSE @]
      /\ version' = [r \in Row |-> IF r \in written THEN q.m ELSE version[r]]
      /\ tx' = [tx EXCEPT ![s] = Nil]
      /\ \A n \in Name : <<q.a, n>> \in written => ((n \in q.new) <=> (version[<<q.a, n>>] = Nil))
    BY DEF CreateArtifactVersion
<1>4. \A t \in Tag : t \in Name /\ t # q.m
    BY <1>2 DEF Name, RegistryAssumption
<1>5. \A a \in Artifact, n \in Name : <<a, n>> \in written <=> a = q.a /\ n \in q.new \cup ({q.t} \cap Tag)
    OBVIOUS
<1>6. tx' = [o \in Session |-> IF o = s THEN Nil ELSE tx[o]]
    BY <1>3 DEF Whole, RequestsOK
<1>7. Coming' \subseteq Coming \ {s}
    BY <1>6 DEF Coming
<1> HIDE DEF written, q
<1>8. ASSUME NEW a \in Artifact, NEW t \in Tag, <<a, t>> \in PushedTags'
      PROVE  <<a, t>> \in PushedTags \/ (a = q.a /\ t = q.t /\ q.t \in Tag \cap q.new)
    <2>1. version'[<<a, t>>] # Nil /\ artifact'[a] = "pushed" /\ <<a, t>> \in Row /\ t \in Name
        BY <1>4, <1>8 DEF PushedTags, Row
    <2>2. CASE version[<<a, t>>] = Nil
        BY <1>2, <1>3, <1>4, <1>5, <2>1, <2>2
    <2>3. CASE version[<<a, t>>] # Nil
        <3>1. artifact[a] # Nil
            BY <2>1, <2>3 DEF Whole, TablesWhole, RowsHaveArtifact
        <3>2. artifact[a] = "pushed"
            BY <1>3, <2>1, <3>1 DEF Whole, TablesWhole, RowsOK
        <3> QED BY <2>3, <3>2 DEF PushedTags
    <2> QED BY <2>2, <2>3
<1>9. PushedTags' \subseteq Artifact \X Tag
    BY DEF PushedTags
<1>10. CASE q.t \notin Tag \cap q.new
    <2>1. PushedTags' \subseteq PushedTags
        BY <1>8, <1>9, <1>10
    <2> QED BY <1>7, <2>1, NoMoreTags
<1>11. CASE q.t \in Tag \cap q.new
    <2> DEFINE p == <<q.a, q.t>>
    <2>1. PushedTags' \subseteq PushedTags \cup {p}
        BY <1>8, <1>9
    <2> HIDE DEF p
    <2>2. s \in Coming
        BY <1>1, <1>11 DEF Coming, q
    <2>3. Cardinality(PushedTags \cup {p}) <= Cardinality(PushedTags) + 1
          /\ IsFiniteSet(PushedTags \cup {p})
        <3>1. IsFiniteSet(PushedTags) /\ Cardinality(PushedTags) \in Nat
            BY TagsFinite
        <3>2. /\ IsFiniteSet(PushedTags \cup {p})
              /\ Cardinality(PushedTags \cup {p})
                    = IF p \in PushedTags THEN Cardinality(PushedTags) ELSE Cardinality(PushedTags) + 1
            BY <3>1, FS_AddElement
        <3> QED BY <3>1, <3>2
    <2>4. Cardinality(PushedTags') <= Cardinality(PushedTags \cup {p})
        BY <2>1, <2>3, FS_Subset
    <2>5. Cardinality(Coming \ {s}) = Cardinality(Coming) - 1 /\ IsFiniteSet(Coming \ {s})
        BY <2>2, TagsFinite, FS_RemoveElement
    <2>6. Cardinality(Coming') <= Cardinality(Coming \ {s})
        BY <1>7, <2>5, FS_Subset
    <2>7. Cardinality(PushedTags \cup {p}) \in Nat
        BY <2>3, FS_CardinalityType
    <2>8. Limit \in Nat /\ Cardinality(Session) \in Nat
        BY TagsFinite DEF RegistryAssumption
    <2> QED BY <2>3, <2>4, <2>5, <2>6, <2>7, <2>8, TagsFinite, TagsFiniteNext DEF TagsCounted, Bound
<1> QED BY <1>10, <1>11

LEMMA TagsNext ==
    ASSUME RegistryAssumption, Whole, TagsCounted, [Next]_vars
    PROVE  TagsCounted'
<1>1. ASSUME NoPush PROVE TagsCounted'
    <2>1. PushedTags' \subseteq PushedTags
        <3> SUFFICES ASSUME NEW r \in PushedTags' PROVE r \in PushedTags
            OBVIOUS
        <3>1. PICK a \in Artifact, t \in Tag : r = <<a, t>> /\ version'[<<a, t>>] # Nil /\ artifact'[a] = "pushed"
            BY DEF PushedTags
        <3>2. t \in Name
            BY DEF Name
        <3> QED BY <1>1, <3>1, <3>2 DEF NoPush, NoRowPushed, PushedTags
    <2>2. Coming' \subseteq Coming
        BY <1>1 DEF NoPush, NoPutBegun, Coming
    <2> QED BY <2>1, <2>2, NoMoreTags
<1> QED BY <1>1, StepKinds, TagRead, TagWritten

-----------------------------------------------------------------------------
(* Pulls.                                                                   *)

(* What is pulled by digest is the manifest that the check covered: its     *)
(* row names nothing else, whatever has been pushed or deleted since.       *)
LEMMA PulledNext ==
    ASSUME RegistryAssumption, Whole, PulledWasGranted, [Next]_vars
    PROVE  PulledWasGranted'
<1>1. CASE pulled' = pulled
    BY <1>1 DEF PulledWasGranted
<1>2. ASSUME NEW s \in Session, handleGet(s) PROVE PulledWasGranted'
    <2> DEFINE q == tx[s]
               m == version[<<q.a, q.n>>]
    <2>1. /\ q # Nil /\ q.op = "pull" /\ m # Nil
          /\ pulled' = pulled \cup {[x |-> q.n, granted |-> m \in q.covered]}
        BY <1>2 DEF handleGet, GetArtifactVersion
    <2>2. Pulling(q)
        BY <2>1, RequestKinds DEF Whole
    <2>3. q.n \in Name /\ q.a \in Artifact /\ (q.n \in Manifest => q.n \in q.covered)
        BY <2>2 DEF Pulling
    <2>4. q.n \notin Tag => m = q.n /\ m \in q.covered
        BY <2>1, <2>3 DEF Name, Whole, TablesWhole, DigestNamesItself
    <2> HIDE DEF q, m
    <2> SUFFICES ASSUME NEW p \in pulled', p.x \notin Tag PROVE p.granted
        BY DEF PulledWasGranted
    <2>5. CASE p \in pulled
        BY <2>5 DEF PulledWasGranted
    <2>6. CASE p = [x |-> q.n, granted |-> m \in q.covered]
        <3>1. p.x = q.n /\ p.granted = (m \in q.covered)
            BY <2>6
        <3> QED BY <2>4, <3>1
    <2> QED BY <2>1, <2>5, <2>6
<1>3. ASSUME NEW c \in Customer, NEW a \in Artifact, NEW b \in Blob, GetBlob(c, a, b) PROVE PulledWasGranted'
    <2>1. pulled' = pulled \cup {[x |-> b, granted |-> Covered(c, b)]} /\ Covered(c, b)
        BY <1>3, BlobCovered DEF GetBlob
    <2> QED BY <2>1 DEF PulledWasGranted
<1>4. CASE Entitling \/ CleanUp \/ UNCHANGED vars
    BY <1>1, <1>4, WholeEntitling, WholeCleanUp DEF vars, past
<1>5. CASE Push \/ Removal \/ Sync
    <2>1. pulled' = pulled
        <3>1. CASE Push
            BY <3>1 DEF Push, StartSession, PutChunk, CompleteSession, PutRead, CreateArtifactVersion, GiveUp, past
        <3>2. CASE Removal
            BY <3>2 DEF Removal, DeleteTagRead, DeleteArtifactRead, DeleteArtifactVersion, DeleteArtifactWithID,
                        past
        <3>3. CASE Sync
            BY <3>3 DEF Sync, CreateArtifact, UpstreamMoves, SyncTag, UpsertArtifactVersionForSync,
                        BulkUpsertArtifactVersionParts, UpdateArtifactSyncStatus, past
        <3> QED BY <1>5, <3>1, <3>2, <3>3
    <2> QED BY <1>1, <2>1
<1>6. CASE Pull
    <2>1. ASSUME NEW s \in Session, NEW c \in Customer, NEW a \in Artifact, NEW n \in Name,
                 AuthorizeReference(s, c, a, n)
          PROVE  pulled' = pulled
        BY <2>1 DEF AuthorizeReference, past
    <2> QED BY <1>1, <1>2, <1>3, <1>6, <2>1 DEF Pull
<1> QED BY <1>4, <1>5, <1>6 DEF Next

-----------------------------------------------------------------------------
(* The invariant, and what it says.                                         *)

LEMMA InvInit == ASSUME RegistryAssumption, Init PROVE RegistryInv
<1>1. Whole
    BY WholeInit
<1>2. \A r \in Row : version[r] = Nil
    BY DEF Init
<1>3. SweepOK /\ BlobsSpared /\ PulledWasGranted
    BY <1>2 DEF Init, SweepOK, BlobsSpared, PulledWasGranted, Row
<1>4. PushedTags = {} /\ Coming = {}
    BY <1>2 DEF Init, PushedTags, Coming, Row, Name
<1>5. Cardinality(PushedTags) = 0 /\ Cardinality(Coming) = 0
    BY <1>4, FS_EmptySet
<1>6. TagsCounted
    BY <1>5, TagsFinite DEF TagsCounted, Bound, RegistryAssumption
<1> QED BY <1>1, <1>3, <1>6 DEF RegistryInv

LEMMA InvNext == ASSUME RegistryAssumption, RegistryInv, [Next]_vars PROVE RegistryInv'
BY WholeNext, SweepNext, SparedNext, TagsNext, PulledNext DEF RegistryInv

LEMMA InvSafe == ASSUME RegistryAssumption, RegistryInv PROVE RegistrySafe
<1>1. PushedIsComplete
    <2> SUFFICES ASSUME NEW a \in Artifact, NEW t \in Tag, Pushed(<<a, t>>)
                 PROVE  LET m == version[<<a, t>>]
                        IN  /\ version[<<a, m>>] = m
                            /\ parts[<<a, t>>] = Content[m] /\ parts[<<a, m>>] = Content[m]
        BY DEF PushedIsComplete
    <2> DEFINE m == version[<<a, t>>]
    <2>1. t \in Name /\ artifact[a] = "pushed" /\ m # Nil
        BY DEF Pushed, Name
    <2>2. m \in Manifest /\ m \in Name
        BY <2>1 DEF RegistryInv, Whole, TablesWhole, RowsOK, Row, Name
    <2>3. parts[<<a, t>>] = Content[m] /\ version[<<a, m>>] = m
        BY <2>1 DEF RegistryInv, Whole, TablesWhole, PushedRowsComplete
    <2> HIDE DEF m
    <2>4. parts[<<a, m>>] = Content[m]
        BY <2>1, <2>2, <2>3 DEF RegistryInv, Whole, TablesWhole, PushedRowsComplete
    <2> QED BY <2>3, <2>4 DEF m
<1>2. TagLimitHolds
    <2>1. {r \in Rows : r[2] \in Tag /\ artifact[r[1]] = "pushed"} = PushedTags
        BY DEF PushedTags, Rows, Row, Name
    <2>2. Cardinality(PushedTags) <= Bound
        BY TagsFinite DEF RegistryInv, TagsCounted, Bound, RegistryAssumption
    <2> QED BY <2>1, <2>2 DEF TagLimitHolds, Bound
<1>3. BlobsKept
    <2> SUFFICES ASSUME NEW r \in Rows, artifact[r[1]] = "pushed", NEW b \in parts[r] \cap Blob,
                        store[b] = "absent"
                 PROVE  b \in exposed
        BY DEF BlobsKept
    <2>1. PICK a \in Artifact, n \in Name : r = <<a, n>> /\ version[<<a, n>>] # Nil
        BY DEF Rows, Row
    <2> QED BY <2>1 DEF RegistryInv, BlobsSpared, Spared
<1>4. ShownIsPullable
    BY Shown DEF RegistryInv
<1> QED BY <1>1, <1>2, <1>3, <1>4 DEF RegistryInv, RegistrySafe

LEMMA InvKeepsTags == ASSUME RegistryAssumption, RegistryInv, [Next]_vars PROVE PushedTagKept
<1> SUFFICES ASSUME NEW a \in Artifact, NEW t \in Tag, Pushed(<<a, t>>), version'[<<a, t>>] # Nil, ~Mutable
             PROVE  version'[<<a, t>>] = version[<<a, t>>]
    BY DEF PushedTagKept
<1>1. t \in Name /\ version[<<a, t>>] # Nil /\ artifact[a] = "pushed" /\ <<a, t>> \in Row
    BY DEF Pushed, Name, Row
<1>2. CASE NoPush
    BY <1>1, <1>2 DEF NoPush, NoTagMoved
<1>3. ASSUME NEW s \in Session, NEW o \in Artifact, NEW m \in Manifest, NEW n \in Name, PutRead(s, o, n, m)
      PROVE  version' = version
    BY <1>3 DEF PutRead, rows
<1>4. ASSUME NEW s \in Session, CreateArtifactVersion(s) PROVE version'[<<a, t>>] = version[<<a, t>>]
    <2> DEFINE q == tx[s]
               written == {q.a} \X (q.new \cup ({q.t} \cap Tag))
    <2>1. Putting(q)
        BY <1>4, RequestKinds DEF CreateArtifactVersion, RegistryInv, Whole
    <2>2. q.m \in Manifest /\ q.new \subseteq {q.m, q.t} /\ (q.t \in Tag => q.t \in q.new)
        BY <2>1 DEF Putting
    <2>3. /\ version' = [r \in Row |-> IF r \in written THEN q.m ELSE version[r]]
          /\ \A n \in Name : <<q.a, n>> \in written => ((n \in q.new) <=> (version[<<q.a, n>>] = Nil))
        BY <1>4 DEF CreateArtifactVersion
    <2>4. <<a, t>> \in written => a = q.a /\ t \in q.new
        BY <2>2 DEF RegistryAssumption
    <2> HIDE DEF q, written
    <2> QED BY <1>1, <2>3, <2>4
<1> QED BY <1>2, <1>3, <1>4, StepKinds DEF RegistryInv

(***************************************************************************)
(* The registry keeps its promises: pushed versions are complete, limits    *)
(* are overrun only by pushes that checked them together, blobs that are    *)
(* needed are kept, customers get what was granted (internal/db/            *)
(* artifacts.go, internal/registry, internal/cleanup/artifact_blobs.go).    *)
(***************************************************************************)
THEOREM RegistryKeepsItsPromises == ASSUME RegistryAssumption PROVE Spec => []RegistrySafe
<1>1. Init => RegistryInv
    BY InvInit
<1>2. RegistryInv /\ [Next]_vars => RegistryInv'
    BY InvNext
<1>3. RegistryInv => RegistrySafe
    BY InvSafe
<1> QED BY <1>1, <1>2, <1>3, PTL DEF Spec

(***************************************************************************)
(* Pushes that race for a tag cannot both win: where tags are not mutable,  *)
(* no step moves a pushed tag (internal/registry/manifest/db/handler.go).   *)
(***************************************************************************)
THEOREM PushedTagsStay == ASSUME RegistryAssumption PROVE Spec => TagsStay
<1>1. Init => RegistryInv
    BY InvInit
<1>2. RegistryInv /\ [Next]_vars => RegistryInv'
    BY InvNext
<1>3. RegistryInv /\ [Next]_vars => [PushedTagKept]_vars
    BY InvKeepsTags
<1> QED BY <1>1, <1>2, <1>3, PTL DEF Spec, TagsStay
=============================================================================
