-------------------------- MODULE TimestampExpand --------------------------
(***************************************************************************)
(* The expansion of the external execution timestamps (migration 138 and   *)
(* internal/db/external_execution_timestamps.go).  Under schema 137 a      *)
(* timestamp is a wall clock without a zone.  The migration adds an empty  *)
(* instant beside each; manifests, each superseding the one before, give   *)
(* instants to historical wall clocks for which there is evidence; a hub   *)
(* serves only if all timestamps are accounted for.                        *)
(*                                                                         *)
(* Of the six columns the model keeps one of each behaviour: created_at    *)
(* ("created", like callback_deadline_at and the events' created_at),      *)
(* updated_at ("updated") and completed_at ("done", like started_at).      *)
(* 0 is NULL.  Hubs of schema 137 write wall clocks of a zone that is Zone *)
(* ahead of UTC; Zone exceeds every clock reading, so a historical wall    *)
(* clock and a later UTC one are never the same number.                    *)
(*                                                                         *)
(* A transaction's CURRENT_TIMESTAMP is its start, which is a step of its  *)
(* own.  apply holds an advisory lock and locks the tables against every   *)
(* writer, so it is one step; a failure or a crash before its commit       *)
(* changes nothing, and neither does a retry after it.                     *)
(***************************************************************************)
EXTENDS Integers, Sequences, FiniteSets

CONSTANTS Rows,
          Writers,          \* transactions of the serving hub
          Zone,             \* offset of the wall clocks before the expansion
          Offsets,          \* offsets that a manifest's evidence may name
          CleanupAnyTime,   \* the cleanup command also runs before readiness
          MaxClock,         \* bound: last reading of the database's clock
          MaxManifests      \* bound: length of the manifest chain
Cols == {"created", "updated", "done"}

ASSUME ClockAssumption ==
  /\ MaxClock \in Nat \ {0} /\ Zone \in Nat /\ Zone >= MaxClock
  /\ Offsets \subseteq Int

VARIABLES clock,
          schema,    \* 137 or 138
          expand,    \* ExternalExecutionTimestampExpandState
          life, cell,
          tomb,      \* deletion tombstones
          chain,     \* VERIFIED manifests from the root to the tip
          snapshot,  \* the raw cells that the last inspect exported
          checked,   \* the migration's preflight has passed
          serving, txn

source == <<life, cell, tomb>>
hub == <<serving, txn>>
vars == <<clock, schema, expand, life, cell, tomb, chain, snapshot, checked, serving, txn>>

NoExpand == [kind |-> "NONE", count |-> 0, at |-> 0]
NoRow == [c \in Cols |-> [raw |-> 0, inst |-> 0]]
Unresolved == -1

Live == {r \in Rows : life[r] = "live"}
Deleted == {r \in Rows : life[r] = "deleted"}
Tick == clock < MaxClock /\ clock' = clock + 1

Init ==
  /\ clock = 1
  /\ schema = 137 /\ expand = NoExpand
  /\ life = [r \in Rows |-> "none"]
  /\ cell = [r \in Rows |-> NoRow]
  /\ tomb = [r \in Rows |-> [row |-> NoRow, at |-> 0]]
  /\ chain = << >>
  /\ snapshot = [raw |-> << >>, endedAt |-> 0]
  /\ checked = FALSE
  /\ serving = FALSE /\ txn = [w \in Writers |-> 0]

-----------------------------------------------------------------------------
(* Verification of the timestamps that are in the database.                *)

requireExactUTCTimestampPair(v) == v.raw = v.inst

\* created is the row's creation instant; NULL is before every baseline.
verifyPostBaselineTimestampCell(row, c, baseline) ==
  /\ row["created"].inst # 0
  /\ row["created"].inst >= baseline
  /\ requireExactUTCTimestampPair(row[c])

\* raw and d are the wall clock and the decision that the manifest records.
verifyHistoricalTimestampCell(raw, d, c, v, baseline) ==
  \/ /\ v.raw = raw
     /\ v.inst = IF d = Unresolved THEN 0 ELSE d
  \/ /\ v.raw # raw
     /\ c = "updated" \/ (c = "done" /\ raw = 0)
     /\ requireExactUTCTimestampPair(v)
     /\ v.inst # 0 /\ v.inst >= baseline

\* The manifests up to the i-th that turned an unresolved cell into a resolved one.
Promoting(i, r, c) ==
  {j \in 2..i : chain[j - 1].dec[r][c] = Unresolved /\ chain[j].dec[r][c] # Unresolved}

verifyDeletedHistoricalTimestampCell(i, r, c, baseline) ==
  LET m == chain[i]
      t == tomb[r]
  IN IF /\ Promoting(i, r, c) # {}
        /\ t.row[c].inst = 0 /\ t.row[c].raw = m.raw[r][c]
     THEN \A j \in Promoting(i, r, c) : t.at < chain[j].appliedAt
     ELSE verifyHistoricalTimestampCell(m.raw[r][c], m.dec[r][c], c, t.row[c], baseline)

lifecycleBaseline_Fault == chain[Len(chain)].verifiedAt

\* However long the chain, the baseline is the verification of its root.
lifecycleBaseline == chain[1].verifiedAt

Historical(i) == DOMAIN chain[i].raw

verifyManifest(i) ==
  /\ \A r \in Historical(i), c \in Cols :
       \/ /\ r \in Live
          /\ verifyHistoricalTimestampCell(chain[i].raw[r][c], chain[i].dec[r][c], c,
                                           cell[r][c], lifecycleBaseline)
       \/ /\ r \in Deleted
          /\ verifyDeletedHistoricalTimestampCell(i, r, c, lifecycleBaseline)
  /\ \A r \in Live \ Historical(i), c \in Cols :
       verifyPostBaselineTimestampCell(cell[r], c, lifecycleBaseline)
  /\ \A r \in Deleted \ Historical(i), c \in Cols :
       verifyPostBaselineTimestampCell(tomb[r].row, c, lifecycleBaseline)

rootMatchesExpandState(count, endedAt) ==
  /\ expand.kind = "MANIFEST_REQUIRED"
  /\ count = expand.count
  /\ endedAt <= expand.at

checkZeroHistory ==
  /\ chain = << >>
  /\ \A r \in Live, c \in Cols : verifyPostBaselineTimestampCell(cell[r], c, expand.at)
  /\ \A r \in Deleted, c \in Cols : verifyPostBaselineTimestampCell(tomb[r].row, c, expand.at)

validSupersession(m, dec) ==
  \A r \in DOMAIN m.raw, c \in Cols :
    \/ dec[r][c] = m.dec[r][c]
    \/ m.dec[r][c] = Unresolved /\ dec[r][c] # 0

checkManifestReadiness ==
  /\ chain # << >>
  /\ \A i \in 2..Len(chain) :
       chain[i].raw = chain[i - 1].raw /\ validSupersession(chain[i - 1], chain[i].dec)
  /\ rootMatchesExpandState(Cardinality(DOMAIN chain[1].raw), chain[1].endedAt)
  /\ verifyManifest(Len(chain))

\* RequireExternalExecutionTimestampExpandReadiness, the gate of serve.
Ready ==
  /\ schema = 138
  /\ \/ expand.kind = "ZERO_HISTORY" /\ checkZeroHistory
     \/ expand.kind = "MANIFEST_REQUIRED" /\ checkManifestReadiness

-----------------------------------------------------------------------------
(* Schema 137.                                                             *)

OldInsert(r) ==
  /\ schema = 137 /\ life[r] = "none"
  /\ Tick
  /\ life' = [life EXCEPT ![r] = "live"]
  /\ cell' = [cell EXCEPT ![r]["created"].raw = clock + Zone,
                          ![r]["updated"].raw = clock + Zone]
  /\ UNCHANGED <<schema, expand, tomb, chain, snapshot, hub, checked>>

OldComplete(r) ==
  /\ schema = 137 /\ r \in Live /\ cell[r]["done"].raw = 0
  /\ Tick
  /\ cell' = [cell EXCEPT ![r]["updated"].raw = clock + Zone,
                          ![r]["done"].raw = clock + Zone]
  /\ UNCHANGED <<schema, expand, life, tomb, chain, snapshot, hub, checked>>

RawSnapshot == [r \in Live |-> [c \in Cols |-> cell[r][c].raw]]

\* An export is of use only until there is a root, so later ones are left out.
Inspect ==
  /\ chain = << >> /\ expand.kind # "ZERO_HISTORY"
  /\ snapshot' = [raw |-> RawSnapshot, endedAt |-> clock]
  /\ UNCHANGED <<clock, schema, expand, source, chain, hub, checked>>

\* Migrations run while the writers are fenced off: see deploy.sh.
Fenced == ~serving

\* A crossing with history needs a manifest of exactly the rows that are there.
Preflight ==
  /\ Fenced /\ schema = 137 /\ ~checked
  /\ Live = {} \/ snapshot.raw = RawSnapshot
  /\ checked' = TRUE
  /\ UNCHANGED <<clock, schema, expand, source, chain, snapshot, hub>>

ExpandUp ==
  /\ Fenced /\ checked
  /\ schema' = 138 /\ checked' = FALSE
  /\ expand' = [kind |-> IF Live = {} THEN "ZERO_HISTORY" ELSE "MANIFEST_REQUIRED",
                count |-> Cardinality(Live), at |-> clock]
  /\ Tick
  /\ UNCHANGED <<source, chain, snapshot, hub>>

CanContract_Fault ==
  /\ chain = << >>
  /\ expand.kind = "ZERO_HISTORY" => Live = {}

CanContract ==
  /\ chain = << >>
  /\ Deleted = {}
  /\ expand.kind = "ZERO_HISTORY" => Live = {}

ExpandDown ==
  /\ Fenced /\ schema = 138
  /\ CanContract
  /\ schema' = 137
  /\ expand' = NoExpand
  /\ cell' = [r \in Rows |-> [c \in Cols |-> [cell[r][c] EXCEPT !.inst = 0]]]
  /\ tomb' = [r \in Rows |-> [row |-> NoRow, at |-> 0]]
  /\ life' = [r \in Rows |-> IF life[r] = "deleted" THEN "gone" ELSE life[r]]
  /\ UNCHANGED <<clock, chain, snapshot, hub, checked>>

-----------------------------------------------------------------------------
(* Manifests.                                                              *)

CanApplyRoot ==
  /\ rootMatchesExpandState(Cardinality(DOMAIN snapshot.raw), snapshot.endedAt)
  /\ snapshot.raw = RawSnapshot
  /\ \A r \in Live, c \in Cols : cell[r][c].inst = 0

\* A wall clock is converted with the offset that the evidence names.
ConvertWallClock(raw, offset) == raw - offset

\* The decisions of a valid document: an offset resolves a wall clock, NULL stays NULL.
Documents(raw) ==
  {[r \in DOMAIN raw |-> [c \in Cols |->
      IF raw[r][c] = 0 THEN 0
      ELSE IF o[r][c] = Unresolved THEN Unresolved
      ELSE ConvertWallClock(raw[r][c], o[r][c])]] :
    o \in [DOMAIN raw -> [Cols -> Offsets \cup {Unresolved}]]}

Manifest(raw, dec, endedAt) ==
  [raw |-> raw, dec |-> dec, endedAt |-> endedAt, appliedAt |-> clock, verifiedAt |-> clock]

Fill(todo, dec) ==
  cell' = [r \in Rows |-> [c \in Cols |->
             IF <<r, c>> \in todo THEN [cell[r][c] EXCEPT !.inst = dec[r][c]] ELSE cell[r][c]]]

ApplyRoot ==
  /\ schema = 138 /\ chain = << >>
  /\ CanApplyRoot
  /\ \E dec \in Documents(snapshot.raw) :
       /\ chain' = <<Manifest(snapshot.raw, dec, snapshot.endedAt)>>
       /\ Fill({p \in Live \X Cols : dec[p[1]][p[2]] \notin {0, Unresolved}}, dec)
  /\ Tick
  /\ UNCHANGED <<schema, expand, life, tomb, snapshot, hub, checked>>

\* Promoted cells whose shadow is filled: the ones that still read as recorded.
promotedFill(parent, dec) ==
  {p \in Historical(parent) \X Cols :
    /\ chain[parent].dec[p[1]][p[2]] = Unresolved /\ dec[p[1]][p[2]] # Unresolved
    /\ p[1] \in Live /\ cell[p[1]][p[2]].raw = chain[parent].raw[p[1]][p[2]]}

\* A deleted cell is promoted on record only, and only if it had not moved.
deletedPromotable(parent, dec) ==
  \A r \in Historical(parent) \cap Deleted, c \in Cols :
    chain[parent].dec[r][c] = Unresolved /\ dec[r][c] # Unresolved =>
      /\ tomb[r].row[c].raw = chain[parent].raw[r][c]
      /\ tomb[r].row[c].inst = 0

supersedesTip(parent) == parent = Len(chain)

Supersede(parent) ==
  /\ schema = 138 /\ Len(chain) < MaxManifests
  /\ supersedesTip(parent)
  /\ verifyManifest(Len(chain))
  /\ \E dec \in Documents(chain[parent].raw) :
       /\ validSupersession(chain[parent], dec)
       /\ deletedPromotable(parent, dec)
       /\ \A p \in promotedFill(parent, dec) : cell[p[1]][p[2]].inst = 0
       /\ chain' = Append(chain, Manifest(chain[parent].raw, dec, chain[parent].endedAt))
       /\ Fill(promotedFill(parent, dec), dec)
  /\ Tick
  /\ UNCHANGED <<schema, expand, life, tomb, snapshot, hub, checked>>

-----------------------------------------------------------------------------
(* The serving hub and retention.                                          *)

HubStart ==
  /\ Ready /\ ~serving
  /\ serving' = TRUE
  /\ UNCHANGED <<clock, schema, expand, source, chain, snapshot, txn, checked>>

HubStop ==
  /\ serving /\ serving' = FALSE
  /\ txn' = [w \in Writers |-> 0]
  /\ UNCHANGED <<clock, schema, expand, source, chain, snapshot, checked>>

Begin(w) ==
  /\ serving /\ txn[w] = 0
  /\ txn' = [txn EXCEPT ![w] = clock]
  /\ UNCHANGED <<clock, schema, expand, source, chain, snapshot, serving, checked>>

Now(w) == [raw |-> txn[w], inst |-> txn[w]]
End(w) == txn' = [txn EXCEPT ![w] = 0]

WriteInsert(w, r) ==
  /\ txn[w] # 0 /\ life[r] = "none"
  /\ life' = [life EXCEPT ![r] = "live"]
  /\ cell' = [cell EXCEPT ![r]["created"] = Now(w), ![r]["updated"] = Now(w)]
  /\ End(w)
  /\ UNCHANGED <<clock, schema, expand, tomb, chain, snapshot, serving, checked>>

WriteUpdate(w, r) ==
  /\ txn[w] # 0 /\ r \in Live
  /\ \/ cell' = [cell EXCEPT ![r]["updated"] = Now(w)]
     \/ /\ cell[r]["done"].raw = 0
        /\ cell' = [cell EXCEPT ![r]["updated"] = Now(w), ![r]["done"] = Now(w)]
  /\ End(w)
  /\ UNCHANGED <<clock, schema, expand, life, tomb, chain, snapshot, serving, checked>>

\* external_execution_timestamp_capture_deletion keeps every cell of the row.
captureDeletion(r) == cell[r]

Retention(r) ==
  /\ serving \/ schema = 137 \/ CleanupAnyTime
  /\ r \in Live
  /\ IF schema = 137
     THEN life' = [life EXCEPT ![r] = "gone"] /\ UNCHANGED tomb
     ELSE /\ life' = [life EXCEPT ![r] = "deleted"]
          /\ tomb' = [tomb EXCEPT ![r] = [row |-> captureDeletion(r), at |-> clock]]
  /\ cell' = [cell EXCEPT ![r] = NoRow]
  /\ Tick
  /\ UNCHANGED <<schema, expand, chain, snapshot, hub, checked>>

Next ==
  \/ Inspect \/ Preflight \/ ExpandUp \/ ExpandDown \/ ApplyRoot \/ HubStart \/ HubStop
  \/ \E i \in DOMAIN chain : Supersede(i)
  \/ \E r \in Rows : OldInsert(r) \/ OldComplete(r) \/ Retention(r)
  \/ \E w \in Writers : Begin(w) \/ \E r \in Rows : WriteInsert(w, r) \/ WriteUpdate(w, r)

Spec == Init /\ [][Next]_vars

-----------------------------------------------------------------------------
Values == Unresolved..(MaxClock + Zone)
Row == [Cols -> [raw : Values, inst : Values]]

\* The state keeps its shape, and a hub serves only under the expanded schema.
ExpandTypeOK ==
  /\ clock \in 1..MaxClock
  /\ schema \in {137, 138} /\ (serving => schema = 138)
  /\ expand \in [kind : {"NONE", "ZERO_HISTORY", "MANIFEST_REQUIRED"},
                 count : 0..Cardinality(Rows), at : 0..MaxClock]
  /\ life \in [Rows -> {"none", "live", "deleted", "gone"}]
  /\ cell \in [Rows -> Row]
  /\ tomb \in [Rows -> [row : Row, at : 0..MaxClock]]
  /\ Len(chain) <= MaxManifests
  /\ txn \in [Writers -> 0..MaxClock]

\* A database that passed the readiness gate goes on passing it: no write of a
\* hub, however old its transaction, no retention and no further manifest makes
\* a later start of serve fail.
ReadyStaysReady == [][Ready /\ schema' = 138 => Ready']_vars

\* Along the chain a decision that was made is never made again differently,
\* and every manifest speaks of the same wall clocks.
DecisionsKept ==
  \A i, j \in DOMAIN chain : i < j =>
    /\ chain[i].raw = chain[j].raw
    /\ \A r \in Historical(i), c \in Cols :
         chain[i].dec[r][c] # Unresolved => chain[j].dec[r][c] = chain[i].dec[r][c]

\* A database that still needs its first manifest can either be given one or go
\* back to schema 137 (docs/fork/PR-054A: tenant cleanup does not invalidate
\* other tenants).
NeverStranded ==
  expand.kind = "MANIFEST_REQUIRED" /\ chain = << >> /\ Live # {} => CanApplyRoot \/ CanContract

Ledger == INSTANCE TimestampLedger WITH
  Fixed <- {"created"}, OneShot <- {"done"}, Mutable <- {"updated"},
  kept <- schema = 138, fate <- life,
  cell <- [r \in Rows |-> IF life[r] = "deleted" THEN tomb[r].row ELSE cell[r]]

\* Migration, manifests, writers and retention together implement the ledger:
\* nothing is lost, and an instant is given to a wall clock at most once.
ImplementsLedger == Ledger!Spec
=============================================================================
