-------------------------- MODULE Migration_proofs --------------------------
(***************************************************************************)
(* The expansion of the external execution timestamps, for every set of     *)
(* rows, writers and offsets: it implements the ledger, decisions are kept  *)
(* along the chain of manifests, a database is never stranded between two   *)
(* schemas, and one that is ready stays ready.  And the recovery of a dirty *)
(* migration marker, for every set of processes: a clean marker is true.    *)
(* The module extends MCMigration, where the two parts meet and the         *)
(* property of both, MigrationSafe, is stated.                              *)
(***************************************************************************)
EXTENDS MCMigration, SequenceTheorems, TLAPS

-----------------------------------------------------------------------------
(* The inductive invariant.                                                 *)

Cell == [raw : Int, inst : Int]
Cells == [Cols -> Cell]
Readings == UNION {[D -> [Cols -> Int]] : D \in SUBSET Rows}
Manifests == [raw : Readings, dec : Readings, endedAt : Int, appliedAt : Nat, verifiedAt : Nat]

Shape ==
  /\ clock \in 1..MaxClock
  /\ schema \in {137, 138}
  /\ life \in [Rows -> {"none", "live", "deleted", "gone"}]
  /\ cell \in [Rows -> Cells]
  /\ tomb \in [Rows -> [row : Cells, at : Nat]]
  /\ expand.at \in Nat /\ expand.kind \in {"NONE", "ZERO_HISTORY", "MANIFEST_REQUIRED"}
  /\ chain \in Seq(Manifests)
  /\ txn \in [Writers -> Nat]
  /\ snapshot.endedAt \in Int

(* Since the expansion, and until there is a root manifest.                 *)
Rootless == expand.kind = "MANIFEST_REQUIRED" /\ chain = << >>

(* Which schema there is decides what else there can be.  No hub serves     *)
(* before the root manifest, so until then no cell has an instant.          *)
Phases ==
  /\ schema = 137 => chain = << >> /\ expand.kind = "NONE"
  /\ schema = 138 => expand.kind # "NONE"
  /\ checked => schema = 137
  /\ serving => schema = 138 /\ ~Rootless
  /\ \A w \in Writers : txn[w] # 0 => serving

Untouched ==
  schema = 137 \/ Rootless =>
    \A r \in Rows, c \in Cols :
      /\ cell[r][c].inst = 0
      /\ cell[r][c].raw = 0 \/ cell[r][c].raw > MaxClock

DeletedLate == schema = 137 => Deleted = {}
BlankUnlessLive == \A r \in Rows : life[r] # "live" => cell[r] = NoRow

(* A manifest is of rows that existed, and decides nothing about NULL.      *)
ManifestOK(m) ==
  /\ DOMAIN m.dec = DOMAIN m.raw
  /\ \A r \in DOMAIN m.raw, c \in Cols :
       /\ m.raw[r][c] = 0 \/ m.raw[r][c] > MaxClock
       /\ m.raw[r][c] = 0 => m.dec[r][c] = 0
ManifestsOK == \A i \in DOMAIN chain : ManifestOK(chain[i]) /\ chain[i].verifiedAt <= clock
HistoryExisted == \A i \in DOMAIN chain : \A r \in DOMAIN chain[i].raw : life[r] # "none"

(* Transactions began after the baseline, deletions are past.               *)
Times ==
  /\ \A w \in Writers :
       /\ txn[w] <= clock
       /\ txn[w] # 0 => txn[w] >= expand.at /\ (chain # << >> => txn[w] >= chain[1].verifiedAt)
  /\ \A r \in Rows : tomb[r].at < clock
  /\ expand.at <= clock

ExpandInv ==
  /\ Shape /\ Phases /\ Untouched /\ DeletedLate /\ BlankUnlessLive
  /\ ManifestsOK /\ HistoryExisted /\ Times

-----------------------------------------------------------------------------
(* Cells that one statement writes.                                         *)

LEMMA OldInsertCells ==
  ASSUME Shape, NEW r \in Rows, OldInsert(r)
  PROVE  /\ cell' \in [Rows -> Cells]
         /\ \A s \in Rows \ {r} : cell'[s] = cell[s]
         /\ \A c \in Cols : /\ cell'[r][c].inst = cell[r][c].inst
                            /\ c # "done" => cell'[r][c].raw = clock + Zone
                            /\ c = "done" => cell'[r][c] = cell[r][c]
<1>1. cell' = [cell EXCEPT ![r]["created"].raw = clock + Zone, ![r]["updated"].raw = clock + Zone]
  BY DEF OldInsert
<1>2. cell[r] \in Cells /\ clock + Zone \in Int
  BY ClockAssumption DEF Shape
<1>3. \A c \in Cols : cell[r][c] \in Cell
  BY <1>2 DEF Cells
<1>. DEFINE new == [cell[r] EXCEPT !["created"].raw = clock + Zone, !["updated"].raw = clock + Zone]
<1>4. cell' = [cell EXCEPT ![r] = new]
  BY <1>1
<1>5. new \in Cells /\ \A c \in Cols : /\ new[c].inst = cell[r][c].inst
                                       /\ c # "done" => new[c].raw = clock + Zone
                                       /\ c = "done" => new[c] = cell[r][c]
  BY <1>2, <1>3 DEF Cells, Cell, Cols
<1>. HIDE DEF new
<1>. QED  BY <1>4, <1>5 DEF Shape

LEMMA OldCompleteCells ==
  ASSUME Shape, NEW r \in Rows, OldComplete(r)
  PROVE  /\ cell' \in [Rows -> Cells]
         /\ \A s \in Rows \ {r} : cell'[s] = cell[s]
         /\ \A c \in Cols : /\ cell'[r][c].inst = cell[r][c].inst
                            /\ c # "created" => cell'[r][c].raw = clock + Zone
                            /\ c = "created" => cell'[r][c] = cell[r][c]
<1>1. cell' = [cell EXCEPT ![r]["updated"].raw = clock + Zone, ![r]["done"].raw = clock + Zone]
  BY DEF OldComplete
<1>2. cell[r] \in Cells /\ clock + Zone \in Int
  BY ClockAssumption DEF Shape
<1>3. \A c \in Cols : cell[r][c] \in Cell
  BY <1>2 DEF Cells
<1>. DEFINE new == [cell[r] EXCEPT !["updated"].raw = clock + Zone, !["done"].raw = clock + Zone]
<1>4. cell' = [cell EXCEPT ![r] = new]
  BY <1>1
<1>5. new \in Cells /\ \A c \in Cols : /\ new[c].inst = cell[r][c].inst
                                       /\ c # "created" => new[c].raw = clock + Zone
                                       /\ c = "created" => new[c] = cell[r][c]
  BY <1>2, <1>3 DEF Cells, Cell, Cols
<1>. HIDE DEF new
<1>. QED  BY <1>4, <1>5 DEF Shape

LEMMA NowIsExact ==
  ASSUME Shape, NEW w \in Writers
  PROVE  Now(w) \in Cell /\ Now(w).raw = txn[w] /\ Now(w).inst = txn[w]
  BY DEF Shape, Now, Cell

(* A hub writes the start of its transaction, in both readings.             *)
LEMMA InsertCells ==
  ASSUME Shape, NEW w \in Writers, NEW r \in Rows, WriteInsert(w, r)
  PROVE  /\ cell' \in [Rows -> Cells]
         /\ \A s \in Rows \ {r} : cell'[s] = cell[s]
         /\ \A c \in Cols : cell'[r][c] = IF c = "done" THEN cell[r][c] ELSE Now(w)
<1>1. cell' = [cell EXCEPT ![r]["created"] = Now(w), ![r]["updated"] = Now(w)]
  BY DEF WriteInsert
<1>2. cell[r] \in Cells
  BY DEF Shape
<1>. DEFINE new == [cell[r] EXCEPT !["created"] = Now(w), !["updated"] = Now(w)]
<1>3. cell' = [cell EXCEPT ![r] = new]
  BY <1>1
<1>4. new \in Cells /\ \A c \in Cols : new[c] = IF c = "done" THEN cell[r][c] ELSE Now(w)
  BY <1>2, NowIsExact DEF Cells, Cols
<1>. HIDE DEF new
<1>. QED  BY <1>3, <1>4 DEF Shape

LEMMA UpdateCells ==
  ASSUME Shape, NEW w \in Writers, NEW r \in Rows, WriteUpdate(w, r)
  PROVE  /\ cell' \in [Rows -> Cells]
         /\ \A s \in Rows \ {r} : cell'[s] = cell[s]
         /\ cell'[r]["created"] = cell[r]["created"] /\ cell'[r]["updated"] = Now(w)
         /\ \/ cell'[r]["done"] = cell[r]["done"]
            \/ cell[r]["done"].raw = 0 /\ cell'[r]["done"] = Now(w)
<1>1. cell[r] \in Cells
  BY DEF Shape
<1>2. CASE cell' = [cell EXCEPT ![r]["updated"] = Now(w)]
  <2>. DEFINE new == [cell[r] EXCEPT !["updated"] = Now(w)]
  <2>1. cell' = [cell EXCEPT ![r] = new]
    BY <1>2
  <2>2. /\ new \in Cells /\ new["created"] = cell[r]["created"] /\ new["updated"] = Now(w)
        /\ new["done"] = cell[r]["done"]
    BY <1>1, NowIsExact DEF Cells, Cols
  <2>. HIDE DEF new
  <2>. QED  BY <2>1, <2>2 DEF Shape
<1>3. CASE /\ cell[r]["done"].raw = 0
           /\ cell' = [cell EXCEPT ![r]["updated"] = Now(w), ![r]["done"] = Now(w)]
  <2>. DEFINE new == [cell[r] EXCEPT !["updated"] = Now(w), !["done"] = Now(w)]
  <2>1. cell' = [cell EXCEPT ![r] = new]
    BY <1>3
  <2>2. /\ new \in Cells /\ new["created"] = cell[r]["created"] /\ new["updated"] = Now(w)
        /\ new["done"] = Now(w)
    BY <1>1, NowIsExact DEF Cells, Cols
  <2>. HIDE DEF new
  <2>3. cell'[r] = new /\ cell' \in [Rows -> Cells] /\ \A s \in Rows \ {r} : cell'[s] = cell[s]
    BY <2>1, <2>2 DEF Shape
  <2>4. cell[r]["done"].raw = 0 /\ cell'[r]["done"] = Now(w)
    BY <1>3, <2>2, <2>3
  <2>. QED  BY <2>2, <2>3, <2>4
<1>. QED  BY <1>2, <1>3 DEF WriteUpdate

(* A manifest fills cells, and only instants.                               *)
LEMMA FillCells ==
  ASSUME Shape, NEW todo, NEW dec, Fill(todo, dec),
         \A r \in Rows, c \in Cols : <<r, c>> \in todo => dec[r][c] \in Int
  PROVE  /\ cell' \in [Rows -> Cells]
         /\ \A r \in Rows, c \in Cols :
              /\ cell'[r][c].raw = cell[r][c].raw
              /\ <<r, c>> \in todo => cell'[r][c].inst = dec[r][c]
              /\ <<r, c>> \notin todo => cell'[r][c] = cell[r][c]
<1>1. cell' = [r \in Rows |-> [c \in Cols |->
                 IF <<r, c>> \in todo THEN [cell[r][c] EXCEPT !.inst = dec[r][c]] ELSE cell[r][c]]]
  BY DEF Fill
<1>2. ASSUME NEW r \in Rows, NEW c \in Cols
      PROVE  /\ cell'[r][c] \in Cell /\ cell'[r][c].raw = cell[r][c].raw
             /\ <<r, c>> \in todo => cell'[r][c].inst = dec[r][c]
             /\ <<r, c>> \notin todo => cell'[r][c] = cell[r][c]
  <2>1. cell[r][c] \in Cell
    BY DEF Shape, Cells
  <2>2. cell'[r][c] = IF <<r, c>> \in todo THEN [cell[r][c] EXCEPT !.inst = dec[r][c]]
                      ELSE cell[r][c]
    BY <1>1
  <2>. QED  BY <2>1, <2>2 DEF Cell
<1>3. cell' \in [Rows -> Cells]
  BY <1>1, <1>2 DEF Cells
<1>. QED  BY <1>2, <1>3

LEMMA NoRowCells == NoRow \in Cells /\ \A c \in Cols : NoRow[c].raw = 0 /\ NoRow[c].inst = 0
  BY DEF NoRow, Cells, Cell

(* The documents of a reading: NULL stays NULL.                             *)
LEMMA DocumentsDecide ==
  ASSUME NEW raw \in Readings, NEW dec \in Documents(raw)
  PROVE  /\ dec \in Readings /\ DOMAIN dec = DOMAIN raw /\ DOMAIN raw \subseteq Rows
         /\ \A r \in DOMAIN raw, c \in Cols : dec[r][c] \in Int /\ (raw[r][c] = 0 => dec[r][c] = 0)
<1>1. PICK D \in SUBSET Rows : raw \in [D -> [Cols -> Int]]
  BY DEF Readings
<1>2. DOMAIN raw = D
  BY <1>1
<1>3. PICK o \in [D -> [Cols -> Offsets \cup {Unresolved}]] :
         dec = [r \in D |-> [c \in Cols |->
                  IF raw[r][c] = 0 THEN 0
                  ELSE IF o[r][c] = Unresolved THEN Unresolved
                  ELSE ConvertWallClock(raw[r][c], o[r][c])]]
  BY <1>2 DEF Documents
<1>4. ASSUME NEW r \in D, NEW c \in Cols
      PROVE  dec[r][c] \in Int /\ (raw[r][c] = 0 => dec[r][c] = 0)
  <2>1. raw[r][c] \in Int /\ o[r][c] \in Offsets \cup {Unresolved}
    BY <1>1
  <2>2. dec[r][c] = IF raw[r][c] = 0 THEN 0
                    ELSE IF o[r][c] = Unresolved THEN Unresolved
                    ELSE ConvertWallClock(raw[r][c], o[r][c])
    BY <1>3
  <2>3. CASE raw[r][c] = 0
    BY <2>2, <2>3
  <2>4. CASE raw[r][c] # 0 /\ o[r][c] = Unresolved
    BY <2>2, <2>4 DEF Unresolved
  <2>5. CASE raw[r][c] # 0 /\ o[r][c] # Unresolved
    <3>1. o[r][c] \in Int
      BY <2>1, <2>5, ClockAssumption
    <3>. QED  BY <2>1, <2>2, <2>5, <3>1 DEF ConvertWallClock
  <2>. QED  BY <2>3, <2>4, <2>5
<1>5. dec \in [D -> [Cols -> Int]]
  BY <1>3, <1>4
<1>. QED  BY <1>2, <1>4, <1>5 DEF Readings

(* The reading of all live rows, and a decision about it.                   *)
LEMMA ReadingOfLive ==
  ASSUME Shape
  PROVE  RawSnapshot \in Readings /\ DOMAIN RawSnapshot = Live
         /\ \A r \in Live, c \in Cols : RawSnapshot[r][c] = cell[r][c].raw
<1>1. Live \in SUBSET Rows
  BY DEF Live
<1>2. ASSUME NEW r \in Live, NEW c \in Cols
      PROVE  cell[r][c].raw \in Int
  BY <1>1 DEF Shape, Cells, Cell
<1>3. RawSnapshot \in [Live -> [Cols -> Int]]
  BY <1>2 DEF RawSnapshot
<1>. QED  BY <1>1, <1>3 DEF Readings, RawSnapshot

LEMMA ManifestIsTyped ==
  ASSUME Shape, NEW raw \in Readings, NEW dec \in Readings, NEW e \in Int
  PROVE  /\ Manifest(raw, dec, e) \in Manifests
         /\ Manifest(raw, dec, e).raw = raw /\ Manifest(raw, dec, e).dec = dec
         /\ Manifest(raw, dec, e).endedAt = e
         /\ Manifest(raw, dec, e).appliedAt = clock /\ Manifest(raw, dec, e).verifiedAt = clock
  BY DEF Shape, Manifest, Manifests

LEMMA ClockTicks ==
  ASSUME Shape, Tick
  PROVE  clock' \in 1..MaxClock /\ clock' = clock + 1
  BY ClockAssumption DEF Shape, Tick

-----------------------------------------------------------------------------
(* The invariant holds initially, and every step preserves it.              *)

LEMMA InvInitially == Init => ExpandInv
<1>. SUFFICES ASSUME Init PROVE ExpandInv
  OBVIOUS
<1>1. Shape
  BY ClockAssumption, NoRowCells DEF Init, Shape, NoExpand
<1>2. Phases /\ DeletedLate
  BY DEF Init, Phases, NoExpand, DeletedLate, Deleted
<1>3. Untouched /\ BlankUnlessLive
  BY NoRowCells DEF Init, Untouched, BlankUnlessLive
<1>4. ManifestsOK /\ HistoryExisted
  BY DEF Init, ManifestsOK, HistoryExisted
<1>5. Times
  BY ClockAssumption DEF Init, Times, NoExpand
<1>. QED  BY <1>1, <1>2, <1>3, <1>4, <1>5 DEF ExpandInv

(* Steps that change neither rows nor manifests nor the schema.             *)
LEMMA QuietInv ==
  ASSUME ExpandInv, UNCHANGED <<clock, schema, expand, source, chain>>,
         txn' \in [Writers -> Nat], snapshot'.endedAt \in Int, Phases',
         \A w \in Writers : txn'[w] = txn[w] \/ txn'[w] = 0 \/ txn'[w] = clock
  PROVE  ExpandInv'
<1>. USE DEF ExpandInv, source
<1>1. Shape' /\ Untouched' /\ DeletedLate' /\ BlankUnlessLive'
  BY DEF Shape, Untouched, DeletedLate, BlankUnlessLive, Rootless, Deleted
<1>2. ManifestsOK' /\ HistoryExisted'
  BY DEF ManifestsOK, HistoryExisted
<1>3. ASSUME NEW w \in Writers
      PROVE  /\ txn'[w] <= clock
             /\ txn'[w] # 0 =>
                  txn'[w] >= expand.at /\ (chain # << >> => txn'[w] >= chain[1].verifiedAt)
  <2>1. clock \in Nat /\ expand.at \in Nat /\ expand.at <= clock
    BY ClockAssumption DEF Shape, Times
  <2>2. ASSUME chain # << >>
        PROVE  chain[1].verifiedAt \in Nat /\ chain[1].verifiedAt <= clock
    <3>1. 1 \in DOMAIN chain
      BY <2>2 DEF Shape
    <3>2. chain[1] \in Manifests
      BY <3>1 DEF Shape
    <3>3. chain[1].verifiedAt <= clock
      BY <3>1 DEF ManifestsOK
    <3>. QED  BY <3>2, <3>3 DEF Manifests
  <2>. QED  BY <2>1, <2>2 DEF Times
<1>4. Times'
  BY <1>3 DEF Times
<1>. QED  BY <1>1, <1>2, <1>4

LEMMA InspectInv == ASSUME ExpandInv, Inspect PROVE ExpandInv'
<1>1. Phases'
  BY DEF ExpandInv, Inspect, Phases, Rootless, hub
<1>. QED  BY <1>1, QuietInv, ClockAssumption DEF Inspect, hub, ExpandInv, Shape

LEMMA PreflightInv == ASSUME ExpandInv, Preflight PROVE ExpandInv'
<1>1. Phases'
  BY DEF ExpandInv, Preflight, Phases, Rootless, hub
<1>. QED  BY <1>1, QuietInv DEF Preflight, hub, ExpandInv, Shape

LEMMA HubStartInv == ASSUME ExpandInv, HubStart PROVE ExpandInv'
<1>1. Phases'
  BY DEF ExpandInv, HubStart, Phases, Rootless, Ready, checkManifestReadiness
<1>. QED  BY <1>1, QuietInv DEF HubStart, ExpandInv, Shape

LEMMA HubStopInv == ASSUME ExpandInv, HubStop PROVE ExpandInv'
<1>1. Phases'
  BY DEF ExpandInv, HubStop, Phases, Rootless
<1>. QED  BY <1>1, QuietInv DEF HubStop, ExpandInv, Shape

LEMMA BeginInv == ASSUME ExpandInv, NEW w \in Writers, Begin(w) PROVE ExpandInv'
<1>1. Phases'
  BY DEF ExpandInv, Begin, Phases, Rootless, Shape
<1>. QED  BY <1>1, QuietInv, ClockAssumption DEF Begin, ExpandInv, Shape

(* Steps that change rows, but neither manifests nor the schema.            *)
LEMMA RowsInv ==
  ASSUME ExpandInv, UNCHANGED <<schema, expand, chain, snapshot, checked, serving>>,
         Shape', clock' >= clock, Untouched', DeletedLate', BlankUnlessLive',
         \A r \in Rows : life[r] # "none" => life'[r] # "none",
         \A r \in Rows : tomb'[r].at < clock',
         \A w \in Writers : txn'[w] = txn[w] \/ txn'[w] = 0
  PROVE  ExpandInv'
<1>. USE DEF ExpandInv
<1>1. Phases'
  BY DEF Phases, Rootless
<1>2. clock \in Nat /\ clock' \in Nat /\ expand.at \in Nat
  BY ClockAssumption DEF Shape
<1>3. ManifestsOK'
  <2>. SUFFICES ASSUME NEW i \in DOMAIN chain
                PROVE  ManifestOK(chain[i]) /\ chain[i].verifiedAt <= clock'
    BY DEF ManifestsOK
  <2>1. chain[i] \in Manifests
    BY DEF Shape
  <2>2. chain[i].verifiedAt \in Nat
    BY <2>1 DEF Manifests
  <2>3. ManifestOK(chain[i]) /\ chain[i].verifiedAt <= clock
    BY DEF ManifestsOK
  <2>. QED  BY <1>2, <2>2, <2>3
<1>4. HistoryExisted'
  <2>. SUFFICES ASSUME NEW i \in DOMAIN chain, NEW r \in DOMAIN chain[i].raw
                PROVE  life'[r] # "none"
    BY DEF HistoryExisted
  <2>1. life[r] # "none"
    BY DEF HistoryExisted
  <2>2. r \in Rows
    <3>1. chain[i] \in Manifests
      BY DEF Shape
    <3>. QED  BY <3>1 DEF Manifests, Readings
  <2>. QED  BY <2>1, <2>2
<1>5. Times'
  <2>1. ASSUME NEW w \in Writers
        PROVE  /\ txn'[w] <= clock'
               /\ txn'[w] # 0 => /\ txn'[w] >= expand.at
                                 /\ chain # << >> => txn'[w] >= chain[1].verifiedAt
    <3>1. txn[w] \in Nat
      BY DEF Shape
    <3>. QED  BY <1>2, <3>1 DEF Times
  <2>2. expand.at <= clock'
    BY <1>2 DEF Times
  <2>. QED  BY <2>1, <2>2 DEF Times
<1>. QED  BY <1>1, <1>3, <1>4, <1>5

LEMMA OldInsertInv == ASSUME ExpandInv, NEW r \in Rows, OldInsert(r) PROVE ExpandInv'
<1>. USE DEF ExpandInv
<1>1. clock' \in 1..MaxClock /\ clock' = clock + 1 /\ clock \in Nat
  BY ClockTicks, ClockAssumption DEF OldInsert, Shape
<1>2. Shape'
  BY <1>1, OldInsertCells DEF Shape, OldInsert, hub
<1>3. cell[r] = NoRow
  BY DEF OldInsert, BlankUnlessLive
<1>4. Untouched'
  <2>. SUFFICES ASSUME NEW s \in Rows, NEW c \in Cols
                PROVE  cell'[s][c].inst = 0 /\ (cell'[s][c].raw = 0 \/ cell'[s][c].raw > MaxClock)
    BY DEF Untouched
  <2>1. cell[s][c].inst = 0 /\ (cell[s][c].raw = 0 \/ cell[s][c].raw > MaxClock)
    BY DEF Untouched, OldInsert
  <2>2. clock + Zone > MaxClock
    BY ClockAssumption DEF Shape
  <2>. QED  BY <2>1, <2>2, OldInsertCells
<1>5. DeletedLate' /\ BlankUnlessLive'
  BY OldInsertCells DEF DeletedLate, Deleted, BlankUnlessLive, OldInsert, Shape
<1>. QED  BY <1>1, <1>2, <1>4, <1>5, RowsInv DEF OldInsert, hub, Shape, Times

LEMMA OldCompleteInv == ASSUME ExpandInv, NEW r \in Rows, OldComplete(r) PROVE ExpandInv'
<1>. USE DEF ExpandInv
<1>1. clock' \in 1..MaxClock /\ clock' = clock + 1 /\ clock \in Nat
  BY ClockTicks, ClockAssumption DEF OldComplete, Shape
<1>2. Shape'
  BY <1>1, OldCompleteCells DEF Shape, OldComplete, hub
<1>3. life[r] = "live"
  BY DEF OldComplete, Live
<1>4. Untouched'
  <2>. SUFFICES ASSUME NEW s \in Rows, NEW c \in Cols
                PROVE  cell'[s][c].inst = 0 /\ (cell'[s][c].raw = 0 \/ cell'[s][c].raw > MaxClock)
    BY DEF Untouched
  <2>1. cell[s][c].inst = 0 /\ (cell[s][c].raw = 0 \/ cell[s][c].raw > MaxClock)
    BY DEF Untouched, OldComplete
  <2>2. clock + Zone > MaxClock
    BY ClockAssumption DEF Shape
  <2>. QED  BY <2>1, <2>2, OldCompleteCells
<1>5. DeletedLate' /\ BlankUnlessLive'
  BY <1>3, OldCompleteCells DEF DeletedLate, Deleted, BlankUnlessLive, OldComplete
<1>. QED  BY <1>1, <1>2, <1>4, <1>5, RowsInv DEF OldComplete, hub, Shape, Times

(* Whoever writes serves, and so the root manifest is there if one is due.  *)
LEMMA WriterServes ==
  ASSUME ExpandInv, NEW w \in Writers, txn[w] # 0
  PROVE  schema = 138 /\ ~Rootless
  BY DEF ExpandInv, Phases

LEMMA WriteInsertInv ==
  ASSUME ExpandInv, NEW w \in Writers, NEW r \in Rows, WriteInsert(w, r)
  PROVE  ExpandInv'
<1>. USE DEF ExpandInv
<1>1. Shape'
  BY InsertCells DEF Shape, WriteInsert, End
<1>2. schema = 138 /\ ~Rootless
  BY WriterServes DEF WriteInsert
<1>3. Untouched' /\ DeletedLate'
  BY <1>2 DEF Untouched, DeletedLate, Rootless, WriteInsert
<1>4. BlankUnlessLive'
  BY InsertCells DEF BlankUnlessLive, WriteInsert, Shape
<1>. QED  BY <1>1, <1>3, <1>4, RowsInv, ClockAssumption DEF WriteInsert, End, Shape, Times

LEMMA WriteUpdateInv ==
  ASSUME ExpandInv, NEW w \in Writers, NEW r \in Rows, WriteUpdate(w, r)
  PROVE  ExpandInv'
<1>. USE DEF ExpandInv
<1>1. Shape'
  BY UpdateCells DEF Shape, WriteUpdate, End
<1>2. schema = 138 /\ ~Rootless
  BY WriterServes DEF WriteUpdate
<1>3. Untouched' /\ DeletedLate'
  BY <1>2 DEF Untouched, DeletedLate, Rootless, WriteUpdate
<1>4. BlankUnlessLive'
  BY UpdateCells DEF BlankUnlessLive, WriteUpdate, Live
<1>. QED  BY <1>1, <1>3, <1>4, RowsInv, ClockAssumption DEF WriteUpdate, End, Shape, Times

LEMMA RetentionCells ==
  ASSUME Shape, NEW r \in Rows, Retention(r)
  PROVE  /\ life[r] = "live" /\ cell' = [cell EXCEPT ![r] = NoRow]
         /\ schema = 137 => life' = [life EXCEPT ![r] = "gone"] /\ tomb' = tomb
         /\ schema # 137 => /\ life' = [life EXCEPT ![r] = "deleted"]
                            /\ tomb' = [tomb EXCEPT ![r] = [row |-> cell[r], at |-> clock]]
  BY DEF Retention, Live, captureDeletion

LEMMA RetentionInv == ASSUME ExpandInv, NEW r \in Rows, Retention(r) PROVE ExpandInv'
<1>. USE DEF ExpandInv
<1>1. clock' \in 1..MaxClock /\ clock' = clock + 1 /\ clock \in Nat
  BY ClockTicks, ClockAssumption DEF Retention, Shape
<1>2. cell' = [cell EXCEPT ![r] = NoRow] /\ cell' \in [Rows -> Cells]
  <2>1. cell \in [Rows -> Cells]
    BY DEF Shape
  <2>. QED  BY <2>1, RetentionCells, NoRowCells
<1>3. life' \in [Rows -> {"none", "live", "deleted", "gone"}]
  BY RetentionCells DEF Shape
<1>4. /\ tomb' \in [Rows -> [row : Cells, at : Nat]]
      /\ \A s \in Rows : tomb'[s].at < clock'
  <2>1. tomb \in [Rows -> [row : Cells, at : Nat]] /\ cell[r] \in Cells
    BY DEF Shape
  <2>2. \A s \in Rows : tomb[s].at \in Nat /\ tomb[s].at < clock
    BY <2>1 DEF Times
  <2>3. CASE schema = 137
    BY <1>1, <2>1, <2>2, <2>3, RetentionCells
  <2>4. CASE schema # 137
    <3>. DEFINE new == [row |-> cell[r], at |-> clock]
    <3>1. new \in [row : Cells, at : Nat] /\ new.at = clock
      BY <1>1, <2>1
    <3>2. tomb' = [tomb EXCEPT ![r] = new]
      BY <2>4, RetentionCells
    <3>. HIDE DEF new
    <3>. QED  BY <1>1, <2>1, <2>2, <3>1, <3>2
  <2>. QED  BY <2>3, <2>4
<1>5. Shape'
  BY <1>1, <1>2, <1>3, <1>4 DEF Shape, Retention, hub
<1>6. Untouched'
  BY <1>2, NoRowCells DEF Untouched, Rootless, Retention, Shape
<1>7. DeletedLate'
  BY RetentionCells DEF DeletedLate, Deleted, Retention, Shape
<1>8. BlankUnlessLive'
  BY <1>2, RetentionCells DEF BlankUnlessLive, Shape
<1>9. \A s \in Rows : life[s] # "none" => life'[s] # "none"
  BY RetentionCells DEF Shape
<1>. QED  BY <1>1, <1>4, <1>5, <1>6, <1>7, <1>8, <1>9, RowsInv DEF Retention, hub

(* Under schema 137 there is no manifest to say anything about.             *)
LEMMA ExpandUpInv == ASSUME ExpandInv, ExpandUp PROVE ExpandInv'
<1>. USE DEF ExpandInv
<1>1. clock' \in 1..MaxClock /\ clock' = clock + 1 /\ clock \in Nat
  BY ClockTicks, ClockAssumption DEF ExpandUp, Shape
<1>2. schema = 137 /\ chain = << >> /\ schema' = 138 /\ chain' = << >>
  BY DEF ExpandUp, Phases
<1>3. /\ expand'.kind \in {"ZERO_HISTORY", "MANIFEST_REQUIRED"} /\ expand'.at = clock
  BY DEF ExpandUp
<1>4. Shape'
  BY <1>1, <1>2, <1>3 DEF ExpandUp, Shape, source, hub
<1>5. \A w \in Writers : txn'[w] = 0
  BY DEF ExpandUp, Fenced, Phases, hub
<1>6. Phases'
  BY <1>2, <1>3, <1>5 DEF ExpandUp, Phases, Fenced, hub
<1>7. Untouched' /\ DeletedLate' /\ BlankUnlessLive'
  BY <1>2 DEF Untouched, DeletedLate, BlankUnlessLive, ExpandUp, source
<1>8. ManifestsOK' /\ HistoryExisted'
  BY <1>2 DEF ManifestsOK, HistoryExisted
<1>9. Times'
  <2>1. \A r \in Rows : tomb[r].at \in Nat /\ tomb[r].at < clock
    BY DEF Shape, Times
  <2>. QED  BY <1>1, <1>3, <1>5, <2>1 DEF Times, ExpandUp, source
<1>. QED  BY <1>4, <1>6, <1>7, <1>8, <1>9

(* The way back is open only while no instant was given and no row deleted. *)
LEMMA DownLosesNothing ==
  ASSUME ExpandInv, ExpandDown
  PROVE  /\ life' = life /\ Deleted = {} /\ schema = 138 /\ chain = << >>
         /\ cell' = cell
         /\ \A r \in Rows, c \in Cols :
              cell[r][c].inst = 0 /\ (cell[r][c].raw = 0 \/ cell[r][c].raw > MaxClock)
<1>. USE DEF ExpandInv
<1>1. Deleted = {} /\ schema = 138 /\ chain = << >>
  BY DEF ExpandDown, CanContract
<1>2. life' = life
  BY <1>1 DEF ExpandDown, Deleted, Shape
<1>3. ASSUME NEW r \in Rows, NEW c \in Cols
      PROVE  cell[r][c].inst = 0 /\ (cell[r][c].raw = 0 \/ cell[r][c].raw > MaxClock)
  <2>1. CASE expand.kind = "MANIFEST_REQUIRED"
    BY <1>1, <2>1 DEF Untouched, Rootless
  <2>2. CASE expand.kind = "ZERO_HISTORY"
    <3>1. cell[r] = NoRow
      BY <2>2 DEF ExpandDown, CanContract, Live, BlankUnlessLive
    <3>. QED  BY <3>1, NoRowCells
  <2>. QED  BY <1>1, <2>1, <2>2 DEF Phases, Shape
<1>4. ASSUME NEW r \in Rows, NEW c \in Cols
      PROVE  [cell[r][c] EXCEPT !.inst = 0] = cell[r][c]
  <2>1. cell[r][c] \in Cell
    BY DEF Shape, Cells
  <2>. QED  BY <1>3, <2>1 DEF Cell
<1>5. ASSUME NEW r \in Rows
      PROVE  cell'[r] = cell[r]
  <2>1. cell[r] = [c \in Cols |-> cell[r][c]]
    BY DEF Shape, Cells
  <2>2. cell'[r] = [c \in Cols |-> [cell[r][c] EXCEPT !.inst = 0]]
    BY DEF ExpandDown
  <2>. QED  BY <1>4, <2>1, <2>2
<1>6. cell' = [r \in Rows |-> cell'[r]] /\ cell = [r \in Rows |-> cell[r]]
  BY DEF ExpandDown, Shape
<1>7. cell' = cell
  BY <1>5, <1>6
<1>. QED  BY <1>1, <1>2, <1>3, <1>7

LEMMA ExpandDownInv == ASSUME ExpandInv, ExpandDown PROVE ExpandInv'
<1>. USE DEF ExpandInv
<1>1. chain' = << >> /\ schema' = 137 /\ expand' = NoExpand
  BY DownLosesNothing DEF ExpandDown
<1>2. /\ tomb' \in [Rows -> [row : Cells, at : Nat]]
      /\ \A r \in Rows : tomb'[r].at = 0
  BY NoRowCells DEF ExpandDown
<1>3. Shape'
  <2>1. cell' \in [Rows -> Cells] /\ life' \in [Rows -> {"none", "live", "deleted", "gone"}]
    BY DownLosesNothing DEF Shape
  <2>2. expand'.at = 0 /\ expand'.kind = "NONE"
    BY <1>1 DEF NoExpand
  <2>3. UNCHANGED <<clock, txn, snapshot>>
    BY DEF ExpandDown, hub
  <2>. QED  BY <1>1, <1>2, <2>1, <2>2, <2>3 DEF Shape
<1>4. Phases'
  BY <1>1 DEF Phases, ExpandDown, Fenced, hub, NoExpand
<1>5. Untouched' /\ DeletedLate' /\ BlankUnlessLive'
  BY DownLosesNothing DEF Untouched, DeletedLate, Deleted, BlankUnlessLive
<1>6. ManifestsOK' /\ HistoryExisted'
  BY <1>1 DEF ManifestsOK, HistoryExisted
<1>7. Times'
  BY <1>1, <1>2, ClockAssumption DEF Times, ExpandDown, Fenced, Phases, hub, NoExpand, Shape
<1>. QED  BY <1>3, <1>4, <1>5, <1>6, <1>7

-----------------------------------------------------------------------------
(* Manifests.  The cells of a filled database, and the chain grown by one.  *)

RootFill(dec) == {p \in Live \X Cols : dec[p[1]][p[2]] \notin {0, Unresolved}}

LEMMA RootManifest ==
  ASSUME ExpandInv, ApplyRoot
  PROVE  /\ Rootless /\ ~serving /\ clock' = clock + 1
         /\ snapshot.raw = RawSnapshot /\ snapshot.raw \in Readings
         /\ \A r \in Live, c \in Cols : cell[r][c].inst = 0
         /\ \E dec \in Documents(RawSnapshot) :
              /\ chain' = <<Manifest(RawSnapshot, dec, snapshot.endedAt)>>
              /\ Fill(RootFill(dec), dec)
<1>. USE DEF ExpandInv
<1>1. snapshot.raw = RawSnapshot /\ \A r \in Live, c \in Cols : cell[r][c].inst = 0
  BY DEF ApplyRoot, CanApplyRoot
<1>2. Rootless
  BY DEF ApplyRoot, CanApplyRoot, rootMatchesExpandState, Rootless
<1>3. ~serving
  BY <1>2 DEF Phases
<1>. QED  BY <1>1, <1>2, <1>3, ReadingOfLive DEF ApplyRoot, RootFill, Tick

LEMMA ApplyRootInv == ASSUME ExpandInv, ApplyRoot PROVE ExpandInv'
<1>. USE DEF ExpandInv
<1>1. PICK dec \in Documents(RawSnapshot) :
        /\ chain' = <<Manifest(RawSnapshot, dec, snapshot.endedAt)>>
        /\ Fill(RootFill(dec), dec)
  BY RootManifest
<1>2. /\ dec \in Readings /\ DOMAIN dec = Live
      /\ \A r \in Live, c \in Cols : dec[r][c] \in Int /\ (RawSnapshot[r][c] = 0 => dec[r][c] = 0)
  BY <1>1, ReadingOfLive, DocumentsDecide
<1>. DEFINE m == Manifest(RawSnapshot, dec, snapshot.endedAt)
<1>3. /\ m \in Manifests /\ m.raw = RawSnapshot /\ m.dec = dec
      /\ m.verifiedAt = clock
  BY <1>2, ReadingOfLive, ManifestIsTyped DEF Shape
<1>4. chain' = <<m>>
  BY <1>1
<1>. HIDE DEF m
<1>5. clock' \in 1..MaxClock /\ clock' = clock + 1 /\ clock \in Nat
  BY ClockTicks, ClockAssumption DEF ApplyRoot, Shape
<1>6. cell' \in [Rows -> Cells]
  <2>1. \A r \in Rows, c \in Cols : <<r, c>> \in RootFill(dec) => dec[r][c] \in Int
    BY <1>2 DEF RootFill
  <2>. QED  BY <1>1, <2>1, FillCells
<1>7. chain' \in Seq(Manifests) /\ DOMAIN chain' = {1} /\ chain'[1] = m
  BY <1>3, <1>4
<1>8. Shape'
  BY <1>5, <1>6, <1>7 DEF Shape, ApplyRoot, hub
<1>9. schema' = 138 /\ ~serving' /\ \A w \in Writers : txn'[w] = 0
  BY RootManifest DEF ApplyRoot, hub, Phases
<1>10. Phases'
  BY <1>9 DEF Phases, ApplyRoot, hub
<1>11. chain' # << >>
  BY <1>7
<1>12. Untouched' /\ DeletedLate'
  BY <1>9, <1>11 DEF Untouched, Rootless, DeletedLate
<1>13. BlankUnlessLive'
  <2>. SUFFICES ASSUME NEW r \in Rows, life[r] # "live"
                PROVE  cell'[r] = NoRow
    BY DEF BlankUnlessLive, ApplyRoot
  <2>1. cell[r] = NoRow
    BY DEF BlankUnlessLive
  <2>2. \A c \in Cols : <<r, c>> \notin RootFill(dec)
    BY DEF RootFill, Live
  <2>3. \A c \in Cols : cell'[r][c] = cell[r][c]
    BY <1>1, <2>2 DEF Fill
  <2>4. cell[r] = [c \in Cols |-> cell[r][c]] /\ cell'[r] = [c \in Cols |-> cell'[r][c]]
    BY <1>6 DEF Shape, Cells
  <2>. QED  BY <2>1, <2>3, <2>4
<1>14. ManifestsOK'
  <2>1. \A r \in Live, c \in Cols : RawSnapshot[r][c] = 0 \/ RawSnapshot[r][c] > MaxClock
    BY RootManifest, ReadingOfLive DEF Untouched, Live
  <2>2. /\ DOMAIN m.dec = DOMAIN m.raw
        /\ \A r \in DOMAIN m.raw, c \in Cols :
             /\ m.raw[r][c] = 0 \/ m.raw[r][c] > MaxClock
             /\ m.raw[r][c] = 0 => m.dec[r][c] = 0
    BY <1>2, <1>3, <2>1, ReadingOfLive
  <2>. QED  BY <1>3, <1>5, <1>7, <2>2 DEF ManifestsOK, ManifestOK
<1>15. HistoryExisted'
  BY <1>3, <1>7, ReadingOfLive DEF HistoryExisted, Live, ApplyRoot
<1>16. Times'
  <2>1. \A r \in Rows : tomb[r].at \in Nat /\ tomb[r].at < clock
    BY DEF Shape, Times
  <2>2. expand.at \in Nat /\ expand.at <= clock
    BY DEF Shape, Times
  <2>. QED  BY <1>5, <1>9, <2>1, <2>2 DEF Times, ApplyRoot
<1>. QED  BY <1>8, <1>10, <1>12, <1>13, <1>14, <1>15, <1>16

LEMMA Grown ==
  ASSUME Shape, NEW m \in Manifests, chain' = Append(chain, m)
  PROVE  /\ chain' \in Seq(Manifests) /\ Len(chain) \in Nat /\ Len(chain') = Len(chain) + 1
         /\ DOMAIN chain = 1..Len(chain) /\ DOMAIN chain' = 1..(Len(chain) + 1)
         /\ \A j \in DOMAIN chain : chain'[j] = chain[j]
         /\ chain'[Len(chain) + 1] = m
<1>1. chain \in Seq(Manifests)
  BY DEF Shape
<1>. QED  BY <1>1, AppendProperties

LEMMA Recorded ==
  ASSUME Shape, NEW i \in DOMAIN chain
  PROVE  /\ chain[i] \in Manifests /\ chain[i].raw \in Readings /\ chain[i].endedAt \in Int
         /\ chain[i].verifiedAt \in Nat /\ chain[i].appliedAt \in Nat
         /\ DOMAIN chain[i].raw \subseteq Rows
<1>1. chain[i] \in Manifests
  BY DEF Shape
<1>. QED  BY <1>1 DEF Manifests, Readings

(* The successor of the tip: what a promotion asks for and what it changes. *)
Succeeds(i, m) ==
  /\ m \in Manifests /\ m.raw = chain[i].raw /\ DOMAIN m.dec = DOMAIN m.raw
  /\ m.endedAt = chain[i].endedAt /\ m.appliedAt = clock /\ m.verifiedAt = clock
  /\ \A r \in DOMAIN m.raw, c \in Cols : m.dec[r][c] \in Int /\ (m.raw[r][c] = 0 => m.dec[r][c] = 0)
  /\ validSupersession(chain[i], m.dec) /\ deletedPromotable(i, m.dec)
  /\ \A p \in promotedFill(i, m.dec) : cell[p[1]][p[2]].inst = 0

LEMMA Superseding ==
  ASSUME ExpandInv, NEW i \in DOMAIN chain, Supersede(i)
  PROVE  \E m : /\ i = Len(chain) /\ Succeeds(i, m)
                /\ chain' = Append(chain, m) /\ Fill(promotedFill(i, m.dec), m.dec)
<1>1. PICK dec \in Documents(chain[i].raw) :
        /\ i = Len(chain)
        /\ validSupersession(chain[i], dec) /\ deletedPromotable(i, dec)
        /\ \A p \in promotedFill(i, dec) : cell[p[1]][p[2]].inst = 0
        /\ chain' = Append(chain, Manifest(chain[i].raw, dec, chain[i].endedAt))
        /\ Fill(promotedFill(i, dec), dec)
  BY DEF Supersede, supersedesTip
<1>. DEFINE m == Manifest(chain[i].raw, dec, chain[i].endedAt)
<1>2. /\ dec \in Readings /\ DOMAIN dec = DOMAIN chain[i].raw
      /\ \A r \in DOMAIN chain[i].raw, c \in Cols :
           dec[r][c] \in Int /\ (chain[i].raw[r][c] = 0 => dec[r][c] = 0)
  BY Recorded, DocumentsDecide DEF ExpandInv
<1>3. /\ m \in Manifests /\ m.raw = chain[i].raw /\ m.dec = dec /\ m.endedAt = chain[i].endedAt
      /\ m.appliedAt = clock /\ m.verifiedAt = clock
  BY <1>2, Recorded, ManifestIsTyped DEF ExpandInv
<1>4. chain' = Append(chain, m)
  BY <1>1
<1>. HIDE DEF m
<1>5. Succeeds(i, m)
  BY <1>1, <1>2, <1>3 DEF Succeeds
<1>. QED  BY <1>1, <1>3, <1>4, <1>5

LEMMA FillOfPromoted ==
  ASSUME ExpandInv, NEW i \in DOMAIN chain, NEW m, Succeeds(i, m),
         Fill(promotedFill(i, m.dec), m.dec)
  PROVE  /\ cell' \in [Rows -> Cells]
         /\ \A r \in Rows, c \in Cols :
              /\ cell'[r][c].raw = cell[r][c].raw
              /\ <<r, c>> \in promotedFill(i, m.dec) => cell'[r][c].inst = m.dec[r][c]
              /\ <<r, c>> \notin promotedFill(i, m.dec) => cell'[r][c] = cell[r][c]
         /\ \A r \in Rows : r \notin Historical(i) \/ life[r] # "live" => cell'[r] = cell[r]
<1>1. \A r \in Rows, c \in Cols : <<r, c>> \in promotedFill(i, m.dec) => m.dec[r][c] \in Int
  BY DEF Succeeds, promotedFill, Historical
<1>2. /\ cell' \in [Rows -> Cells]
      /\ \A r \in Rows, c \in Cols :
           /\ cell'[r][c].raw = cell[r][c].raw
           /\ <<r, c>> \in promotedFill(i, m.dec) => cell'[r][c].inst = m.dec[r][c]
           /\ <<r, c>> \notin promotedFill(i, m.dec) => cell'[r][c] = cell[r][c]
  <2>. DEFINE todo == promotedFill(i, m.dec)
               dec == m.dec
  <2>1. Shape /\ Fill(todo, dec) /\ \A r \in Rows, c \in Cols : <<r, c>> \in todo => dec[r][c] \in Int
    BY <1>1 DEF ExpandInv
  <2>. HIDE DEF todo, dec
  <2>2. /\ cell' \in [Rows -> Cells]
        /\ \A r \in Rows, c \in Cols :
             /\ cell'[r][c].raw = cell[r][c].raw
             /\ <<r, c>> \in todo => cell'[r][c].inst = dec[r][c]
             /\ <<r, c>> \notin todo => cell'[r][c] = cell[r][c]
    BY <2>1, FillCells
  <2>. QED  BY <2>2 DEF todo, dec
<1>3. ASSUME NEW r \in Rows, r \notin Historical(i) \/ life[r] # "live"
      PROVE  cell'[r] = cell[r]
  <2>1. \A c \in Cols : <<r, c>> \notin promotedFill(i, m.dec)
    BY <1>3 DEF promotedFill, Live
  <2>2. \A c \in Cols : cell'[r][c] = cell[r][c]
    BY <1>2, <2>1
  <2>3. cell[r] = [c \in Cols |-> cell[r][c]] /\ cell'[r] = [c \in Cols |-> cell'[r][c]]
    BY <1>2 DEF ExpandInv, Shape, Cells
  <2>. QED  BY <2>2, <2>3
<1>. QED  BY <1>2, <1>3

LEMMA SupersedeInv == ASSUME ExpandInv, NEW i \in DOMAIN chain, Supersede(i) PROVE ExpandInv'
<1>. USE DEF ExpandInv
<1>1. PICK m : /\ i = Len(chain) /\ Succeeds(i, m)
               /\ chain' = Append(chain, m) /\ Fill(promotedFill(i, m.dec), m.dec)
  BY Superseding
<1>2. m \in Manifests /\ m.verifiedAt = clock /\ m.raw = chain[i].raw
  BY <1>1 DEF Succeeds
<1>3. clock' \in 1..MaxClock /\ clock' = clock + 1 /\ clock \in Nat
  BY ClockTicks, ClockAssumption DEF Supersede, Shape
<1>4. cell' \in [Rows -> Cells]
  BY <1>1, FillOfPromoted
<1>5. /\ chain' \in Seq(Manifests) /\ Len(chain) \in Nat
      /\ DOMAIN chain = 1..Len(chain) /\ DOMAIN chain' = 1..(Len(chain) + 1)
      /\ \A j \in DOMAIN chain : chain'[j] = chain[j]
      /\ chain'[Len(chain) + 1] = m
  BY <1>1, <1>2, Grown
<1>6. Shape'
  BY <1>3, <1>4, <1>5 DEF Shape, Supersede, hub
<1>7. chain # << >> /\ chain' # << >> /\ schema = 138 /\ schema' = 138
  BY <1>1, <1>5 DEF Supersede
<1>8. Phases'
  BY <1>7 DEF Phases, Supersede, hub, Rootless
<1>9. Untouched' /\ DeletedLate'
  BY <1>7 DEF Untouched, DeletedLate, Rootless
<1>10. BlankUnlessLive'
  BY <1>1, FillOfPromoted DEF BlankUnlessLive, Supersede
<1>11. ASSUME NEW j \in DOMAIN chain'
       PROVE  /\ ManifestOK(chain'[j]) /\ chain'[j].verifiedAt <= clock'
              /\ \A r \in DOMAIN chain'[j].raw : life[r] # "none"
  <2>1. CASE j \in DOMAIN chain
    <3>1. chain'[j] = chain[j] /\ chain[j].verifiedAt \in Nat
      BY <1>5, <2>1, Recorded
    <3>2. ManifestOK(chain[j]) /\ chain[j].verifiedAt <= clock
      BY <2>1 DEF ManifestsOK
    <3>3. \A r \in DOMAIN chain[j].raw : life[r] # "none"
      BY <2>1 DEF HistoryExisted
    <3>. QED  BY <1>3, <3>1, <3>2, <3>3
  <2>2. CASE j = Len(chain) + 1
    <3>1. chain'[j] = m
      BY <1>5, <2>2
    <3>2. \A r \in DOMAIN m.raw, c \in Cols : m.raw[r][c] = 0 \/ m.raw[r][c] > MaxClock
      BY <1>2 DEF ManifestsOK, ManifestOK
    <3>3. DOMAIN m.dec = DOMAIN m.raw /\ \A r \in DOMAIN m.raw, c \in Cols : m.raw[r][c] = 0 => m.dec[r][c] = 0
      BY <1>1 DEF Succeeds
    <3>4. \A r \in DOMAIN m.raw : life[r] # "none"
      BY <1>2 DEF HistoryExisted
    <3>5. ManifestOK(m)
      BY <3>2, <3>3 DEF ManifestOK
    <3>. QED  BY <1>2, <1>3, <3>1, <3>4, <3>5
  <2>. QED  BY <1>5, <2>1, <2>2
<1>12. ManifestsOK' /\ HistoryExisted'
  BY <1>11 DEF ManifestsOK, HistoryExisted, Supersede
<1>13. Times'
  <2>1. \A r \in Rows : tomb[r].at \in Nat /\ tomb[r].at < clock
    BY DEF Shape, Times
  <2>2. expand.at \in Nat /\ expand.at <= clock
    BY DEF Shape, Times
  <2>3. \A w \in Writers : txn[w] \in Nat /\ txn[w] <= clock
    BY DEF Shape, Times
  <2>4. chain'[1] = chain[1]
    BY <1>1, <1>5
  <2>. QED  BY <1>3, <1>7, <2>1, <2>2, <2>3, <2>4 DEF Times, Supersede, hub
<1>. QED  BY <1>6, <1>8, <1>9, <1>10, <1>12, <1>13

LEMMA StutterInv == ASSUME ExpandInv, UNCHANGED vars PROVE ExpandInv'
<1>. USE DEF ExpandInv, vars
<1>1. Shape' /\ Phases' /\ Untouched' /\ DeletedLate' /\ BlankUnlessLive'
  BY DEF Shape, Phases, Rootless, Untouched, DeletedLate, Deleted, BlankUnlessLive
<1>2. ManifestsOK' /\ HistoryExisted' /\ Times'
  BY DEF ManifestsOK, HistoryExisted, Times
<1>. QED  BY <1>1, <1>2

(* Every reachable state satisfies the invariant, in an undamaged shape.    *)
THEOREM ExpansionInvariant == Spec => []ExpandInv
<1>1. Init => ExpandInv
  BY InvInitially
<1>2. ASSUME ExpandInv, [Next]_vars
      PROVE  ExpandInv'
  BY <1>2, StutterInv, InspectInv, PreflightInv, ExpandUpInv, ExpandDownInv, ApplyRootInv,
     HubStartInv, HubStopInv, SupersedeInv, OldInsertInv, OldCompleteInv, RetentionInv,
     BeginInv, WriteInsertInv, WriteUpdateInv DEF Next
<1>. QED  BY <1>1, <1>2, PTL DEF Spec

-----------------------------------------------------------------------------
(* The ledger.  What is remembered of a row is its cells, or its tombstone. *)

Remembered == [r \in Rows |-> IF life[r] = "deleted" THEN tomb[r].row ELSE cell[r]]

LEMMA LedgerTerms ==
  /\ Ledger!Cols = Cols /\ Ledger!Unused = NoRow
  /\ \A v : Ledger!Exact(v) <=> v.raw = v.inst
  BY DEF Ledger!Cols, Ledger!Unused, Ledger!Blank, NoRow, Cols, Ledger!Exact

LEMMA RecordStep ==
  ASSUME NEW r \in Rows, life[r] = "none", life' = [life EXCEPT ![r] = "live"], UNCHANGED schema,
         \A s \in Rows \ {r} : Remembered'[s] = Remembered[s],
         \A c \in Cols : IF schema = 138 THEN Remembered'[r][c].raw = Remembered'[r][c].inst
                                         ELSE Remembered'[r][c].inst = 0
  PROVE  Ledger!Next
<1>1. Ledger!Record(r)
  BY LedgerTerms DEF Ledger!Record, Remembered
<1>. QED  BY <1>1 DEF Ledger!Next

LEMMA ChangeStep ==
  ASSUME NEW r \in Rows, life[r] = "live", UNCHANGED <<life, schema>>,
         \A s \in Rows \ {r} : Remembered'[s] = Remembered[s],
         \A c \in Cols :
           \/ Remembered'[r][c] = Remembered[r][c]
           \/ /\ c = "updated" \/ (c = "done" /\ Remembered[r][c].raw = 0)
              /\ Remembered'[r][c].raw # 0
              /\ IF schema = 138 THEN Remembered'[r][c].raw = Remembered'[r][c].inst
                                 ELSE Remembered'[r][c].inst = 0
  PROVE  Ledger!Next
<1>1. Ledger!Change(r)
  BY LedgerTerms DEF Ledger!Change, Ledger!Moves, Remembered
<1>. QED  BY <1>1 DEF Ledger!Next

LEMMA ResolveStep ==
  ASSUME schema = 138, UNCHANGED <<life, schema>>,
         \A r \in Rows, c \in Cols :
           \/ Remembered'[r][c] = Remembered[r][c]
           \/ /\ life[r] = "live" /\ Remembered[r][c].raw # 0 /\ Remembered[r][c].inst = 0
              /\ Remembered'[r][c].raw = Remembered[r][c].raw /\ Remembered'[r][c].inst # 0
  PROVE  Ledger!Next
<1>1. Ledger!Resolve
  BY LedgerTerms DEF Ledger!Resolve, Remembered
<1>. QED  BY <1>1 DEF Ledger!Next

LEMMA DeleteStep ==
  ASSUME NEW r \in Rows, life[r] = "live", UNCHANGED schema,
         IF schema = 138
         THEN life' = [life EXCEPT ![r] = "deleted"] /\ Remembered' = Remembered
         ELSE /\ life' = [life EXCEPT ![r] = "gone"]
              /\ Remembered' = [Remembered EXCEPT ![r] = NoRow]
  PROVE  Ledger!Next
<1>1. Ledger!Delete(r)
  BY LedgerTerms DEF Ledger!Delete, Remembered
<1>. QED  BY <1>1 DEF Ledger!Next

LEMMA ExpandStep ==
  ASSUME schema = 137, schema' = 138, UNCHANGED life, Remembered' = Remembered
  PROVE  Ledger!Next
<1>1. Ledger!Expand
  BY DEF Ledger!Expand, Remembered
<1>. QED  BY <1>1 DEF Ledger!Next

LEMMA ContractStep ==
  ASSUME schema = 138, schema' = 137, UNCHANGED life, Remembered' = Remembered,
         \A r \in Rows : life[r] # "deleted" /\ \A c \in Cols : Remembered[r][c].inst = 0
  PROVE  Ledger!Next
<1>1. Ledger!Contract
  BY LedgerTerms DEF Ledger!Contract, Remembered
<1>. QED  BY <1>1 DEF Ledger!Next

LEMMA QuietStep ==
  ASSUME UNCHANGED <<life, schema>>, Remembered' = Remembered
  PROVE  UNCHANGED Ledger!ledger
  BY DEF Ledger!ledger, Remembered

LEMMA RememberedRow ==
  ASSUME NEW r \in Rows
  PROVE  /\ Remembered[r] = IF life[r] = "deleted" THEN tomb[r].row ELSE cell[r]
         /\ Remembered'[r] = IF life'[r] = "deleted" THEN tomb'[r].row ELSE cell'[r]
  BY DEF Remembered

LEMMA SameMemory ==
  ASSUME \A r \in Rows : Remembered'[r] = Remembered[r]
  PROVE  Remembered' = Remembered
  BY DEF Remembered

LEMMA OldInsertRecords == ASSUME ExpandInv, NEW r \in Rows, OldInsert(r) PROVE Ledger!Next
<1>. USE DEF ExpandInv
<1>1. /\ life[r] = "none" /\ life' = [life EXCEPT ![r] = "live"] /\ schema = 137 /\ schema' = 137
      /\ tomb' = tomb /\ life \in [Rows -> {"none", "live", "deleted", "gone"}]
  BY DEF OldInsert, Shape
<1>2. \A s \in Rows \ {r} : Remembered'[s] = Remembered[s]
  BY <1>1, RememberedRow, OldInsertCells
<1>3. Remembered'[r] = cell'[r]
  BY <1>1, RememberedRow DEF Shape
<1>4. \A c \in Cols : Remembered'[r][c].inst = 0
  BY <1>1, <1>3, OldInsertCells DEF Untouched
<1>5. \A c \in Cols : IF schema = 138 THEN Remembered'[r][c].raw = Remembered'[r][c].inst
                                      ELSE Remembered'[r][c].inst = 0
  BY <1>1, <1>4
<1>6. UNCHANGED schema /\ life[r] = "none" /\ life' = [life EXCEPT ![r] = "live"]
  BY <1>1
<1>. QED  BY ONLY <1>2, <1>5, <1>6, RecordStep, r \in Rows

LEMMA OldCompleteChanges == ASSUME ExpandInv, NEW r \in Rows, OldComplete(r) PROVE Ledger!Next
<1>. USE DEF ExpandInv
<1>1. life[r] = "live" /\ life' = life /\ schema = 137 /\ schema' = 137 /\ tomb' = tomb
  BY DEF OldComplete, Live
<1>2. \A s \in Rows \ {r} : Remembered'[s] = Remembered[s]
  BY <1>1, RememberedRow, OldCompleteCells
<1>3. Remembered'[r] = cell'[r] /\ Remembered[r] = cell[r]
  BY <1>1, RememberedRow
<1>4. clock + Zone # 0
  BY ClockAssumption DEF Shape
<1>5. ASSUME NEW c \in Cols
      PROVE  \/ Remembered'[r][c] = Remembered[r][c]
             \/ /\ c = "updated" \/ (c = "done" /\ Remembered[r][c].raw = 0)
                /\ Remembered'[r][c].raw # 0 /\ Remembered'[r][c].inst = 0
  <2>1. cell[r]["done"].raw = 0
    BY DEF OldComplete
  <2>2. cell[r][c].inst = 0
    BY <1>1 DEF Untouched
  <2>3. c = "created" \/ c = "updated" \/ c = "done"
    BY DEF Cols
  <2>. QED  BY <1>3, <1>4, <2>1, <2>2, <2>3, OldCompleteCells
<1>. QED  BY <1>1, <1>2, <1>5, ChangeStep

LEMMA InsertRecords ==
  ASSUME ExpandInv, NEW w \in Writers, NEW r \in Rows, WriteInsert(w, r)
  PROVE  Ledger!Next
<1>. USE DEF ExpandInv
<1>1. /\ life[r] = "none" /\ life' = [life EXCEPT ![r] = "live"] /\ schema = 138 /\ schema' = 138
      /\ tomb' = tomb
  BY WriterServes DEF WriteInsert
<1>2. \A s \in Rows \ {r} : Remembered'[s] = Remembered[s]
  BY <1>1, RememberedRow, InsertCells DEF Shape
<1>3. Remembered'[r] = cell'[r]
  BY <1>1, RememberedRow DEF Shape
<1>4. cell[r] = NoRow
  BY <1>1 DEF BlankUnlessLive
<1>5. \A c \in Cols : cell'[r][c].raw = cell'[r][c].inst
  BY <1>4, InsertCells, NowIsExact, NoRowCells
<1>. QED  BY <1>1, <1>2, <1>3, <1>5, RecordStep

LEMMA UpdateChanges ==
  ASSUME ExpandInv, NEW w \in Writers, NEW r \in Rows, WriteUpdate(w, r)
  PROVE  Ledger!Next
<1>. USE DEF ExpandInv
<1>1. life[r] = "live" /\ life' = life /\ schema = 138 /\ schema' = 138 /\ tomb' = tomb /\ txn[w] # 0
  BY WriterServes DEF WriteUpdate, Live
<1>2. \A s \in Rows \ {r} : Remembered'[s] = Remembered[s]
  BY <1>1, RememberedRow, UpdateCells
<1>3. Remembered'[r] = cell'[r] /\ Remembered[r] = cell[r]
  BY <1>1, RememberedRow
<1>4. Now(w).raw # 0 /\ Now(w).raw = Now(w).inst
  BY <1>1, NowIsExact
<1>5. ASSUME NEW c \in Cols
      PROVE  \/ Remembered'[r][c] = Remembered[r][c]
             \/ /\ c = "updated" \/ (c = "done" /\ Remembered[r][c].raw = 0)
                /\ Remembered'[r][c].raw # 0 /\ Remembered'[r][c].raw = Remembered'[r][c].inst
  <2>1. /\ cell'[r]["created"] = cell[r]["created"] /\ cell'[r]["updated"] = Now(w)
        /\ \/ cell'[r]["done"] = cell[r]["done"]
           \/ cell[r]["done"].raw = 0 /\ cell'[r]["done"] = Now(w)
    BY UpdateCells
  <2>2. c = "created" \/ c = "updated" \/ c = "done"
    BY DEF Cols
  <2>. QED  BY <1>3, <1>4, <2>1, <2>2
<1>. QED  BY <1>1, <1>2, <1>5, ChangeStep

LEMMA RetentionDeletes == ASSUME ExpandInv, NEW r \in Rows, Retention(r) PROVE Ledger!Next
<1>. USE DEF ExpandInv
<1>1. life[r] = "live" /\ cell' = [cell EXCEPT ![r] = NoRow] /\ schema' = schema
  BY RetentionCells DEF Retention
<1>2. life \in [Rows -> {"none", "live", "deleted", "gone"}] /\ cell \in [Rows -> Cells]
  BY DEF Shape
<1>3. CASE schema = 138
  <2>1. /\ life' = [life EXCEPT ![r] = "deleted"]
        /\ tomb' = [tomb EXCEPT ![r] = [row |-> cell[r], at |-> clock]]
    BY <1>3, RetentionCells
  <2>2. tomb'[r].row = cell[r] /\ \A s \in Rows \ {r} : tomb'[s] = tomb[s]
    BY <2>1 DEF Shape
  <2>3. Remembered' = Remembered
    BY <1>1, <1>2, <2>1, <2>2, RememberedRow, SameMemory
  <2>. QED  BY <1>1, <1>3, <2>1, <2>3, DeleteStep
<1>4. CASE schema = 137
  <2>1. life' = [life EXCEPT ![r] = "gone"] /\ tomb' = tomb
    BY <1>4, RetentionCells
  <2>2. \A s \in Rows : Remembered'[s] = IF s = r THEN NoRow ELSE Remembered[s]
    BY <1>1, <1>2, <2>1, RememberedRow
  <2>3. Remembered' = [Remembered EXCEPT ![r] = NoRow]
    BY <2>2 DEF Remembered
  <2>4. schema # 138
    BY <1>4
  <2>. QED  BY <1>1, <2>1, <2>3, <2>4, DeleteStep
<1>. QED  BY <1>3, <1>4 DEF Shape

LEMMA UpExpands == ASSUME ExpandInv, ExpandUp PROVE Ledger!Next
<1>1. schema = 137 /\ schema' = 138 /\ UNCHANGED <<life, cell, tomb>>
  BY DEF ExpandInv, Phases, ExpandUp, source
<1>2. Remembered' = Remembered
  BY <1>1 DEF Remembered
<1>. QED  BY <1>1, <1>2, ExpandStep

LEMMA DownContracts == ASSUME ExpandInv, ExpandDown PROVE Ledger!Next
<1>1. /\ schema = 138 /\ schema' = 137 /\ life' = life /\ cell' = cell
      /\ \A r \in Rows : life[r] # "deleted"
      /\ \A r \in Rows, c \in Cols : cell[r][c].inst = 0
  BY DownLosesNothing DEF ExpandDown, Deleted
<1>2. Remembered' = Remembered /\ \A r \in Rows : Remembered[r] = cell[r]
  BY <1>1, RememberedRow, SameMemory
<1>. QED  BY <1>1, <1>2, ContractStep

LEMMA RootResolves == ASSUME ExpandInv, ApplyRoot PROVE Ledger!Next
<1>. USE DEF ExpandInv
<1>1. PICK dec \in Documents(RawSnapshot) : Fill(RootFill(dec), dec)
  BY RootManifest
<1>2. \A r \in Live, c \in Cols : dec[r][c] \in Int /\ (RawSnapshot[r][c] = 0 => dec[r][c] = 0)
  BY <1>1, ReadingOfLive, DocumentsDecide
<1>3. schema = 138 /\ UNCHANGED <<life, schema, tomb>>
  BY DEF ApplyRoot
<1>4. \A r \in Rows, c \in Cols : <<r, c>> \in RootFill(dec) => dec[r][c] \in Int
  BY <1>2 DEF RootFill
<1>5. ASSUME NEW r \in Rows, NEW c \in Cols
      PROVE  \/ Remembered'[r][c] = Remembered[r][c]
             \/ /\ life[r] = "live" /\ Remembered[r][c].raw # 0 /\ Remembered[r][c].inst = 0
                /\ Remembered'[r][c].raw = Remembered[r][c].raw /\ Remembered'[r][c].inst # 0
  <2>0. /\ cell'[r][c].raw = cell[r][c].raw
        /\ <<r, c>> \in RootFill(dec) => cell'[r][c].inst = dec[r][c]
        /\ <<r, c>> \notin RootFill(dec) => cell'[r][c] = cell[r][c]
    BY <1>1, <1>4, FillCells
  <2>1. CASE <<r, c>> \in RootFill(dec)
    <3>1. r \in Live /\ life[r] = "live" /\ dec[r][c] # 0
      BY <2>1 DEF RootFill, Live
    <3>2. cell[r][c].raw # 0 /\ cell[r][c].inst = 0
      BY <1>2, <3>1, RootManifest, ReadingOfLive
    <3>. QED  BY <1>3, <2>0, <2>1, <3>1, <3>2, RememberedRow
  <2>2. CASE <<r, c>> \notin RootFill(dec)
    BY <1>3, <2>0, <2>2, RememberedRow
  <2>. QED  BY <2>1, <2>2
<1>. QED  BY <1>3, <1>5, ResolveStep

LEMMA PromotionResolves ==
  ASSUME ExpandInv, NEW i \in DOMAIN chain, Supersede(i)
  PROVE  Ledger!Next
<1>. USE DEF ExpandInv
<1>1. PICK m : Succeeds(i, m) /\ Fill(promotedFill(i, m.dec), m.dec)
  BY Superseding
<1>2. schema = 138 /\ UNCHANGED <<life, schema, tomb>>
  BY DEF Supersede
<1>3. ASSUME NEW r \in Rows, NEW c \in Cols
      PROVE  \/ Remembered'[r][c] = Remembered[r][c]
             \/ /\ life[r] = "live" /\ Remembered[r][c].raw # 0 /\ Remembered[r][c].inst = 0
                /\ Remembered'[r][c].raw = Remembered[r][c].raw /\ Remembered'[r][c].inst # 0
  <2>0. /\ cell'[r][c].raw = cell[r][c].raw
        /\ <<r, c>> \in promotedFill(i, m.dec) => cell'[r][c].inst = m.dec[r][c]
        /\ <<r, c>> \notin promotedFill(i, m.dec) => cell'[r][c] = cell[r][c]
    BY <1>1, FillOfPromoted
  <2>1. CASE <<r, c>> \in promotedFill(i, m.dec)
    <3>1. /\ r \in Historical(i) /\ life[r] = "live"
          /\ chain[i].dec[r][c] = Unresolved /\ m.dec[r][c] # Unresolved
          /\ cell[r][c].raw = chain[i].raw[r][c]
      BY <2>1 DEF promotedFill, Live
    <3>2. m.dec[r][c] # 0
      BY <1>1, <3>1 DEF Succeeds, validSupersession, Historical
    <3>3. cell[r][c].raw # 0
      BY <3>1 DEF ManifestsOK, ManifestOK, Historical, Unresolved
    <3>4. cell[r][c].inst = 0
      BY <1>1, <2>1 DEF Succeeds
    <3>. QED  BY <1>2, <2>0, <2>1, <3>1, <3>2, <3>3, <3>4, RememberedRow
  <2>2. CASE <<r, c>> \notin promotedFill(i, m.dec)
    BY <1>2, <2>0, <2>2, RememberedRow
  <2>. QED  BY <2>1, <2>2
<1>. QED  BY <1>2, <1>3, ResolveStep

LEMMA UnseenByLedger ==
  ASSUME ExpandInv, UNCHANGED <<schema, source>>
  PROVE  UNCHANGED Ledger!ledger
<1>1. Remembered' = Remembered
  BY DEF source, Remembered
<1>. QED  BY <1>1, QuietStep DEF source

LEMMA LedgerBegins == Init => Ledger!Init
<1>. SUFFICES ASSUME Init PROVE Ledger!Init
  OBVIOUS
<1>1. Remembered = [r \in Rows |-> NoRow]
  BY DEF Init, Remembered
<1>. QED  BY <1>1, LedgerTerms DEF Init, Ledger!Init, Remembered

(* Migration, manifests, hub and retention implement the ledger: while the  *)
(* schema is expanded no timestamp is lost, a wall clock gets an instant at *)
(* most once, and a deleted row stays on record.                            *)
THEOREM TimestampsImplementLedger == Spec => ImplementsLedger
<1>1. Init => Ledger!Init
  BY LedgerBegins
<1>2. ASSUME ExpandInv, [Next]_vars
      PROVE  [Ledger!Next]_Ledger!ledger
  <2>1. CASE UNCHANGED vars \/ Inspect \/ Preflight \/ HubStart \/ HubStop
             \/ \E w \in Writers : Begin(w)
    <3>1. UNCHANGED <<schema, source>>
      BY <2>1 DEF vars, source, Inspect, Preflight, HubStart, HubStop, Begin
    <3>. QED  BY <1>2, <3>1, UnseenByLedger
  <2>2. CASE ExpandUp \/ ExpandDown \/ ApplyRoot \/ \E i \in DOMAIN chain : Supersede(i)
    BY <1>2, <2>2, UpExpands, DownContracts, RootResolves, PromotionResolves
  <2>3. CASE \E r \in Rows : OldInsert(r) \/ OldComplete(r) \/ Retention(r)
    BY <1>2, <2>3, OldInsertRecords, OldCompleteChanges, RetentionDeletes
  <2>4. CASE \E w \in Writers, r \in Rows : WriteInsert(w, r) \/ WriteUpdate(w, r)
    BY <1>2, <2>4, InsertRecords, UpdateChanges
  <2>. QED  BY <1>2, <2>1, <2>2, <2>3, <2>4 DEF Next
<1>. QED  BY <1>1, <1>2, ExpansionInvariant, PTL DEF Spec, ImplementsLedger, Ledger!Spec

-----------------------------------------------------------------------------
(* What the manifests decided, and the way on or back.                      *)

LEMMA RootDecides == ASSUME ExpandInv, ApplyRoot PROVE DecisionsKept'
<1>1. DOMAIN chain' = {1}
  BY RootManifest
<1>. QED  BY <1>1 DEF DecisionsKept

LEMMA PromotionKeeps ==
  ASSUME ExpandInv, DecisionsKept, NEW n \in DOMAIN chain, Supersede(n)
  PROVE  DecisionsKept'
<1>1. PICK m : n = Len(chain) /\ Succeeds(n, m) /\ chain' = Append(chain, m)
  BY Superseding
<1>2. /\ Len(chain) \in Nat /\ DOMAIN chain = 1..Len(chain) /\ DOMAIN chain' = 1..(Len(chain) + 1)
      /\ \A j \in DOMAIN chain : chain'[j] = chain[j]
      /\ chain'[Len(chain) + 1] = m
  BY <1>1, Grown DEF Succeeds, ExpandInv
<1>3. ASSUME NEW i \in DOMAIN chain', NEW j \in DOMAIN chain', i < j
      PROVE  /\ chain'[i].raw = chain'[j].raw
             /\ \A r \in DOMAIN chain'[i].raw, c \in Cols :
                  chain'[i].dec[r][c] # Unresolved => chain'[j].dec[r][c] = chain'[i].dec[r][c]
  <2>1. i \in DOMAIN chain /\ chain'[i] = chain[i]
    BY <1>2, <1>3
  <2>2. CASE j \in DOMAIN chain
    <3>1. chain'[j] = chain[j]
      BY <1>2, <2>2
    <3>. QED  BY <1>3, <2>1, <2>2, <3>1 DEF DecisionsKept, Historical
  <2>3. CASE j \notin DOMAIN chain
    <3>1. chain'[j] = m /\ (i = n \/ i < n)
      BY <1>1, <1>2, <1>3, <2>1, <2>3
    <3>2. /\ chain[i].raw = chain[n].raw
          /\ \A r \in DOMAIN chain[i].raw, c \in Cols :
               chain[i].dec[r][c] # Unresolved => chain[n].dec[r][c] = chain[i].dec[r][c]
      BY <2>1, <3>1 DEF DecisionsKept, Historical
    <3>3. /\ m.raw = chain[n].raw
          /\ \A r \in DOMAIN chain[n].raw, c \in Cols :
               chain[n].dec[r][c] # Unresolved => m.dec[r][c] = chain[n].dec[r][c]
      BY <1>1 DEF Succeeds, validSupersession
    <3>. QED  BY <2>1, <3>1, <3>2, <3>3
  <2>. QED  BY <2>2, <2>3
<1>. QED  BY <1>3 DEF DecisionsKept, Historical

(* Along the chain of manifests a decision is never made again differently. *)
THEOREM ManifestsKeepDecisions == Spec => []DecisionsKept
<1>1. Init => DecisionsKept
  BY DEF Init, DecisionsKept
<1>2. ASSUME ExpandInv, DecisionsKept, [Next]_vars
      PROVE  DecisionsKept'
  <2>1. CASE UNCHANGED chain
    BY <1>2, <2>1 DEF DecisionsKept, Historical
  <2>2. CASE ~ UNCHANGED chain
    <3>1. ApplyRoot \/ \E n \in DOMAIN chain : Supersede(n)
      BY <1>2, <2>2 DEF Next, vars, Inspect, Preflight, ExpandUp, ExpandDown, HubStart, HubStop,
        OldInsert, OldComplete, Retention, Begin, WriteInsert, WriteUpdate
    <3>. QED  BY <1>2, <3>1, RootDecides, PromotionKeeps
  <2>. QED  BY <2>1, <2>2
<1>. QED  BY <1>1, <1>2, ExpansionInvariant, PTL DEF Spec

(* Without a root manifest no row was deleted on record.                    *)
NoneDeleted == Rootless => Deleted = {}

(* If rows are cleaned up only under a serving hub or the old schema, a     *)
(* database that needs its first manifest can go back.                      *)
THEOREM NeverStrandedBetweenSchemas ==
  ASSUME CleanupAnyTime = FALSE
  PROVE  Spec => []NeverStranded
<1>1. Init => NoneDeleted
  BY DEF Init, NoneDeleted, Rootless, NoExpand
<1>2. ASSUME ExpandInv, NoneDeleted, [Next]_vars
      PROVE  NoneDeleted'
  <2>. SUFFICES ASSUME Rootless' PROVE Deleted' = {}
    BY DEF NoneDeleted
  <2>1. CASE UNCHANGED <<life, expand, chain>>
    BY <1>2, <2>1 DEF NoneDeleted, Rootless, Deleted
  <2>2. CASE ExpandUp
    <3>1. schema = 137 /\ UNCHANGED life
      BY <1>2, <2>2 DEF ExpandInv, Phases, ExpandUp, source
    <3>. QED  BY <1>2, <3>1 DEF ExpandInv, DeletedLate, Deleted
  <2>3. CASE ExpandDown
    BY <2>3 DEF ExpandDown, Rootless, NoExpand
  <2>4. CASE ApplyRoot \/ \E i \in DOMAIN chain : Supersede(i)
    <3>1. CASE ApplyRoot
      BY <3>1, <1>2, RootManifest DEF Rootless
    <3>2. CASE \E i \in DOMAIN chain : Supersede(i)
      <4>1. chain # << >> /\ UNCHANGED <<life, expand>>
        BY <3>2 DEF Supersede
      <4>2. PICK i \in DOMAIN chain : Supersede(i)
        BY <3>2
      <4>3. PICK m : Succeeds(i, m) /\ chain' = Append(chain, m)
        BY <1>2, <4>2, Superseding
      <4>4. chain' # << >>
        BY <1>2, <4>3, Grown DEF Succeeds, ExpandInv
      <4>. QED  BY <4>4 DEF Rootless
    <3>. QED  BY <2>4, <3>1, <3>2
  <2>5. ASSUME NEW r \in Rows, OldInsert(r) \/ OldComplete(r)
        PROVE  Deleted' = {}
    BY <1>2, <2>5 DEF ExpandInv, Phases, OldInsert, OldComplete, Rootless
  <2>6. ASSUME NEW r \in Rows, Retention(r)
        PROVE  Deleted' = {}
    BY <1>2, <2>6 DEF ExpandInv, Phases, Retention, Rootless
  <2>7. ASSUME NEW w \in Writers, NEW r \in Rows, WriteInsert(w, r)
        PROVE  Deleted' = {}
    BY <1>2, <2>7, WriterServes DEF WriteInsert, Rootless
  <2>. QED  BY <1>2, <2>1, <2>2, <2>3, <2>4, <2>5, <2>6, <2>7
        DEF Next, vars, Inspect, Preflight, HubStart, HubStop, Begin, WriteUpdate, source
<1>3. NoneDeleted => NeverStranded
  BY DEF NoneDeleted, Rootless, NeverStranded, CanContract
<1>. QED  BY <1>1, <1>2, <1>3, ExpansionInvariant, PTL DEF Spec

-----------------------------------------------------------------------------
(* Readiness, row by row.  v is a row's cells, l its life, t its tombstone, *)
(* b the baseline and ch a chain of manifests.                              *)

Post(v, b) == \A c \in Cols : verifyPostBaselineTimestampCell(v, c, b)
PostRow(l, v, t, b) == (l = "live" => Post(v, b)) /\ (l = "deleted" => Post(t.row, b))

Promoted(ch, i, r, c) ==
  {j \in 2..i : ch[j - 1].dec[r][c] = Unresolved /\ ch[j].dec[r][c] # Unresolved}

LiveHistory(m, r, v, b) ==
  \A c \in Cols : verifyHistoricalTimestampCell(m.raw[r][c], m.dec[r][c], c, v[c], b)

DeletedHistory(ch, i, r, t, b) ==
  \A c \in Cols :
    IF Promoted(ch, i, r, c) # {} /\ t.row[c].inst = 0 /\ t.row[c].raw = ch[i].raw[r][c]
    THEN \A j \in Promoted(ch, i, r, c) : t.at < ch[j].appliedAt
    ELSE verifyHistoricalTimestampCell(ch[i].raw[r][c], ch[i].dec[r][c], c, t.row[c], b)

HistoryRow(ch, i, r, l, v, t, b) ==
  \/ l = "live" /\ LiveHistory(ch[i], r, v, b)
  \/ l = "deleted" /\ DeletedHistory(ch, i, r, t, b)

ZeroHistoryReady(exp, l, v, t, ch) ==
  /\ exp.kind = "ZERO_HISTORY" /\ ch = << >>
  /\ \A r \in Rows : PostRow(l[r], v[r], t[r], exp.at)

Superseded(ch) ==
  \A i \in 2..Len(ch) : ch[i].raw = ch[i - 1].raw /\ validSupersession(ch[i - 1], ch[i].dec)

ManifestReady(exp, l, v, t, ch, i) ==
  /\ exp.kind = "MANIFEST_REQUIRED" /\ ch # << >> /\ Superseded(ch)
  /\ Cardinality(DOMAIN ch[1].raw) = exp.count /\ ch[1].endedAt <= exp.at
  /\ \A r \in DOMAIN ch[i].raw : r \in Rows /\ HistoryRow(ch, i, r, l[r], v[r], t[r], ch[1].verifiedAt)
  /\ \A r \in Rows \ DOMAIN ch[i].raw : PostRow(l[r], v[r], t[r], ch[1].verifiedAt)

Passes(sch, exp, l, v, t, ch) ==
  sch = 138 /\ (ZeroHistoryReady(exp, l, v, t, ch) \/ ManifestReady(exp, l, v, t, ch, Len(ch)))

LEMMA HistoryRowIs ==
  ASSUME NEW i, NEW r
  PROVE  (\A c \in Cols :
            \/ /\ r \in Live
               /\ verifyHistoricalTimestampCell(chain[i].raw[r][c], chain[i].dec[r][c], c,
                                                cell[r][c], lifecycleBaseline)
            \/ /\ r \in Deleted
               /\ verifyDeletedHistoricalTimestampCell(i, r, c, lifecycleBaseline))
         <=> r \in Rows /\ HistoryRow(chain, i, r, life[r], cell[r], tomb[r], chain[1].verifiedAt)
<1>1. "done" \in Cols
  BY DEF Cols
<1>2. ~ (r \in Live /\ r \in Deleted)
  BY DEF Live, Deleted
<1>3. \A c \in Cols : verifyDeletedHistoricalTimestampCell(i, r, c, lifecycleBaseline) <=>
        IF /\ Promoted(chain, i, r, c) # {}
           /\ tomb[r].row[c].inst = 0 /\ tomb[r].row[c].raw = chain[i].raw[r][c]
        THEN \A j \in Promoted(chain, i, r, c) : tomb[r].at < chain[j].appliedAt
        ELSE verifyHistoricalTimestampCell(chain[i].raw[r][c], chain[i].dec[r][c], c,
                                           tomb[r].row[c], chain[1].verifiedAt)
  BY DEF verifyDeletedHistoricalTimestampCell, Promoting, Promoted, lifecycleBaseline
<1>. QED  BY <1>1, <1>2, <1>3 DEF HistoryRow, LiveHistory, DeletedHistory, Live, Deleted, lifecycleBaseline

LEMMA ManifestPasses ==
  ASSUME NEW i
  PROVE  verifyManifest(i) <=>
           /\ \A r \in DOMAIN chain[i].raw :
                r \in Rows /\ HistoryRow(chain, i, r, life[r], cell[r], tomb[r], chain[1].verifiedAt)
           /\ \A r \in Rows \ DOMAIN chain[i].raw : PostRow(life[r], cell[r], tomb[r], chain[1].verifiedAt)
<1>1. (\A r \in Historical(i), c \in Cols :
         \/ /\ r \in Live
            /\ verifyHistoricalTimestampCell(chain[i].raw[r][c], chain[i].dec[r][c], c,
                                             cell[r][c], lifecycleBaseline)
         \/ /\ r \in Deleted
            /\ verifyDeletedHistoricalTimestampCell(i, r, c, lifecycleBaseline))
      <=> \A r \in DOMAIN chain[i].raw :
            r \in Rows /\ HistoryRow(chain, i, r, life[r], cell[r], tomb[r], chain[1].verifiedAt)
  BY HistoryRowIs DEF Historical
<1>2. /\ \A r \in Live \ Historical(i), c \in Cols :
           verifyPostBaselineTimestampCell(cell[r], c, lifecycleBaseline)
      /\ \A r \in Deleted \ Historical(i), c \in Cols :
           verifyPostBaselineTimestampCell(tomb[r].row, c, lifecycleBaseline)
      <=> \A r \in Rows \ DOMAIN chain[i].raw : PostRow(life[r], cell[r], tomb[r], chain[1].verifiedAt)
  BY DEF Historical, Live, Deleted, PostRow, Post, lifecycleBaseline
<1>. QED  BY <1>1, <1>2 DEF verifyManifest

LEMMA ReadyIs == Ready <=> Passes(schema, expand, life, cell, tomb, chain)
<1>1. (expand.kind = "ZERO_HISTORY" /\ checkZeroHistory)
        <=> ZeroHistoryReady(expand, life, cell, tomb, chain)
  BY DEF checkZeroHistory, ZeroHistoryReady, PostRow, Post, Live, Deleted
<1>2. (expand.kind = "MANIFEST_REQUIRED" /\ checkManifestReadiness)
        <=> ManifestReady(expand, life, cell, tomb, chain, Len(chain))
  BY ManifestPasses DEF checkManifestReadiness, ManifestReady, Superseded, rootMatchesExpandState
<1>. QED  BY <1>1, <1>2 DEF Ready, Passes

LEMMA ReadyNext == Ready' <=> Passes(schema', expand', life', cell', tomb', chain')
<1>1. (Ready <=> Passes(schema, expand, life, cell, tomb, chain))'
  BY ReadyIs, PTL
<1>. QED  BY <1>1

Baseline(b) == IF chain = << >> THEN b = expand.at ELSE b = chain[1].verifiedAt

LEMMA BaselineIsPast ==
  ASSUME ExpandInv, NEW b, Baseline(b)
  PROVE  b \in Nat /\ \A w \in Writers : txn[w] # 0 => txn[w] >= b
<1>1. CASE chain = << >>
  BY <1>1 DEF Baseline, ExpandInv, Shape, Times
<1>2. CASE chain # << >>
  <2>1. 1 \in DOMAIN chain
    BY <1>2 DEF ExpandInv, Shape
  <2>. QED  BY <1>2, <2>1, Recorded DEF Baseline, ExpandInv, Times
<1>. QED  BY <1>1, <1>2

LEMMA TipIsThere ==
  ASSUME ExpandInv, chain # << >>
  PROVE  Len(chain) \in DOMAIN chain /\ 1 \in DOMAIN chain /\ Len(chain) \in Nat \ {0}
  BY DEF ExpandInv, Shape

(* A step of one row leaves a database ready, if that row still passes.     *)
LEMMA OneRow ==
  ASSUME ExpandInv, Ready, UNCHANGED <<schema, expand, chain>>, NEW r \in Rows,
         \A s \in Rows \ {r} : life'[s] = life[s] /\ cell'[s] = cell[s] /\ tomb'[s] = tomb[s],
         \A b : Baseline(b) /\ PostRow(life[r], cell[r], tomb[r], b)
                  => PostRow(life'[r], cell'[r], tomb'[r], b),
         \A b : /\ chain # << >> /\ Superseded(chain) /\ Baseline(b)
                /\ r \in DOMAIN chain[Len(chain)].raw
                /\ HistoryRow(chain, Len(chain), r, life[r], cell[r], tomb[r], b)
                => HistoryRow(chain, Len(chain), r, life'[r], cell'[r], tomb'[r], b)
  PROVE  Ready'
<1>1. Passes(schema, expand, life, cell, tomb, chain)
  BY ReadyIs
<1>2. CASE ZeroHistoryReady(expand, life, cell, tomb, chain)
  <2>1. Baseline(expand.at)
    BY <1>2 DEF ZeroHistoryReady, Baseline
  <2>2. \A s \in Rows : PostRow(life'[s], cell'[s], tomb'[s], expand.at)
    BY <1>2, <2>1 DEF ZeroHistoryReady
  <2>3. ZeroHistoryReady(expand', life', cell', tomb', chain')
    BY <1>2, <2>2 DEF ZeroHistoryReady
  <2>. QED  BY <1>1, <2>3, ReadyNext DEF Passes
<1>3. CASE ManifestReady(expand, life, cell, tomb, chain, Len(chain))
  <2>. DEFINE b == chain[1].verifiedAt
              n == Len(chain)
  <2>1. chain # << >> /\ Superseded(chain) /\ Baseline(b)
    BY <1>3 DEF ManifestReady, Baseline
  <2>2. /\ \A s \in DOMAIN chain[n].raw : s \in Rows /\ HistoryRow(chain, n, s, life[s], cell[s], tomb[s], b)
        /\ \A s \in Rows \ DOMAIN chain[n].raw : PostRow(life[s], cell[s], tomb[s], b)
    BY <1>3 DEF ManifestReady
  <2>3. \A s \in DOMAIN chain[n].raw : s \in Rows /\ HistoryRow(chain, n, s, life'[s], cell'[s], tomb'[s], b)
    BY <2>1, <2>2
  <2>4. \A s \in Rows \ DOMAIN chain[n].raw : PostRow(life'[s], cell'[s], tomb'[s], b)
    BY <2>1, <2>2
  <2>5. ManifestReady(expand', life', cell', tomb', chain', Len(chain'))
    BY <1>3, <2>3, <2>4 DEF ManifestReady
  <2>. QED  BY <1>1, <2>5, ReadyNext DEF Passes
<1>. QED  BY <1>1, <1>2, <1>3 DEF Passes

LEMMA InsertStaysReady ==
  ASSUME ExpandInv, Ready, NEW w \in Writers, NEW r \in Rows, WriteInsert(w, r)
  PROVE  Ready'
<1>1. life[r] = "none" /\ life' = [life EXCEPT ![r] = "live"] /\ tomb' = tomb /\ txn[w] # 0
  BY DEF WriteInsert
<1>2. \A s \in Rows \ {r} : life'[s] = life[s] /\ cell'[s] = cell[s] /\ tomb'[s] = tomb[s]
  BY <1>1, InsertCells DEF ExpandInv, Shape
<1>3. ASSUME NEW b, Baseline(b)
      PROVE  PostRow(life'[r], cell'[r], tomb'[r], b)
  <2>1. life'[r] = "live"
    BY <1>1 DEF ExpandInv, Shape
  <2>2. cell'[r]["created"] = Now(w) /\ \A c \in Cols : cell'[r][c].raw = cell'[r][c].inst
    <3>1. cell[r] = NoRow
      BY <1>1 DEF ExpandInv, BlankUnlessLive
    <3>. QED  BY <3>1, InsertCells, NowIsExact, NoRowCells DEF Cols, ExpandInv
  <2>3. txn[w] >= b
    BY <1>1, <1>3, BaselineIsPast
  <2>. QED  BY <1>1, <2>1, <2>2, <2>3, NowIsExact
            DEF PostRow, Post, verifyPostBaselineTimestampCell, requireExactUTCTimestampPair, ExpandInv
<1>4. chain # << >> => r \notin DOMAIN chain[Len(chain)].raw
  BY <1>1, TipIsThere DEF ExpandInv, HistoryExisted
<1>. QED  BY <1>2, <1>3, <1>4, OneRow DEF WriteInsert

LEMMA UpdateStaysReady ==
  ASSUME ExpandInv, Ready, NEW w \in Writers, NEW r \in Rows, WriteUpdate(w, r)
  PROVE  Ready'
<1>1. life[r] = "live" /\ life' = life /\ tomb' = tomb /\ txn[w] # 0
  BY DEF WriteUpdate, Live
<1>2. /\ cell'[r]["created"] = cell[r]["created"] /\ cell'[r]["updated"] = Now(w)
      /\ \/ cell'[r]["done"] = cell[r]["done"]
         \/ cell[r]["done"].raw = 0 /\ cell'[r]["done"] = Now(w)
      /\ \A s \in Rows \ {r} : cell'[s] = cell[s]
  BY UpdateCells DEF ExpandInv
<1>3. Now(w).raw = txn[w] /\ Now(w).inst = txn[w] /\ txn[w] \in Nat /\ txn[w] <= MaxClock
  <2>1. txn[w] \in Nat /\ txn[w] <= clock /\ clock \in 1..MaxClock
    BY DEF ExpandInv, Shape, Times
  <2>. QED  BY <2>1, NowIsExact, ClockAssumption DEF ExpandInv
<1>4. ASSUME NEW b, Baseline(b), PostRow(life[r], cell[r], tomb[r], b)
      PROVE  PostRow(life'[r], cell'[r], tomb'[r], b)
  <2>1. Post(cell[r], b)
    BY <1>1, <1>4 DEF PostRow
  <2>2. \A c \in Cols : c = "created" \/ c = "updated" \/ c = "done"
    BY DEF Cols
  <2>3. Post(cell'[r], b)
    BY <1>2, <1>3, <2>1, <2>2
       DEF Post, verifyPostBaselineTimestampCell, requireExactUTCTimestampPair
  <2>. QED  BY <1>1, <2>3 DEF PostRow
<1>5. ASSUME chain # << >>, NEW b, Baseline(b), r \in DOMAIN chain[Len(chain)].raw,
             HistoryRow(chain, Len(chain), r, life[r], cell[r], tomb[r], b)
      PROVE  HistoryRow(chain, Len(chain), r, life'[r], cell'[r], tomb'[r], b)
  <2>. DEFINE m == chain[Len(chain)]
  <2>1. LiveHistory(m, r, cell[r], b)
    BY <1>1, <1>5 DEF HistoryRow
  <2>2. \A c \in Cols : m.raw[r][c] = 0 \/ m.raw[r][c] > MaxClock
    BY <1>5, TipIsThere DEF ExpandInv, ManifestsOK, ManifestOK
  <2>3. txn[w] >= b /\ txn[w] # 0
    BY <1>1, <1>5, BaselineIsPast
  <2>4. \A c \in Cols : m.raw[r][c] \in Int
    <3>1. m.raw \in Readings
      BY <1>5, TipIsThere, Recorded DEF ExpandInv
    <3>. QED  BY <1>5, <3>1 DEF Readings
  <2>. HIDE DEF m
  <2>5. ASSUME NEW c \in Cols
        PROVE  verifyHistoricalTimestampCell(m.raw[r][c], m.dec[r][c], c, cell'[r][c], b)
    <3>1. verifyHistoricalTimestampCell(m.raw[r][c], m.dec[r][c], c, cell[r][c], b)
      BY <2>1 DEF LiveHistory
    <3>2. m.raw[r][c] # txn[w]
      BY <1>3, <2>2, <2>3, <2>4, ClockAssumption
    <3>3. CASE c = "updated"
      BY <1>2, <1>3, <2>3, <3>2, <3>3
         DEF verifyHistoricalTimestampCell, requireExactUTCTimestampPair
    <3>4. CASE cell'[r][c] = cell[r][c]
      BY <3>1, <3>4
    <3>5. CASE c = "done" /\ cell[r][c].raw = 0 /\ cell'[r][c] = Now(w)
      <4>1. m.raw[r][c] = 0
        BY <3>1, <3>5 DEF verifyHistoricalTimestampCell, requireExactUTCTimestampPair
      <4>. QED  BY <1>3, <2>3, <3>2, <3>5, <4>1
                DEF verifyHistoricalTimestampCell, requireExactUTCTimestampPair
    <3>6. c = "created" \/ c = "updated" \/ c = "done"
      BY DEF Cols
    <3>. QED  BY <1>2, <3>3, <3>4, <3>5, <3>6
  <2>6. LiveHistory(m, r, cell'[r], b)
    BY <2>5 DEF LiveHistory
  <2>. QED  BY <1>1, <2>6 DEF HistoryRow, m
<1>. QED  BY <1>1, <1>2, <1>4, <1>5, OneRow DEF WriteUpdate

(* A cell that some manifest promoted has an instant in the tip.            *)
LEMMA PromotedIsDecided ==
  ASSUME ExpandInv, DecisionsKept, Superseded(chain), chain # << >>,
         NEW r \in DOMAIN chain[Len(chain)].raw, NEW c \in Cols,
         NEW j \in Promoted(chain, Len(chain), r, c)
  PROVE  chain[Len(chain)].dec[r][c] \notin {0, Unresolved}
<1>. DEFINE n == Len(chain)
<1>1. /\ DOMAIN chain = 1..n /\ n \in Nat /\ j \in 2..n
      /\ chain[j - 1].dec[r][c] = Unresolved /\ chain[j].dec[r][c] # Unresolved
  BY DEF Promoted, ExpandInv, Shape
<1>2. j \in DOMAIN chain /\ j - 1 \in DOMAIN chain /\ j - 1 < n /\ n \in DOMAIN chain
  BY <1>1
<1>3. chain[j - 1].raw = chain[n].raw /\ (j = n \/ chain[j].raw = chain[n].raw)
  BY <1>1, <1>2 DEF DecisionsKept
<1>4. validSupersession(chain[j - 1], chain[j].dec)
  BY <1>1 DEF Superseded
<1>5. chain[j].dec[r][c] # 0
  BY <1>1, <1>3, <1>4 DEF validSupersession
<1>6. j = n \/ chain[n].dec[r][c] = chain[j].dec[r][c]
  BY <1>1, <1>2, <1>3 DEF DecisionsKept, Historical
<1>. QED  BY <1>1, <1>5, <1>6

LEMMA RetentionStaysReady ==
  ASSUME ExpandInv, DecisionsKept, Ready, NEW r \in Rows, Retention(r)
  PROVE  Ready'
<1>1. schema = 138 /\ UNCHANGED <<schema, expand, chain>>
  BY DEF Ready, Retention
<1>2. /\ life[r] = "live" /\ cell' = [cell EXCEPT ![r] = NoRow]
      /\ life' = [life EXCEPT ![r] = "deleted"]
      /\ tomb' = [tomb EXCEPT ![r] = [row |-> cell[r], at |-> clock]]
  BY <1>1, RetentionCells DEF ExpandInv
<1>3. \A s \in Rows \ {r} : life'[s] = life[s] /\ cell'[s] = cell[s] /\ tomb'[s] = tomb[s]
  BY <1>2 DEF ExpandInv, Shape
<1>4. life'[r] = "deleted" /\ tomb'[r].row = cell[r]
  BY <1>2 DEF ExpandInv, Shape
<1>5. \A b : PostRow(life[r], cell[r], tomb[r], b) => PostRow(life'[r], cell'[r], tomb'[r], b)
  BY <1>2, <1>4 DEF PostRow
<1>6. ASSUME chain # << >>, Superseded(chain), NEW b, r \in DOMAIN chain[Len(chain)].raw,
             HistoryRow(chain, Len(chain), r, life[r], cell[r], tomb[r], b)
      PROVE  HistoryRow(chain, Len(chain), r, life'[r], cell'[r], tomb'[r], b)
  <2>1. LiveHistory(chain[Len(chain)], r, cell[r], b)
    BY <1>2, <1>6 DEF HistoryRow
  <2>2. ASSUME NEW c \in Cols
        PROVE  ~ /\ Promoted(chain, Len(chain), r, c) # {}
                 /\ cell[r][c].inst = 0 /\ cell[r][c].raw = chain[Len(chain)].raw[r][c]
    <3>. SUFFICES ASSUME NEW j \in Promoted(chain, Len(chain), r, c),
                         cell[r][c].inst = 0, cell[r][c].raw = chain[Len(chain)].raw[r][c]
                  PROVE  FALSE
      OBVIOUS
    <3>1. chain[Len(chain)].dec[r][c] \notin {0, Unresolved}
      BY <1>6, PromotedIsDecided
    <3>. QED  BY <2>1, <3>1 DEF LiveHistory, verifyHistoricalTimestampCell
  <2>3. DeletedHistory(chain, Len(chain), r, tomb'[r], b)
    BY <1>4, <2>1, <2>2 DEF DeletedHistory, LiveHistory
  <2>. QED  BY <1>4, <2>3 DEF HistoryRow
<1>. QED  BY <1>1, <1>3, <1>5, <1>6, OneRow

LEMMA PromotionStaysReady ==
  ASSUME ExpandInv, Ready, NEW n \in DOMAIN chain, Supersede(n)
  PROVE  Ready'
<1>1. PICK m : /\ n = Len(chain) /\ Succeeds(n, m)
               /\ chain' = Append(chain, m) /\ Fill(promotedFill(n, m.dec), m.dec)
  BY Superseding
<1>2. /\ Len(chain) \in Nat /\ DOMAIN chain = 1..n /\ DOMAIN chain' = 1..(n + 1)
      /\ Len(chain') = n + 1
      /\ \A j \in DOMAIN chain : chain'[j] = chain[j]
      /\ chain'[n + 1] = m
  BY <1>1, Grown DEF Succeeds, ExpandInv
<1>3. /\ n \in Nat \ {0} /\ chain # << >> /\ chain' # << >> /\ chain'[1] = chain[1]
      /\ UNCHANGED <<schema, expand, life, tomb>>
  BY <1>1, <1>2 DEF Supersede
<1>. DEFINE b == chain[1].verifiedAt
<1>4. schema = 138 /\ ManifestReady(expand, life, cell, tomb, chain, n)
  BY <1>1, <1>3, ReadyIs DEF Passes, ZeroHistoryReady
<1>5. m.raw = chain[n].raw /\ validSupersession(chain[n], m.dec) /\ DOMAIN m.raw \subseteq Rows
  BY <1>1, Recorded DEF Succeeds, ExpandInv
<1>6. Superseded(chain')
  <2>. SUFFICES ASSUME NEW i \in 2..(n + 1)
                PROVE  chain'[i].raw = chain'[i - 1].raw /\ validSupersession(chain'[i - 1], chain'[i].dec)
    BY <1>2 DEF Superseded
  <2>1. CASE i = n + 1
    BY <1>2, <1>3, <1>5, <2>1
  <2>2. CASE i # n + 1
    <3>1. i \in 2..n /\ i \in DOMAIN chain /\ i - 1 \in DOMAIN chain
      BY <1>2, <1>3, <2>2
    <3>. QED  BY <1>1, <1>2, <1>4, <3>1 DEF ManifestReady, Superseded
  <2>. QED  BY <2>1, <2>2
<1>7. ASSUME NEW r \in DOMAIN m.raw
      PROVE  r \in Rows /\ HistoryRow(chain, n, r, life[r], cell[r], tomb[r], b)
  BY <1>4, <1>5 DEF ManifestReady
<1>8. ASSUME NEW r \in DOMAIN m.raw, life[r] = "live"
      PROVE  LiveHistory(m, r, cell'[r], b)
  <2>1. LiveHistory(chain[n], r, cell[r], b)
    BY <1>7, <1>8 DEF HistoryRow
  <2>2. ASSUME NEW c \in Cols
        PROVE  verifyHistoricalTimestampCell(m.raw[r][c], m.dec[r][c], c, cell'[r][c], b)
    <3>0. verifyHistoricalTimestampCell(m.raw[r][c], chain[n].dec[r][c], c, cell[r][c], b)
      BY <1>5, <2>1 DEF LiveHistory
    <3>1. /\ cell'[r][c].raw = cell[r][c].raw
          /\ <<r, c>> \in promotedFill(n, m.dec) => cell'[r][c].inst = m.dec[r][c]
          /\ <<r, c>> \notin promotedFill(n, m.dec) => cell'[r][c] = cell[r][c]
      BY <1>1, <1>5, FillOfPromoted
    <3>2. CASE <<r, c>> \in promotedFill(n, m.dec)
      <4>1. m.dec[r][c] # Unresolved /\ cell[r][c].raw = m.raw[r][c]
        BY <1>5, <3>2 DEF promotedFill
      <4>. QED  BY <3>1, <3>2, <4>1 DEF verifyHistoricalTimestampCell
    <3>3. CASE <<r, c>> \notin promotedFill(n, m.dec)
      <4>1. \/ m.dec[r][c] = chain[n].dec[r][c]
            \/ cell[r][c].raw # m.raw[r][c]
        BY <1>5, <1>7, <1>8, <3>3 DEF promotedFill, validSupersession, Historical, Live, Unresolved
      <4>. QED  BY <3>0, <3>1, <3>3, <4>1 DEF verifyHistoricalTimestampCell
    <3>. QED  BY <3>2, <3>3
  <2>. QED  BY <2>2 DEF LiveHistory
<1>9. ASSUME NEW r \in DOMAIN m.raw, life[r] = "deleted"
      PROVE  DeletedHistory(chain', n + 1, r, tomb[r], b)
  <2>1. DeletedHistory(chain, n, r, tomb[r], b)
    BY <1>7, <1>9 DEF HistoryRow
  <2>2. ASSUME NEW c \in Cols
        PROVE  IF /\ Promoted(chain', n + 1, r, c) # {}
                  /\ tomb[r].row[c].inst = 0 /\ tomb[r].row[c].raw = m.raw[r][c]
               THEN \A j \in Promoted(chain', n + 1, r, c) : tomb[r].at < chain'[j].appliedAt
               ELSE verifyHistoricalTimestampCell(m.raw[r][c], m.dec[r][c], c, tomb[r].row[c], b)
    <3>. DEFINE asRead == tomb[r].row[c].inst = 0 /\ tomb[r].row[c].raw = m.raw[r][c]
    <3>1. \A j \in 2..n : j \in Promoted(chain', n + 1, r, c) <=> j \in Promoted(chain, n, r, c)
      <4>. SUFFICES ASSUME NEW j \in 2..n
                    PROVE  chain'[j - 1] = chain[j - 1] /\ chain'[j] = chain[j] /\ j \in 2..(n + 1)
        BY DEF Promoted
      <4>1. j \in 1..n /\ j - 1 \in 1..n /\ j \in 2..(n + 1)
        BY <1>3
      <4>. QED  BY <1>2, <4>1
    <3>2. n + 1 \in Promoted(chain', n + 1, r, c) <=>
            chain[n].dec[r][c] = Unresolved /\ m.dec[r][c] # Unresolved
      <4>1. n + 1 \in 2..(n + 1) /\ (n + 1) - 1 = n
        BY <1>3
      <4>2. chain'[n] = chain[n] /\ chain'[n + 1] = m
        BY <1>2
      <4>. QED  BY <4>1, <4>2 DEF Promoted
    <3>3. \A j \in Promoted(chain', n + 1, r, c) : j \in 2..n \/ j = n + 1
      BY <1>3 DEF Promoted
    <3>4. \A j \in Promoted(chain, n, r, c) : j \in 2..n /\ chain'[j] = chain[j]
      BY <1>2, <1>3 DEF Promoted
    <3>5. IF Promoted(chain, n, r, c) # {} /\ asRead
          THEN \A j \in Promoted(chain, n, r, c) : tomb[r].at < chain[j].appliedAt
          ELSE verifyHistoricalTimestampCell(m.raw[r][c], chain[n].dec[r][c], c, tomb[r].row[c], b)
      BY <1>5, <2>1 DEF DeletedHistory
    <3>6. n + 1 \in Promoted(chain', n + 1, r, c) => asRead
      <4>1. r \in Historical(n) \cap Deleted
        BY <1>5, <1>7, <1>9 DEF Historical, Deleted
      <4>. QED  BY <1>1, <1>5, <3>2, <4>1 DEF Succeeds, deletedPromotable
    <3>7. m.dec[r][c] = chain[n].dec[r][c] \/ n + 1 \in Promoted(chain', n + 1, r, c)
      BY <1>5, <3>2 DEF validSupersession, Unresolved
    <3>8. CASE Promoted(chain', n + 1, r, c) # {} /\ asRead
      <4>1. ASSUME NEW j \in Promoted(chain', n + 1, r, c)
            PROVE  tomb[r].at < chain'[j].appliedAt
        <5>1. CASE j \in 2..n
          BY <3>1, <3>4, <3>5, <3>8, <5>1
        <5>2. CASE j = n + 1
          <6>1. tomb[r].at < clock
            BY <1>7 DEF ExpandInv, Times
          <6>. QED  BY <1>1, <1>2, <5>2, <6>1 DEF Succeeds
        <5>. QED  BY <3>3, <5>1, <5>2
      <4>. QED  BY <3>8, <4>1
    <3>9. CASE ~ (Promoted(chain', n + 1, r, c) # {} /\ asRead)
      <4>1. n + 1 \notin Promoted(chain', n + 1, r, c)
        BY <3>6, <3>9
      <4>2. ~ (Promoted(chain, n, r, c) # {} /\ asRead)
        BY <3>1, <3>4, <3>9
      <4>. QED  BY <3>5, <3>7, <3>9, <4>1, <4>2
    <3>. QED  BY <3>8, <3>9
  <2>3. chain'[n + 1] = m
    BY <1>2
  <2>. QED  BY <2>2, <2>3 DEF DeletedHistory
<1>10. ASSUME NEW r \in DOMAIN m.raw
       PROVE  r \in Rows /\ HistoryRow(chain', n + 1, r, life'[r], cell'[r], tomb'[r], b)
  <2>1. r \in Rows /\ (life[r] = "live" \/ life[r] = "deleted")
    BY <1>7 DEF HistoryRow
  <2>2. chain'[n + 1] = m
    BY <1>2
  <2>. QED  BY <1>3, <1>8, <1>9, <2>1, <2>2 DEF HistoryRow
<1>11. ASSUME NEW r \in Rows \ DOMAIN m.raw
       PROVE  PostRow(life'[r], cell'[r], tomb'[r], b)
  <2>1. cell'[r] = cell[r]
    BY <1>1, <1>5, FillOfPromoted DEF Historical
  <2>. QED  BY <1>3, <1>4, <1>5, <2>1 DEF ManifestReady
<1>12. ManifestReady(expand', life', cell', tomb', chain', n + 1)
  BY <1>2, <1>3, <1>4, <1>6, <1>10, <1>11 DEF ManifestReady
<1>. QED  BY <1>2, <1>3, <1>4, <1>12, ReadyNext DEF Passes

(* A database that passed the readiness gate goes on passing it: no write   *)
(* of a hub, no retention and no further manifest closes it again.          *)
THEOREM ReadinessLasts == Spec => ReadyStaysReady
<1>1. ASSUME ExpandInv, DecisionsKept, [Next]_vars, Ready, schema' = 138
      PROVE  Ready'
  <2>1. CASE UNCHANGED <<schema, expand, life, cell, tomb, chain>>
    BY <1>1, <2>1, ReadyIs, ReadyNext
  <2>2. schema = 138 /\ (expand.kind = "MANIFEST_REQUIRED" => chain # << >>)
    BY <1>1 DEF Ready, checkManifestReadiness
  <2>3. ~ ExpandUp /\ ~ ExpandDown /\ ~ ApplyRoot
    <3>1. ~ ApplyRoot
      BY <1>1, <2>2, RootManifest DEF Rootless
    <3>2. ~ ExpandUp
      BY <1>1, <2>2 DEF ExpandUp, ExpandInv, Phases
    <3>. QED  BY <1>1, <3>1, <3>2 DEF ExpandDown
  <2>4. \A r \in Rows : ~ OldInsert(r) /\ ~ OldComplete(r)
    BY <2>2 DEF OldInsert, OldComplete
  <2>5. CASE \E n \in DOMAIN chain : Supersede(n)
    BY <1>1, <2>5, PromotionStaysReady
  <2>6. CASE \E r \in Rows : Retention(r)
    BY <1>1, <2>6, RetentionStaysReady
  <2>7. CASE \E w \in Writers, r \in Rows : WriteInsert(w, r) \/ WriteUpdate(w, r)
    BY <1>1, <2>7, InsertStaysReady, UpdateStaysReady
  <2>. QED  BY <1>1, <2>1, <2>3, <2>4, <2>5, <2>6, <2>7
        DEF Next, vars, Inspect, Preflight, HubStart, HubStop, Begin, source
<1>2. ASSUME ExpandInv, DecisionsKept, [Next]_vars
      PROVE  [Ready /\ schema' = 138 => Ready']_vars
  BY <1>1, <1>2
<1>. QED  BY <1>2, ExpansionInvariant, ManifestsKeepDecisions, PTL DEF Spec, ReadyStaysReady

-----------------------------------------------------------------------------
(* The recovery of a dirty marker.  What a process that is at a step of a   *)
(* migration or of a recovery can rely on.                                  *)

UnderLock == {"mark", "sql", "commit", "unmark", "restore", "tables", "check", "force", "verify", "seen"}
UnderEngine == {"sql", "commit", "unmark"}
UnderTables == {"commit", "check", "force", "verify", "seen"}
Reserving == Recovery!Applying \cup {"publishSeen"}

Steps == Reserving \cup {"idle", "mark", "sql", "commit", "unmark", "restore", "plan"}

RunnerShape ==
  /\ pc \in [Procs -> Steps] /\ goal \in [Procs -> {0, 137, 138}]
  /\ orphan \in {0, 137, 138}

(* Who holds what: a process that sent SQL has golang-migrate's lock and    *)
(* has marked its goal dirty; SQL without a client keeps that lock.         *)
Holds(p) ==
  /\ pc[p] \in UnderLock => lock = p
  /\ pc[p] \in UnderEngine => engine = p /\ marker = Recovery!Dirty(goal[p])
  /\ pc[p] \in UnderEngine \cup {"mark"} => goal[p] # 0
  /\ pc[p] \in UnderTables => tables = p
  /\ pc[p] = "restore" => orphan = 0
OrphanHolds ==
  /\ orphan # 0 <=> engine = Server
  /\ orphan # 0 => marker.dirty

(* What a process found in the catalog, or brought about, is still there.   *)
Found(p) ==
  /\ pc[p] = "unmark" => shape = goal[p]
  /\ pc[p] = "force" => shape = plan.force
  /\ pc[p] \in Recovery!Applying => plan # Recovery!NoPlan

(* A reservation is one process's, until the deployment moves it aside.     *)
OneReservation ==
  \A p \in Procs : pc[p] \in Reserving =>
    reserved /\ \A q \in Procs : pc[q] \in Reserving => p = q

RecoveryInv ==
  /\ RunnerShape /\ (\A p \in Procs : Holds(p) /\ Found(p)) /\ OrphanHolds
  /\ OneReservation
  /\ Recovery!CleanMeansMatching /\ Recovery!ProtectedStays138

LEMMA StartRunner ==
  ASSUME RecoveryInv, NEW p \in Procs, NEW t \in Recovery!Versions, Recovery!Start(p, t)
  PROVE  RecoveryInv'
<1>. USE ProcessesNamed DEF RecoveryInv, Recovery!Start, Recovery!preflight, Recovery!Versions, Recovery!Step, Recovery!Release, Recovery!Free,
         Recovery!Clean, Recovery!Dirty, Recovery!db, Recovery!locks, Recovery!files
<1>1. RunnerShape'
  BY DEF RunnerShape, Steps, Reserving, Recovery!Applying
<1>2. ASSUME NEW q \in Procs
      PROVE  Holds(q)'
  BY DEF RunnerShape, Holds, OrphanHolds, UnderLock, UnderEngine, UnderTables
<1>3. ASSUME NEW q \in Procs
      PROVE  Found(q)'
  BY DEF RunnerShape, Holds, Found, UnderLock, UnderEngine, UnderTables, Recovery!Applying
<1>4. OrphanHolds'
  BY DEF RunnerShape, Holds, OrphanHolds, UnderLock, UnderEngine
<1>5. OneReservation'
  BY DEF RunnerShape, OneReservation, Reserving, Recovery!Applying
<1>6. Recovery!CleanMeansMatching' /\ Recovery!ProtectedStays138'
  BY DEF RunnerShape, Holds, Found, UnderEngine, Recovery!CleanMeansMatching, Recovery!ProtectedStays138
<1>. QED  BY <1>1, <1>2, <1>3, <1>4, <1>5, <1>6

LEMMA MarkRunner ==
  ASSUME RecoveryInv, NEW p \in Procs, Recovery!Mark(p)
  PROVE  RecoveryInv'
<1>. USE ProcessesNamed DEF RecoveryInv, Recovery!Mark, Recovery!Step, Recovery!Release, Recovery!Free,
         Recovery!Clean, Recovery!Dirty, Recovery!db, Recovery!locks, Recovery!files
<1>1. RunnerShape'
  BY DEF RunnerShape, Steps, Reserving, Recovery!Applying
<1>2. ASSUME NEW q \in Procs
      PROVE  Holds(q)'
  <2>1. lock = p /\ engine = None /\ pc[p] = "mark"
    BY DEF Holds, UnderLock
  <2>2. CASE q = p
    BY <2>1, <2>2 DEF RunnerShape, Holds, UnderLock, UnderEngine, UnderTables
  <2>3. CASE q # p
    <3>1. pc'[q] = pc[q] /\ pc[q] \notin UnderLock
      BY <2>1, <2>3 DEF RunnerShape, Holds
    <3>. QED  BY <3>1 DEF Holds, UnderLock, UnderEngine, UnderTables
  <2>. QED  BY <2>2, <2>3
<1>3. ASSUME NEW q \in Procs
      PROVE  Found(q)'
  BY DEF RunnerShape, Holds, Found, UnderLock, UnderEngine, UnderTables, Recovery!Applying
<1>4. OrphanHolds'
  BY DEF RunnerShape, Holds, OrphanHolds, UnderLock, UnderEngine
<1>5. OneReservation'
  BY DEF RunnerShape, OneReservation, Reserving, Recovery!Applying
<1>6. Recovery!CleanMeansMatching' /\ Recovery!ProtectedStays138'
  BY DEF RunnerShape, Holds, Found, UnderEngine, Recovery!CleanMeansMatching, Recovery!ProtectedStays138
<1>. QED  BY <1>1, <1>2, <1>3, <1>4, <1>5, <1>6

LEMMA BeginSqlRunner ==
  ASSUME RecoveryInv, NEW p \in Procs, Recovery!BeginSql(p)
  PROVE  RecoveryInv'
<1>. USE ProcessesNamed DEF RecoveryInv, Recovery!BeginSql, Recovery!Step, Recovery!Release, Recovery!Free,
         Recovery!Clean, Recovery!Dirty, Recovery!db, Recovery!locks, Recovery!files
<1>1. RunnerShape'
  BY DEF RunnerShape, Steps, Reserving, Recovery!Applying
<1>2. ASSUME NEW q \in Procs
      PROVE  Holds(q)'
  BY DEF RunnerShape, Holds, OrphanHolds, UnderLock, UnderEngine, UnderTables
<1>3. ASSUME NEW q \in Procs
      PROVE  Found(q)'
  BY DEF RunnerShape, Holds, Found, UnderLock, UnderEngine, UnderTables, Recovery!Applying
<1>4. OrphanHolds'
  BY DEF RunnerShape, Holds, OrphanHolds, UnderLock, UnderEngine
<1>5. OneReservation'
  BY DEF RunnerShape, OneReservation, Reserving, Recovery!Applying
<1>6. Recovery!CleanMeansMatching' /\ Recovery!ProtectedStays138'
  BY DEF RunnerShape, Holds, Found, UnderEngine, Recovery!CleanMeansMatching, Recovery!ProtectedStays138
<1>. QED  BY <1>1, <1>2, <1>3, <1>4, <1>5, <1>6

LEMMA CommitSqlRunner ==
  ASSUME RecoveryInv, NEW p \in Procs, Recovery!CommitSql(p)
  PROVE  RecoveryInv'
<1>. USE ProcessesNamed DEF RecoveryInv, Recovery!CommitSql, Recovery!Refused, Recovery!Step, Recovery!Release, Recovery!Free,
         Recovery!Clean, Recovery!Dirty, Recovery!db, Recovery!locks, Recovery!files
<1>1. RunnerShape'
  BY DEF RunnerShape, Steps, Reserving, Recovery!Applying
<1>2. ASSUME NEW q \in Procs
      PROVE  Holds(q)'
  BY DEF RunnerShape, Holds, OrphanHolds, UnderLock, UnderEngine, UnderTables
<1>3. ASSUME NEW q \in Procs
      PROVE  Found(q)'
  BY DEF RunnerShape, Holds, Found, UnderLock, UnderEngine, UnderTables, Recovery!Applying
<1>4. OrphanHolds'
  BY DEF RunnerShape, Holds, OrphanHolds, UnderLock, UnderEngine
<1>5. OneReservation'
  BY DEF RunnerShape, OneReservation, Reserving, Recovery!Applying
<1>6. Recovery!CleanMeansMatching' /\ Recovery!ProtectedStays138'
  BY DEF RunnerShape, Holds, Found, UnderEngine, Recovery!CleanMeansMatching, Recovery!ProtectedStays138
<1>. QED  BY <1>1, <1>2, <1>3, <1>4, <1>5, <1>6

LEMMA UnmarkRunner ==
  ASSUME RecoveryInv, NEW p \in Procs, Recovery!Unmark(p)
  PROVE  RecoveryInv'
<1>. USE ProcessesNamed DEF RecoveryInv, Recovery!Unmark, Recovery!Step, Recovery!Release, Recovery!Free,
         Recovery!Clean, Recovery!Dirty, Recovery!db, Recovery!locks, Recovery!files
<1>1. RunnerShape'
  BY DEF RunnerShape, Steps, Reserving, Recovery!Applying
<1>2. ASSUME NEW q \in Procs
      PROVE  Holds(q)'
  BY DEF RunnerShape, Holds, OrphanHolds, UnderLock, UnderEngine, UnderTables
<1>3. ASSUME NEW q \in Procs
      PROVE  Found(q)'
  BY DEF RunnerShape, Holds, Found, UnderLock, UnderEngine, UnderTables, Recovery!Applying
<1>4. OrphanHolds'
  BY DEF RunnerShape, Holds, OrphanHolds, UnderLock, UnderEngine
<1>5. OneReservation'
  BY DEF RunnerShape, OneReservation, Reserving, Recovery!Applying
<1>6. Recovery!CleanMeansMatching' /\ Recovery!ProtectedStays138'
  BY DEF RunnerShape, Holds, Found, UnderEngine, Recovery!CleanMeansMatching, Recovery!ProtectedStays138
<1>. QED  BY <1>1, <1>2, <1>3, <1>4, <1>5, <1>6

LEMMA RefuseSqlRunner ==
  ASSUME RecoveryInv, NEW p \in Procs, Recovery!RefuseSql(p)
  PROVE  RecoveryInv'
<1>. USE ProcessesNamed DEF RecoveryInv, Recovery!RefuseSql, Recovery!Step, Recovery!Release, Recovery!Free,
         Recovery!Clean, Recovery!Dirty, Recovery!db, Recovery!locks, Recovery!files
<1>1. RunnerShape'
  BY DEF RunnerShape, Steps, Reserving, Recovery!Applying
<1>2. ASSUME NEW q \in Procs
      PROVE  Holds(q)'
  BY DEF RunnerShape, Holds, OrphanHolds, UnderLock, UnderEngine, UnderTables
<1>3. ASSUME NEW q \in Procs
      PROVE  Found(q)'
  BY DEF RunnerShape, Holds, Found, UnderLock, UnderEngine, UnderTables, Recovery!Applying
<1>4. OrphanHolds'
  BY DEF RunnerShape, Holds, OrphanHolds, UnderLock, UnderEngine
<1>5. OneReservation'
  BY DEF RunnerShape, OneReservation, Reserving, Recovery!Applying
<1>6. Recovery!CleanMeansMatching' /\ Recovery!ProtectedStays138'
  BY DEF RunnerShape, Holds, Found, UnderEngine, Recovery!CleanMeansMatching, Recovery!ProtectedStays138
<1>. QED  BY <1>1, <1>2, <1>3, <1>4, <1>5, <1>6

LEMMA RestoreGuardedRunner ==
  ASSUME RecoveryInv, NEW p \in Procs, Recovery!RestoreGuarded(p)
  PROVE  RecoveryInv'
<1>. USE ProcessesNamed DEF RecoveryInv, Recovery!RestoreGuarded, Recovery!Step, Recovery!Release, Recovery!Free,
         Recovery!Clean, Recovery!Dirty, Recovery!db, Recovery!locks, Recovery!files
<1>1. RunnerShape'
  BY DEF RunnerShape, Steps, Reserving, Recovery!Applying
<1>2. ASSUME NEW q \in Procs
      PROVE  Holds(q)' /\ Found(q)'
  <2>1. lock = p
    BY DEF Holds, UnderLock
  <2>2. CASE q = p
    <3>1. pc'[q] = "idle"
      BY <2>2 DEF RunnerShape
    <3>. QED  BY <3>1 DEF Holds, Found, UnderLock, UnderEngine, UnderTables, Recovery!Applying
  <2>3. CASE q # p
    <3>1. pc'[q] = pc[q]
      BY <2>3 DEF RunnerShape
    <3>2. pc[q] \notin UnderLock
      BY <2>1, <2>3 DEF Holds
    <3>3. Found(q)
      OBVIOUS
    <3>. QED  BY <3>1, <3>2, <3>3 DEF Holds, Found, UnderLock, UnderEngine, UnderTables
  <2>. QED  BY <2>2, <2>3
<1>4. OrphanHolds'
  BY DEF RunnerShape, Holds, OrphanHolds, UnderLock, UnderEngine
<1>5. OneReservation'
  BY DEF RunnerShape, OneReservation, Reserving, Recovery!Applying
<1>6. Recovery!CleanMeansMatching' /\ Recovery!ProtectedStays138'
  BY DEF RunnerShape, Holds, Found, UnderEngine, Recovery!CleanMeansMatching, Recovery!ProtectedStays138
<1>. QED  BY <1>1, <1>2, <1>4, <1>5, <1>6

LEMMA FailRunner ==
  ASSUME RecoveryInv, NEW p \in Procs, Recovery!Fail(p)
  PROVE  RecoveryInv'
<1>. USE ProcessesNamed DEF RecoveryInv, Recovery!Fail, Recovery!Step, Recovery!Release, Recovery!Free,
         Recovery!Clean, Recovery!Dirty, Recovery!db, Recovery!locks, Recovery!files
<1>1. RunnerShape'
  BY DEF RunnerShape, Steps, Reserving, Recovery!Applying
<1>2. ASSUME NEW q \in Procs
      PROVE  Holds(q)'
  BY DEF RunnerShape, Holds, OrphanHolds, UnderLock, UnderEngine, UnderTables
<1>3. ASSUME NEW q \in Procs
      PROVE  Found(q)'
  BY DEF RunnerShape, Holds, Found, UnderLock, UnderEngine, UnderTables, Recovery!Applying
<1>4. OrphanHolds'
  BY DEF RunnerShape, Holds, OrphanHolds, UnderLock, UnderEngine
<1>5. OneReservation'
  BY DEF RunnerShape, OneReservation, Reserving, Recovery!Applying
<1>6. Recovery!CleanMeansMatching' /\ Recovery!ProtectedStays138'
  BY DEF RunnerShape, Holds, Found, UnderEngine, Recovery!CleanMeansMatching, Recovery!ProtectedStays138
<1>. QED  BY <1>1, <1>2, <1>3, <1>4, <1>5, <1>6

LEMMA CrashRunner ==
  ASSUME RecoveryInv, NEW p \in Procs, Recovery!Crash(p)
  PROVE  RecoveryInv'
<1>. USE ProcessesNamed DEF RecoveryInv, Recovery!Crash, Recovery!Step, Recovery!Release, Recovery!Free,
         Recovery!Clean, Recovery!Dirty, Recovery!db, Recovery!locks, Recovery!files
<1>1. RunnerShape'
  BY DEF RunnerShape, Steps, Reserving, Recovery!Applying
<1>2. ASSUME NEW q \in Procs
      PROVE  Holds(q)' /\ Found(q)'
  <2>1. CASE q = p
    <3>1. pc'[q] = "idle"
      BY <2>1 DEF RunnerShape
    <3>. QED  BY <3>1 DEF Holds, Found, UnderLock, UnderEngine, UnderTables, Recovery!Applying
  <2>2. CASE q # p /\ pc[q] \in UnderLock
    <3>1. lock = q /\ pc'[q] = pc[q] /\ Holds(q) /\ Found(q)
      BY <2>2 DEF RunnerShape, Holds
    <3>2. pc[p] \notin {"sql", "commit"}
      BY <2>2, <3>1 DEF Holds, UnderLock
    <3>3. /\ lock' = q /\ UNCHANGED orphan
          /\ engine' = Recovery!Free(engine, p) /\ tables' = Recovery!Free(tables, p)
      BY <2>2, <3>1, <3>2
    <3>. QED  BY <2>2, <3>1, <3>3 DEF Holds, Found
  <2>3. CASE q # p /\ pc[q] \notin UnderLock
    <3>1. pc'[q] = pc[q] /\ Holds(q) /\ Found(q)
      BY <2>3 DEF RunnerShape
    <3>. QED  BY <2>3, <3>1 DEF Holds, Found, UnderLock, UnderEngine, UnderTables
  <2>. QED  BY <2>1, <2>2, <2>3
<1>4. OrphanHolds'
  BY DEF RunnerShape, Holds, OrphanHolds, UnderLock, UnderEngine
<1>5. OneReservation'
  BY DEF RunnerShape, OneReservation, Reserving, Recovery!Applying
<1>6. Recovery!CleanMeansMatching' /\ Recovery!ProtectedStays138'
  BY DEF RunnerShape, Holds, Found, UnderEngine, Recovery!CleanMeansMatching, Recovery!ProtectedStays138
<1>. QED  BY <1>1, <1>2, <1>4, <1>5, <1>6

LEMMA PlanRecoveryRunner ==
  ASSUME RecoveryInv, NEW p \in Procs, Recovery!PlanRecovery(p)
  PROVE  RecoveryInv'
<1>. USE ProcessesNamed DEF RecoveryInv, Recovery!PlanRecovery, Recovery!Step, Recovery!Release, Recovery!Free,
         Recovery!Clean, Recovery!Dirty, Recovery!db, Recovery!locks, Recovery!files
<1>1. RunnerShape'
  BY DEF RunnerShape, Steps, Reserving, Recovery!Applying
<1>2. ASSUME NEW q \in Procs
      PROVE  Holds(q)'
  BY DEF RunnerShape, Holds, OrphanHolds, UnderLock, UnderEngine, UnderTables
<1>3. ASSUME NEW q \in Procs
      PROVE  Found(q)'
  BY DEF RunnerShape, Holds, Found, UnderLock, UnderEngine, UnderTables, Recovery!Applying
<1>4. OrphanHolds'
  BY DEF RunnerShape, Holds, OrphanHolds, UnderLock, UnderEngine
<1>5. OneReservation'
  BY DEF RunnerShape, OneReservation, Reserving, Recovery!Applying
<1>6. Recovery!CleanMeansMatching' /\ Recovery!ProtectedStays138'
  BY DEF RunnerShape, Holds, Found, UnderEngine, Recovery!CleanMeansMatching, Recovery!ProtectedStays138
<1>. QED  BY <1>1, <1>2, <1>3, <1>4, <1>5, <1>6

LEMMA PublishPlanRunner ==
  ASSUME RecoveryInv, NEW p \in Procs, Recovery!PublishPlan(p)
  PROVE  RecoveryInv'
<1>. USE ProcessesNamed DEF RecoveryInv, Recovery!PublishPlan, Recovery!Step, Recovery!Release, Recovery!Free,
         Recovery!Clean, Recovery!Dirty, Recovery!db, Recovery!locks, Recovery!files
<1>1. RunnerShape'
  BY DEF RunnerShape, Steps, Reserving, Recovery!Applying
<1>2. ASSUME NEW q \in Procs
      PROVE  Holds(q)'
  BY DEF RunnerShape, Holds, OrphanHolds, UnderLock, UnderEngine, UnderTables
<1>3. ASSUME NEW q \in Procs
      PROVE  Found(q)'
  BY DEF RunnerShape, Holds, Found, UnderLock, UnderEngine, UnderTables, Recovery!Applying
<1>4. OrphanHolds'
  BY DEF RunnerShape, Holds, OrphanHolds, UnderLock, UnderEngine
<1>5. OneReservation'
  BY DEF RunnerShape, OneReservation, Reserving, Recovery!Applying
<1>6. Recovery!CleanMeansMatching' /\ Recovery!ProtectedStays138'
  BY DEF RunnerShape, Holds, Found, UnderEngine, Recovery!CleanMeansMatching, Recovery!ProtectedStays138
<1>. QED  BY <1>1, <1>2, <1>3, <1>4, <1>5, <1>6

LEMMA PlanExistsRunner ==
  ASSUME RecoveryInv, NEW p \in Procs, Recovery!PlanExists(p)
  PROVE  RecoveryInv'
<1>. USE ProcessesNamed DEF RecoveryInv, Recovery!PlanExists, Recovery!Step, Recovery!Release, Recovery!Free,
         Recovery!Clean, Recovery!Dirty, Recovery!db, Recovery!locks, Recovery!files
<1>1. RunnerShape'
  BY DEF RunnerShape, Steps, Reserving, Recovery!Applying
<1>2. ASSUME NEW q \in Procs
      PROVE  Holds(q)'
  BY DEF RunnerShape, Holds, OrphanHolds, UnderLock, UnderEngine, UnderTables
<1>3. ASSUME NEW q \in Procs
      PROVE  Found(q)'
  BY DEF RunnerShape, Holds, Found, UnderLock, UnderEngine, UnderTables, Recovery!Applying
<1>4. OrphanHolds'
  BY DEF RunnerShape, Holds, OrphanHolds, UnderLock, UnderEngine
<1>5. OneReservation'
  BY DEF RunnerShape, OneReservation, Reserving, Recovery!Applying
<1>6. Recovery!CleanMeansMatching' /\ Recovery!ProtectedStays138'
  BY DEF RunnerShape, Holds, Found, UnderEngine, Recovery!CleanMeansMatching, Recovery!ProtectedStays138
<1>. QED  BY <1>1, <1>2, <1>3, <1>4, <1>5, <1>6

LEMMA ReserveRunner ==
  ASSUME RecoveryInv, NEW p \in Procs, Recovery!Reserve(p)
  PROVE  RecoveryInv'
<1>. USE ProcessesNamed DEF RecoveryInv, Recovery!Reserve, Recovery!Step, Recovery!Release, Recovery!Free,
         Recovery!Clean, Recovery!Dirty, Recovery!db, Recovery!locks, Recovery!files
<1>1. RunnerShape'
  BY DEF RunnerShape, Steps, Reserving, Recovery!Applying
<1>2. ASSUME NEW q \in Procs
      PROVE  Holds(q)'
  BY DEF RunnerShape, Holds, OrphanHolds, UnderLock, UnderEngine, UnderTables
<1>3. ASSUME NEW q \in Procs
      PROVE  Found(q)'
  BY DEF RunnerShape, Holds, Found, UnderLock, UnderEngine, UnderTables, Recovery!Applying
<1>4. OrphanHolds'
  BY DEF RunnerShape, Holds, OrphanHolds, UnderLock, UnderEngine
<1>5. OneReservation'
  BY DEF RunnerShape, OneReservation, Reserving, Recovery!Applying
<1>6. Recovery!CleanMeansMatching' /\ Recovery!ProtectedStays138'
  BY DEF RunnerShape, Holds, Found, UnderEngine, Recovery!CleanMeansMatching, Recovery!ProtectedStays138
<1>. QED  BY <1>1, <1>2, <1>3, <1>4, <1>5, <1>6

LEMMA LockRecoveryRunner ==
  ASSUME RecoveryInv, NEW p \in Procs, Recovery!LockRecovery(p)
  PROVE  RecoveryInv'
<1>. USE ProcessesNamed DEF RecoveryInv, Recovery!LockRecovery, Recovery!Step, Recovery!Release, Recovery!Free,
         Recovery!Clean, Recovery!Dirty, Recovery!db, Recovery!locks, Recovery!files
<1>1. RunnerShape'
  BY DEF RunnerShape, Steps, Reserving, Recovery!Applying
<1>2. ASSUME NEW q \in Procs
      PROVE  Holds(q)'
  BY DEF RunnerShape, Holds, OrphanHolds, UnderLock, UnderEngine, UnderTables
<1>3. ASSUME NEW q \in Procs
      PROVE  Found(q)'
  BY DEF RunnerShape, Holds, Found, UnderLock, UnderEngine, UnderTables, Recovery!Applying
<1>4. OrphanHolds'
  BY DEF RunnerShape, Holds, OrphanHolds, UnderLock, UnderEngine
<1>5. OneReservation'
  BY DEF RunnerShape, OneReservation, Reserving, Recovery!Applying
<1>6. Recovery!CleanMeansMatching' /\ Recovery!ProtectedStays138'
  BY DEF RunnerShape, Holds, Found, UnderEngine, Recovery!CleanMeansMatching, Recovery!ProtectedStays138
<1>. QED  BY <1>1, <1>2, <1>3, <1>4, <1>5, <1>6

LEMMA LockTablesRunner ==
  ASSUME RecoveryInv, NEW p \in Procs, Recovery!LockTables(p)
  PROVE  RecoveryInv'
<1>. USE ProcessesNamed DEF RecoveryInv, Recovery!LockTables, Recovery!Step, Recovery!Release, Recovery!Free,
         Recovery!Clean, Recovery!Dirty, Recovery!db, Recovery!locks, Recovery!files
<1>1. RunnerShape'
  BY DEF RunnerShape, Steps, Reserving, Recovery!Applying
<1>2. ASSUME NEW q \in Procs
      PROVE  Holds(q)'
  BY DEF RunnerShape, Holds, OrphanHolds, UnderLock, UnderEngine, UnderTables
<1>3. ASSUME NEW q \in Procs
      PROVE  Found(q)'
  BY DEF RunnerShape, Holds, Found, UnderLock, UnderEngine, UnderTables, Recovery!Applying
<1>4. OrphanHolds'
  BY DEF RunnerShape, Holds, OrphanHolds, UnderLock, UnderEngine
<1>5. OneReservation'
  BY DEF RunnerShape, OneReservation, Reserving, Recovery!Applying
<1>6. Recovery!CleanMeansMatching' /\ Recovery!ProtectedStays138'
  BY DEF RunnerShape, Holds, Found, UnderEngine, Recovery!CleanMeansMatching, Recovery!ProtectedStays138
<1>. QED  BY <1>1, <1>2, <1>3, <1>4, <1>5, <1>6

LEMMA CheckPlanRunner ==
  ASSUME RecoveryInv, NEW p \in Procs, Recovery!CheckPlan(p)
  PROVE  RecoveryInv'
<1>. USE ProcessesNamed DEF RecoveryInv, Recovery!CheckPlan, Recovery!catalogMatchesPlan, Recovery!Step, Recovery!Release, Recovery!Free,
         Recovery!Clean, Recovery!Dirty, Recovery!db, Recovery!locks, Recovery!files
<1>1. RunnerShape'
  BY DEF RunnerShape, Steps, Reserving, Recovery!Applying
<1>2. ASSUME NEW q \in Procs
      PROVE  Holds(q)'
  BY DEF RunnerShape, Holds, OrphanHolds, UnderLock, UnderEngine, UnderTables
<1>3. ASSUME NEW q \in Procs
      PROVE  Found(q)'
  BY DEF RunnerShape, Holds, Found, UnderLock, UnderEngine, UnderTables, Recovery!Applying
<1>4. OrphanHolds'
  BY DEF RunnerShape, Holds, OrphanHolds, UnderLock, UnderEngine
<1>5. OneReservation'
  BY DEF RunnerShape, OneReservation, Reserving, Recovery!Applying
<1>6. Recovery!CleanMeansMatching' /\ Recovery!ProtectedStays138'
  BY DEF RunnerShape, Holds, Found, UnderEngine, Recovery!CleanMeansMatching, Recovery!ProtectedStays138
<1>. QED  BY <1>1, <1>2, <1>3, <1>4, <1>5, <1>6

LEMMA ForceRunner ==
  ASSUME RecoveryInv, NEW p \in Procs, Recovery!Force(p)
  PROVE  RecoveryInv'
<1>. USE ProcessesNamed DEF RecoveryInv, Recovery!Force, Recovery!Step, Recovery!Release, Recovery!Free,
         Recovery!Clean, Recovery!Dirty, Recovery!db, Recovery!locks, Recovery!files
<1>1. RunnerShape'
  BY DEF RunnerShape, Steps, Reserving, Recovery!Applying
<1>2. ASSUME NEW q \in Procs
      PROVE  Holds(q)'
  BY DEF RunnerShape, Holds, OrphanHolds, UnderLock, UnderEngine, UnderTables
<1>3. ASSUME NEW q \in Procs
      PROVE  Found(q)'
  BY DEF RunnerShape, Holds, Found, UnderLock, UnderEngine, UnderTables, Recovery!Applying
<1>4. OrphanHolds'
  BY DEF RunnerShape, Holds, OrphanHolds, UnderLock, UnderEngine
<1>5. OneReservation'
  BY DEF RunnerShape, OneReservation, Reserving, Recovery!Applying
<1>6. Recovery!CleanMeansMatching' /\ Recovery!ProtectedStays138'
  BY DEF RunnerShape, Holds, Found, UnderEngine, Recovery!CleanMeansMatching, Recovery!ProtectedStays138
<1>. QED  BY <1>1, <1>2, <1>3, <1>4, <1>5, <1>6

LEMMA VerifyRunner ==
  ASSUME RecoveryInv, NEW p \in Procs, Recovery!Verify(p)
  PROVE  RecoveryInv'
<1>. USE ProcessesNamed DEF RecoveryInv, Recovery!Verify, Recovery!Step, Recovery!Release, Recovery!Free,
         Recovery!Clean, Recovery!Dirty, Recovery!db, Recovery!locks, Recovery!files
<1>1. RunnerShape'
  BY DEF RunnerShape, Steps, Reserving, Recovery!Applying
<1>2. ASSUME NEW q \in Procs
      PROVE  Holds(q)'
  BY DEF RunnerShape, Holds, OrphanHolds, UnderLock, UnderEngine, UnderTables
<1>3. ASSUME NEW q \in Procs
      PROVE  Found(q)'
  BY DEF RunnerShape, Holds, Found, UnderLock, UnderEngine, UnderTables, Recovery!Applying
<1>4. OrphanHolds'
  BY DEF RunnerShape, Holds, OrphanHolds, UnderLock, UnderEngine
<1>5. OneReservation'
  BY DEF RunnerShape, OneReservation, Reserving, Recovery!Applying
<1>6. Recovery!CleanMeansMatching' /\ Recovery!ProtectedStays138'
  BY DEF RunnerShape, Holds, Found, UnderEngine, Recovery!CleanMeansMatching, Recovery!ProtectedStays138
<1>. QED  BY <1>1, <1>2, <1>3, <1>4, <1>5, <1>6

LEMMA PublishRunner ==
  ASSUME RecoveryInv, NEW p \in Procs, Recovery!Publish(p)
  PROVE  RecoveryInv'
<1>. USE ProcessesNamed DEF RecoveryInv, Recovery!Publish, Recovery!Step, Recovery!Release, Recovery!Free,
         Recovery!Clean, Recovery!Dirty, Recovery!db, Recovery!locks, Recovery!files
<1>1. RunnerShape'
  BY DEF RunnerShape, Steps, Reserving, Recovery!Applying
<1>2. ASSUME NEW q \in Procs
      PROVE  Holds(q)'
  BY DEF RunnerShape, Holds, OrphanHolds, UnderLock, UnderEngine, UnderTables
<1>3. ASSUME NEW q \in Procs
      PROVE  Found(q)'
  BY DEF RunnerShape, Holds, Found, UnderLock, UnderEngine, UnderTables, Recovery!Applying
<1>4. OrphanHolds'
  BY DEF RunnerShape, Holds, OrphanHolds, UnderLock, UnderEngine
<1>5. OneReservation'
  BY DEF RunnerShape, OneReservation, Reserving, Recovery!Applying
<1>6. Recovery!CleanMeansMatching' /\ Recovery!ProtectedStays138'
  BY DEF RunnerShape, Holds, Found, UnderEngine, Recovery!CleanMeansMatching, Recovery!ProtectedStays138
<1>. QED  BY <1>1, <1>2, <1>3, <1>4, <1>5, <1>6

LEMMA FailClosedRunner ==
  ASSUME RecoveryInv, NEW p \in Procs, Recovery!FailClosed(p)
  PROVE  RecoveryInv'
<1>. USE ProcessesNamed DEF RecoveryInv, Recovery!FailClosed, Recovery!Step, Recovery!Release, Recovery!Free,
         Recovery!Clean, Recovery!Dirty, Recovery!db, Recovery!locks, Recovery!files
<1>1. RunnerShape'
  BY DEF RunnerShape, Steps, Reserving, Recovery!Applying
<1>2. ASSUME NEW q \in Procs
      PROVE  Holds(q)'
  BY DEF RunnerShape, Holds, OrphanHolds, UnderLock, UnderEngine, UnderTables
<1>3. ASSUME NEW q \in Procs
      PROVE  Found(q)'
  BY DEF RunnerShape, Holds, Found, UnderLock, UnderEngine, UnderTables, Recovery!Applying
<1>4. OrphanHolds'
  BY DEF RunnerShape, Holds, OrphanHolds, UnderLock, UnderEngine
<1>5. OneReservation'
  BY DEF RunnerShape, OneReservation, Reserving, Recovery!Applying
<1>6. Recovery!CleanMeansMatching' /\ Recovery!ProtectedStays138'
  BY DEF RunnerShape, Holds, Found, UnderEngine, Recovery!CleanMeansMatching, Recovery!ProtectedStays138
<1>. QED  BY <1>1, <1>2, <1>3, <1>4, <1>5, <1>6

LEMMA InitRunner == Recovery!Init => RecoveryInv
  BY ProcessesNamed DEF Recovery!Init, RecoveryInv, RunnerShape, Steps, Holds, Found, OrphanHolds, OneReservation, Reserving,
     UnderLock, UnderEngine, UnderTables, Recovery!Applying, Recovery!CleanMeansMatching,
     Recovery!ProtectedStays138

(* The database alone: data that forbid the way back, and SQL that goes on. *)
LEMMA ProtectRunner == ASSUME RecoveryInv, Recovery!Protect PROVE RecoveryInv'
<1>. USE DEF RecoveryInv, Recovery!Protect, Recovery!locks, Recovery!files
<1>1. RunnerShape' /\ OrphanHolds' /\ OneReservation'
  BY DEF RunnerShape, OrphanHolds, OneReservation
<1>2. ASSUME NEW q \in Procs
      PROVE  Holds(q)' /\ Found(q)'
  BY DEF Holds, Found
<1>3. Recovery!CleanMeansMatching' /\ Recovery!ProtectedStays138'
  BY DEF Recovery!CleanMeansMatching, Recovery!ProtectedStays138
<1>. QED  BY <1>1, <1>2, <1>3

LEMMA ServerBeginRunner == ASSUME RecoveryInv, Recovery!ServerBegin PROVE RecoveryInv'
<1>. USE ProcessesNamed DEF RecoveryInv, Recovery!ServerBegin, Recovery!db, Recovery!files
<1>1. RunnerShape' /\ OrphanHolds' /\ OneReservation'
  BY DEF RunnerShape, OrphanHolds, OneReservation
<1>2. ASSUME NEW q \in Procs
      PROVE  Holds(q)' /\ Found(q)'
  BY DEF Holds, Found
<1>3. Recovery!CleanMeansMatching' /\ Recovery!ProtectedStays138'
  BY DEF Recovery!CleanMeansMatching, Recovery!ProtectedStays138
<1>. QED  BY <1>1, <1>2, <1>3

LEMMA ServerEndRunner == ASSUME RecoveryInv, Recovery!ServerEnd PROVE RecoveryInv'
<1>. USE ProcessesNamed DEF RecoveryInv, Recovery!ServerEnd, Recovery!files, Recovery!Free
<1>1. RunnerShape' /\ OrphanHolds' /\ OneReservation'
  BY DEF RunnerShape, OrphanHolds, OneReservation
<1>2. ASSUME NEW q \in Procs
      PROVE  Holds(q)' /\ Found(q)'
  BY DEF Holds, Found, OrphanHolds, UnderEngine, UnderTables
<1>3. Recovery!CleanMeansMatching' /\ Recovery!ProtectedStays138'
  BY DEF RunnerShape, OrphanHolds, Recovery!Refused, Recovery!CleanMeansMatching, Recovery!ProtectedStays138
<1>. QED  BY <1>1, <1>2, <1>3

LEMMA ArchiveRunner == ASSUME RecoveryInv, Recovery!ArchiveInterrupted PROVE RecoveryInv'
<1>. USE DEF RecoveryInv, Recovery!ArchiveInterrupted, Recovery!db, Recovery!locks
<1>1. RunnerShape' /\ OrphanHolds' /\ OneReservation'
  BY DEF RunnerShape, OrphanHolds, OneReservation, Reserving
<1>2. ASSUME NEW q \in Procs
      PROVE  Holds(q)' /\ Found(q)'
  BY DEF Holds, Found
<1>3. Recovery!CleanMeansMatching' /\ Recovery!ProtectedStays138'
  BY DEF Recovery!CleanMeansMatching, Recovery!ProtectedStays138
<1>. QED  BY <1>1, <1>2, <1>3

LEMMA StutterRunner == ASSUME RecoveryInv, UNCHANGED Recovery!vars PROVE RecoveryInv'
  BY DEF RecoveryInv, Recovery!vars, Recovery!db, Recovery!locks, Recovery!files,
     RunnerShape, Holds, Found, OrphanHolds, OneReservation,
     Recovery!CleanMeansMatching, Recovery!ProtectedStays138

(* Whatever dies or times out, and while SQL without a client goes on: a    *)
(* clean marker names the schema that is there, data that forbid the way    *)
(* back are not lost to it, and one process at a time applies a plan.       *)
THEOREM RecoveryIsSafe ==
  Recovery!Spec =>
    [](Recovery!CleanMeansMatching /\ Recovery!ProtectedStays138 /\ Recovery!OneApplier)
<1>1. ASSUME RecoveryInv, [Recovery!Next]_(Recovery!vars)
      PROVE  RecoveryInv'
  <2>1. ASSUME NEW p \in Procs, Recovery!Migration(p)
        PROVE  RecoveryInv'
    BY <1>1, <2>1, StartRunner, MarkRunner, BeginSqlRunner, CommitSqlRunner, UnmarkRunner,
       RefuseSqlRunner, RestoreGuardedRunner, FailRunner, CrashRunner DEF Recovery!Migration
  <2>2. ASSUME NEW p \in Procs, Recovery!Recovery(p)
        PROVE  RecoveryInv'
    BY <1>1, <2>2, PlanRecoveryRunner, PublishPlanRunner, PlanExistsRunner, ReserveRunner,
       LockRecoveryRunner, LockTablesRunner, CheckPlanRunner, ForceRunner, VerifyRunner,
       PublishRunner, FailClosedRunner DEF Recovery!Recovery
  <2>. QED  BY <1>1, <2>1, <2>2, ProtectRunner, ServerBeginRunner, ServerEndRunner, ArchiveRunner,
              StutterRunner DEF Recovery!Next
<1>2. RecoveryInv => /\ Recovery!CleanMeansMatching /\ Recovery!ProtectedStays138
                     /\ Recovery!OneApplier
  BY DEF RecoveryInv, OneReservation, Reserving, Recovery!OneApplier
<1>. QED  BY <1>1, <1>2, InitRunner, PTL DEF Recovery!Spec

-----------------------------------------------------------------------------
(* Both parts together.                                                     *)

LEMMA ExpandPart == MCSpec => Spec
<1>1. MCInit => Init
  BY DEF MCInit
<1>2. [MCNext]_mcVars => [Next]_vars
  BY DEF MCNext, mcVars
<1>. QED  BY <1>1, <1>2, PTL DEF MCSpec, Spec

LEMMA RecoveryPart == MCSpec => Recovery!Spec
<1>1. MCInit => Recovery!Init
  BY DEF MCInit
<1>2. [MCNext]_mcVars => [Recovery!Next]_(Recovery!vars)
  BY DEF MCNext, mcVars, recoveryVars, Recovery!vars, Recovery!db, Recovery!locks, Recovery!files
<1>. QED  BY <1>1, <1>2, PTL DEF MCSpec, Recovery!Spec

(* Expansion and recovery are safe together, for any number of rows,        *)
(* writers, manifests and processes, if rows are cleaned up only under a    *)
(* serving hub or the old schema.                                           *)
THEOREM MigrationIsSafe ==
  ASSUME CleanupAnyTime = FALSE
  PROVE  MCSpec => []MigrationSafe
<1>1. Spec => []NeverStranded
  BY NeverStrandedBetweenSchemas
<1>. QED  BY <1>1, ExpandPart, RecoveryPart, ManifestsKeepDecisions, RecoveryIsSafe, PTL DEF MigrationSafe
=============================================================================
