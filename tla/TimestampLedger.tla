-------------------------- MODULE TimestampLedger --------------------------
(***************************************************************************)
(* What the expansion of the external execution timestamps promises: while *)
(* the schema is expanded no timestamp is lost, an instant is given to a   *)
(* wall clock at most once, and what happened to a deleted row stays on    *)
(* record for ever.  TimestampExpand implements it.                        *)
(*                                                                         *)
(* A cell is a wall clock reading and the instant it stands for; 0 is      *)
(* NULL.                                                                   *)
(***************************************************************************)
EXTENDS Naturals

CONSTANTS Rows,
          Fixed,     \* columns that never change
          OneShot,   \* columns that are set once
          Mutable    \* columns that follow the last change of the row
VARIABLES kept,      \* TRUE while the schema is expanded
          fate,      \* "none", "live", "deleted" or, without a trace, "gone"
          cell
ledger == <<kept, fate, cell>>

Cols == Fixed \cup OneShot \cup Mutable

Blank == [raw |-> 0, inst |-> 0]

Unused == [c \in Cols |-> Blank]

Exact(v) == v.raw = v.inst

Init ==
  /\ kept = FALSE
  /\ fate = [r \in Rows |-> "none"]
  /\ cell = [r \in Rows |-> Unused]

Record(r) ==
  /\ fate[r] = "none"
  /\ fate' = [fate EXCEPT ![r] = "live"]
  /\ \A s \in Rows \ {r} : cell'[s] = cell[s]
  /\ \A c \in Cols : IF kept THEN Exact(cell'[r][c]) ELSE cell'[r][c].inst = 0
  /\ UNCHANGED kept

\* A change of a row leaves each cell alone or moves it where its column may.
Moves(c, v, w) ==
  /\ c \in Mutable \/ (c \in OneShot /\ v.raw = 0)
  /\ w.raw # 0
  /\ IF kept THEN Exact(w) ELSE w.inst = 0

Change(r) ==
  /\ fate[r] = "live"
  /\ \A s \in Rows \ {r} : cell'[s] = cell[s]
  /\ \A c \in Cols : cell'[r][c] = cell[r][c] \/ Moves(c, cell[r][c], cell'[r][c])
  /\ UNCHANGED <<kept, fate>>

\* An instant is found for wall clocks that had none.
Resolve ==
  /\ kept
  /\ \A r \in Rows, c \in Cols :
       \/ cell'[r][c] = cell[r][c]
       \/ /\ fate[r] = "live" /\ cell[r][c].raw # 0 /\ cell[r][c].inst = 0
          /\ cell'[r][c].raw = cell[r][c].raw /\ cell'[r][c].inst # 0
  /\ UNCHANGED <<kept, fate>>

\* Deletion keeps every cell of the row, except under the old schema.
Delete(r) ==
  /\ fate[r] = "live"
  /\ IF kept
     THEN fate' = [fate EXCEPT ![r] = "deleted"] /\ UNCHANGED cell
     ELSE /\ fate' = [fate EXCEPT ![r] = "gone"]
          /\ cell' = [cell EXCEPT ![r] = Unused]
  /\ UNCHANGED kept

Expand == ~kept /\ kept' = TRUE /\ UNCHANGED <<fate, cell>>

\* The old schema has no place for instants or for deleted rows.
Contract ==
  /\ kept
  /\ \A r \in Rows : fate[r] # "deleted" /\ \A c \in Cols : cell[r][c].inst = 0
  /\ kept' = FALSE
  /\ UNCHANGED <<fate, cell>>

Next == Resolve \/ Expand \/ Contract \/ \E r \in Rows : Record(r) \/ Change(r) \/ Delete(r)

Spec == Init /\ [][Next]_ledger
=============================================================================
