--------------------------- MODULE Pipeline_proofs ---------------------------
(***************************************************************************)
(* Proofs about the way from what an organization configures to a task, for *)
(* every set of channels, variables, steps, bundles, targets and requests.  *)
(*   Channels: an application has exactly one default channel, and what Git *)
(*   manages stays as it is, however many requests overlap.                 *)
(*   Variables: the most specific value wins, and no drift means deployed.  *)
(*   Processes and runbooks: revisions refer to what exists and can be run; *)
(*   neither they nor their snapshots change.                               *)
(*   Release bundles: what is released contains released bundles only, and  *)
(*   stays as it was published.                                             *)
(*   Plans: a plan is of what was published, and tasks are made only where  *)
(*   what was checked still holds.                                          *)
(* At the end, the pipeline as a whole.                                     *)
(***************************************************************************)
EXTENDS MCPipeline, FiniteSetTheorems, SequenceTheorems, WellFoundedInduction, TLAPS

-----------------------------------------------------------------------------
(* Channels.                                                                *)

Row == [app : Application, lifecycle : Lifecycle, default : BOOLEAN]
Open == [op : {"create", "update", "write"}, chan : Channel, app : Application,
         lifecycle : Lifecycle, default : BOOLEAN, cleared : SUBSET Channel]

RowsShape ==
    /\ row \in [Channel -> {None} \cup Row]
    /\ locked \in [Session -> SUBSET Channel]
    /\ tx \in [Session -> {Idle} \cup Open]

IsDefault(c, a) == row[c] # None /\ row[c].app = a /\ row[c].default

AppsHaveDefault ==
    \A c \in Channel : row[c] # None => \E d \in Channel : IsDefault(d, row[c].app)
DefaultsApart ==
    \A a \in Application, c, d \in Channel : IsDefault(c, a) /\ IsDefault(d, a) => c = d

(* A locked row exists, and is locked by one session.                       *)
LocksHeld ==
    /\ \A s, o \in Session : s # o => locked[s] \cap locked[o] = {}
    /\ \A s \in Session : /\ tx[s] = Idle => locked[s] = {}
                          /\ \A c \in locked[s] : row[c] # None

(* A session writes a row that it has locked, and that Git does not manage, *)
(* or one that does not exist yet; no two sessions write the same.          *)
ChansApart ==
    \A s, o \in Session :
        s # o /\ tx[s] \in Open /\ tx[o] \in Open => tx[s].chan # tx[o].chan
ChansHeld ==
    \A s \in Session : tx[s] \in Open =>
        \/ row[tx[s].chan] = None
        \/ tx[s].chan \in locked[s] /\ tx[s].chan \notin git
ClearedHeld ==
    \A s \in Session : tx[s] \in Open =>
        /\ tx[s].cleared \subseteq locked[s] /\ tx[s].chan \notin tx[s].cleared
        /\ \A c \in tx[s].cleared : row[c].app = tx[s].app
        /\ ~tx[s].default => tx[s].cleared = {}
        /\ tx[s].op # "write" => tx[s].cleared = {}

(* The default keeps its application and its flag, and a channel without    *)
(* the flag is written only beside a default.                               *)
DefaultsKept ==
    \A s \in Session : tx[s] \in Open =>
        LET c == tx[s].chan IN
        /\ row[c] # None /\ row[c].default => tx[s].default /\ row[c].app = tx[s].app
        /\ tx[s].op = "write" /\ ~tx[s].default =>
              \E d \in Channel : d # c /\ IsDefault(d, tx[s].app)

ChannelsInv ==
    /\ RowsShape /\ AppsHaveDefault /\ DefaultsApart /\ LocksHeld
    /\ ChansApart /\ ChansHeld /\ ClearedHeld /\ DefaultsKept

-----------------------------------------------------------------------------
LEMMA NoneIsNoRow == None \notin Row /\ Idle \notin Open
  BY DEF None, Row, Idle, Open

LEMMA OneDefault == ASSUME ChannelsInv PROVE ExactlyOneDefault
<1>. USE DEF ChannelsInv
<1>. SUFFICES ASSUME NEW a \in Application, Of(a) # {}
              PROVE  Cardinality({c \in Of(a) : row[c].default}) = 1
  BY DEF ExactlyOneDefault
<1>1. \A c \in Channel : row[c].app = a <=> row[c] # None /\ row[c].app = a
  BY ApplicationsNamed DEF None
<1>2. PICK c \in Channel : row[c] # None /\ row[c].app = a
  BY <1>1 DEF Of
<1>3. PICK d \in Channel : IsDefault(d, a)
  BY <1>2 DEF AppsHaveDefault
<1>4. {x \in Of(a) : row[x].default} = {d}
  BY <1>1, <1>3 DEF IsDefault, DefaultsApart, Of
<1>. QED  BY <1>4, FS_Singleton

LEMMA ChannelsInvInit == Init => ChannelsInv
  BY DEF Init, ChannelsInv, RowsShape, AppsHaveDefault, DefaultsApart, LocksHeld, ChansApart,
         ChansHeld, ClearedHeld, DefaultsKept, IsDefault, Idle, Open, None
-----------------------------------------------------------------------------
(* What a session may write, and what it holds meanwhile.                   *)

LEMMA SameRows ==
    ASSUME row' = row
    PROVE  /\ \A c, a : IsDefault(c, a)' <=> IsDefault(c, a)
           /\ AppsHaveDefault => AppsHaveDefault'
           /\ DefaultsApart => DefaultsApart'
  BY DEF AppsHaveDefault, DefaultsApart, IsDefault

LEMMA Unchanged ==
    ASSUME ChannelsInv, UNCHANGED <<row, git, locked, tx>>
    PROVE  ChannelsInv'
  BY SameRows DEF ChannelsInv, RowsShape, LocksHeld, ChansApart, ChansHeld, ClearedHeld, DefaultsKept

LEMMA CreateKeeps ==
    ASSUME ChannelsInv, NEW s \in Session, NEW c \in Channel, NEW a \in Application,
           NEW l \in Lifecycle, NEW d \in BOOLEAN, CreateChannel(s, c, a, l, d)
    PROVE  ChannelsInv'
<1>. USE DEF ChannelsInv
<1>. DEFINE t == [op |-> "create", chan |-> c, app |-> a, lifecycle |-> l, default |-> d,
                  cleared |-> {}]
<1>1. /\ tx[s] = Idle /\ row[c] = None /\ \A o \in Session : tx[o] # Idle => tx[o].chan # c
      /\ tx' = [tx EXCEPT ![s] = t] /\ UNCHANGED <<row, git, locked>>
  BY DEF CreateChannel, Goes, Rest
<1>2. /\ t \in Open /\ t.chan = c /\ t.cleared = {} /\ t.op = "create"
  BY DEF Open
<1>. HIDE DEF t
<1>3. tx'[s] = t /\ \A o \in Session \ {s} : tx'[o] = tx[o]
  BY <1>1 DEF RowsShape
<1>4. RowsShape'
  BY <1>1, <1>2 DEF RowsShape
<1>5. LocksHeld'
  BY <1>1, <1>3, <1>2, NoneIsNoRow DEF LocksHeld
<1>6. ChansApart'
  BY <1>1, <1>2, <1>3, NoneIsNoRow DEF ChansApart
<1>7. ChansHeld'
  BY <1>1, <1>2, <1>3 DEF ChansHeld
<1>8. ClearedHeld'
  BY <1>1, <1>2, <1>3 DEF ClearedHeld
<1>9. DefaultsKept'
  BY <1>1, <1>2, <1>3, SameRows DEF DefaultsKept
<1>. QED  BY <1>1, <1>4, <1>5, <1>6, <1>7, <1>8, <1>9, SameRows

LEMMA UpdateKeeps ==
    ASSUME ChannelsInv, NEW s \in Session, NEW c \in Channel, NEW a \in Application,
           NEW l \in Lifecycle, NEW d \in BOOLEAN, UpdateChannel(s, c, a, l, d)
    PROVE  ChannelsInv'
<1>. USE DEF ChannelsInv
<1>. DEFINE t == [op |-> "update", chan |-> c, app |-> a, lifecycle |-> l, default |-> d,
                  cleared |-> {}]
<1>1. /\ tx[s] = Idle /\ row[c] # None /\ \A o \in Session \ {s} : c \notin locked[o]
      /\ c \notin git /\ (row[c].default => d /\ row[c].app = a)
      /\ tx' = [tx EXCEPT ![s] = t] /\ locked' = [locked EXCEPT ![s] = {c}]
      /\ UNCHANGED <<row, git>>
  BY DEF UpdateChannel, Goes, Rest, LockedByOther, DatabaseManaged
<1>2. /\ t \in Open /\ t.chan = c /\ t.cleared = {} /\ t.op = "update" /\ t.default = d /\ t.app = a
  BY DEF Open
<1>. HIDE DEF t
<1>3. /\ tx'[s] = t /\ \A o \in Session \ {s} : tx'[o] = tx[o]
      /\ locked'[s] = {c} /\ \A o \in Session \ {s} : locked'[o] = locked[o]
  BY <1>1 DEF RowsShape
<1>4. RowsShape'
  BY <1>1, <1>2 DEF RowsShape
<1>5. LocksHeld'
  BY <1>1, <1>2, <1>3, NoneIsNoRow DEF LocksHeld
<1>6. ChansApart'
  <2>1. \A o \in Session \ {s} : tx[o] \in Open => tx[o].chan # c
    BY <1>1 DEF ChansHeld
  <2>. QED  BY <1>2, <1>3, <2>1 DEF ChansApart
<1>7. ChansHeld'
  BY <1>1, <1>2, <1>3 DEF ChansHeld
<1>8. ClearedHeld'
  BY <1>1, <1>2, <1>3 DEF ClearedHeld
<1>9. DefaultsKept'
  BY <1>1, <1>2, <1>3, SameRows DEF DefaultsKept
<1>. QED  BY <1>1, <1>4, <1>5, <1>6, <1>7, <1>8, <1>9, SameRows

LEMMA ClearKeeps ==
    ASSUME ChannelsInv, NEW s \in Session, clearDefaultChannels(s)
    PROVE  ChannelsInv'
<1>. USE DEF ChannelsInv
<1>. DEFINE C == Of(tx[s].app) \ {tx[s].chan}
            t == [tx[s] EXCEPT !.op = "write", !.cleared = C]
<1>1. /\ tx[s].op \in {"create", "update"} /\ tx[s].default
      /\ \A c \in C, o \in Session \ {s} : c \notin locked[o]
      /\ tx' = [tx EXCEPT ![s] = t] /\ locked' = [locked EXCEPT ![s] = locked[s] \cup C]
      /\ UNCHANGED <<row, git>>
  BY DEF clearDefaultChannels, Goes, Rest, LockedByOther
<1>2. tx[s] \in Open
  BY <1>1 DEF RowsShape, Idle
<1>3. /\ C \subseteq Channel /\ tx[s].chan \notin C
      /\ \A c \in C : row[c] # None /\ row[c].app = tx[s].app
  BY <1>2, ApplicationsNamed DEF Of, None, Open
<1>4. /\ t \in Open /\ t.chan = tx[s].chan /\ t.cleared = C /\ t.op = "write"
      /\ t.default = tx[s].default /\ t.app = tx[s].app
  BY <1>2, <1>3 DEF Open
<1>. HIDE DEF t, C
<1>5. /\ tx'[s] = t /\ \A o \in Session \ {s} : tx'[o] = tx[o]
      /\ locked'[s] = locked[s] \cup C /\ \A o \in Session \ {s} : locked'[o] = locked[o]
  BY <1>1 DEF RowsShape
<1>6. RowsShape'
  BY <1>1, <1>3, <1>4 DEF RowsShape
<1>7. LocksHeld'
  BY <1>1, <1>3, <1>4, <1>5, NoneIsNoRow DEF LocksHeld
<1>8. ChansApart'
  BY <1>2, <1>4, <1>5 DEF ChansApart
<1>9. ChansHeld'
  BY <1>1, <1>2, <1>4, <1>5 DEF ChansHeld
<1>10. ClearedHeld'
  <2>. SUFFICES ASSUME NEW o \in Session, tx'[o] \in Open
                PROVE  /\ tx'[o].cleared \subseteq locked'[o] /\ tx'[o].chan \notin tx'[o].cleared
                       /\ \A c \in tx'[o].cleared : row'[c].app = tx'[o].app
                       /\ ~tx'[o].default => tx'[o].cleared = {}
                       /\ tx'[o].op # "write" => tx'[o].cleared = {}
    BY DEF ClearedHeld
  <2>1. CASE o = s
    BY <1>1, <1>3, <1>4, <1>5, <2>1
  <2>2. CASE o # s
    BY <1>1, <1>5, <2>2 DEF ClearedHeld
  <2>. QED  BY <2>1, <2>2
<1>11. DefaultsKept'
  <2>. SUFFICES ASSUME NEW o \in Session, tx'[o] \in Open
                PROVE  LET c == tx'[o].chan IN
                       /\ row[c] # None /\ row[c].default => tx'[o].default /\ row[c].app = tx'[o].app
                       /\ tx'[o].op = "write" /\ ~tx'[o].default =>
                             \E d \in Channel : d # c /\ IsDefault(d, tx'[o].app)
    BY <1>1, SameRows DEF DefaultsKept
  <2>1. CASE o = s
    <3>1. row[tx[s].chan] # None /\ row[tx[s].chan].default => row[tx[s].chan].app = tx[s].app
      BY <1>2 DEF DefaultsKept
    <3>2. /\ tx'[o].chan = tx[s].chan /\ tx'[o].app = tx[s].app
          /\ tx'[o].default = tx[s].default
      BY <1>4, <1>5, <2>1
    <3>3. tx'[o].default
      BY <1>1, <3>2
    <3>. QED  BY <3>1, <3>2, <3>3
  <2>2. CASE o # s
    BY <1>5, <2>2 DEF DefaultsKept
  <2>. QED  BY <2>1, <2>2
<1>. QED  BY <1>1, <1>6, <1>7, <1>8, <1>9, <1>10, <1>11, SameRows

LEMMA LookKeeps ==
    ASSUME ChannelsInv, NEW s \in Session, defaultChannelExists(s)
    PROVE  ChannelsInv'
<1>. USE DEF ChannelsInv
<1>. DEFINE d == ~\E c \in Of(tx[s].app) \ {tx[s].chan} : row[c].default
            t == [tx[s] EXCEPT !.op = "write", !.default = d]
<1>1. /\ tx[s].op \in {"create", "update"} /\ ~tx[s].default
      /\ tx' = [tx EXCEPT ![s] = t] /\ UNCHANGED <<row, git, locked>>
  BY DEF defaultChannelExists, Goes, Rest
<1>2. tx[s] \in Open
  BY <1>1 DEF RowsShape, Idle
<1>3. ~d => \E c \in Channel : c # tx[s].chan /\ IsDefault(c, tx[s].app)
  BY <1>2, ApplicationsNamed DEF Of, None, Open, IsDefault
<1>4. d \in BOOLEAN
  OBVIOUS
<1>. HIDE DEF d
<1>5. /\ t \in Open /\ t.chan = tx[s].chan /\ t.cleared = tx[s].cleared /\ t.op = "write"
      /\ t.default = d /\ t.app = tx[s].app
  BY <1>2, <1>4 DEF Open
<1>. HIDE DEF t
<1>6. tx'[s] = t /\ \A o \in Session \ {s} : tx'[o] = tx[o]
  BY <1>1 DEF RowsShape
<1>7. RowsShape'
  BY <1>1, <1>5 DEF RowsShape
<1>8. LocksHeld'
  BY <1>1, <1>5, <1>6, NoneIsNoRow DEF LocksHeld
<1>9. ChansApart'
  BY <1>2, <1>5, <1>6 DEF ChansApart
<1>10. ChansHeld'
  BY <1>1, <1>2, <1>5, <1>6 DEF ChansHeld
<1>11. ClearedHeld'
  BY <1>1, <1>2, <1>5, <1>6 DEF ClearedHeld
<1>12. DefaultsKept'
  BY <1>1, <1>2, <1>3, <1>5, <1>6, SameRows DEF DefaultsKept
<1>. QED  BY <1>1, <1>7, <1>8, <1>9, <1>10, <1>11, <1>12, SameRows

(* A transaction that ends without a write.                                 *)
LEMMA EndKeeps ==
    ASSUME ChannelsInv, NEW s \in Session, Ends(s), UNCHANGED <<row, git>>
    PROVE  ChannelsInv'
<1>. USE DEF ChannelsInv
<1>1. /\ tx' = [tx EXCEPT ![s] = Idle] /\ locked' = [locked EXCEPT ![s] = {}]
  BY DEF Ends
<1>2. /\ tx'[s] = Idle /\ \A o \in Session \ {s} : tx'[o] = tx[o]
      /\ locked'[s] = {} /\ \A o \in Session \ {s} : locked'[o] = locked[o]
  BY <1>1 DEF RowsShape
<1>3. RowsShape'
  BY <1>1 DEF RowsShape
<1>4. LocksHeld'
  BY <1>2 DEF LocksHeld
<1>5. ChansApart' /\ ChansHeld' /\ ClearedHeld'
  BY <1>2, NoneIsNoRow DEF ChansApart, ChansHeld, ClearedHeld
<1>6. DefaultsKept'
  BY <1>2, SameRows, NoneIsNoRow DEF DefaultsKept
<1>. QED  BY <1>3, <1>4, <1>5, <1>6, SameRows

(* A row that appears, or goes, while nobody waits to write it.             *)
LEMMA DeleteKeeps ==
    ASSUME ChannelsInv, NEW s \in Session, NEW c \in Channel, DeleteChannelWithID(s, c)
    PROVE  ChannelsInv'
<1>. USE DEF ChannelsInv
<1>1. /\ tx[s] = Idle /\ row[c] # None /\ \A o \in Session \ {s} : c \notin locked[o]
      /\ ~row[c].default /\ row' = [row EXCEPT ![c] = None] /\ UNCHANGED <<git, locked, tx>>
  BY DEF DeleteChannelWithID, Rest, LockedByOther
<1>2. row'[c] = None /\ \A e \in Channel \ {c} : row'[e] = row[e]
  BY <1>1 DEF RowsShape
<1>3. RowsShape'
  BY <1>1 DEF RowsShape
<1>4. \A a : \A e \in Channel : IsDefault(e, a)' <=> IsDefault(e, a)
  BY <1>1, <1>2 DEF IsDefault
<1>5. AppsHaveDefault' /\ DefaultsApart'
  BY <1>2, <1>4 DEF AppsHaveDefault, DefaultsApart
<1>6. \A o \in Session : c \notin locked[o]
  BY <1>1 DEF LocksHeld
<1>7. LocksHeld'
  BY <1>1, <1>2, <1>6 DEF LocksHeld, RowsShape
<1>8. \A o \in Session : tx[o] \in Open => tx[o].chan # c
  BY <1>1, <1>6 DEF ChansHeld
<1>9. ChansApart' /\ ChansHeld'
  BY <1>1, <1>2, <1>8 DEF ChansApart, ChansHeld, Open
<1>10. ClearedHeld'
  BY <1>1, <1>2, <1>6 DEF ClearedHeld, RowsShape
<1>11. DefaultsKept'
  BY <1>1, <1>2, <1>4, <1>8 DEF DefaultsKept, Open
<1>. QED  BY <1>3, <1>5, <1>7, <1>9, <1>10, <1>11

LEMMA EnsureKeeps ==
    ASSUME ChannelsInv, NEW c \in Channel, NEW a \in Application, NEW l \in Lifecycle,
           EnsureDefaultChannels(c, a, l)
    PROVE  ChannelsInv'
<1>. USE DEF ChannelsInv
<1>. DEFINE r == [app |-> a, lifecycle |-> l, default |-> TRUE]
<1>1. /\ Of(a) = {} /\ row[c] = None /\ \A s \in Session : tx[s] # Idle => tx[s].chan # c
      /\ row' = [row EXCEPT ![c] = r] /\ UNCHANGED <<git, locked, tx>>
  BY DEF EnsureDefaultChannels, Rest
<1>2. r \in Row /\ r.app = a /\ r.default
  BY DEF Row
<1>. HIDE DEF r
<1>3. r # None /\ \A e \in Channel : row[e].app # a
  BY <1>1, <1>2, NoneIsNoRow DEF Of
<1>4. row'[c] = r /\ \A e \in Channel \ {c} : row'[e] = row[e]
  BY <1>1 DEF RowsShape
<1>5. RowsShape'
  BY <1>1, <1>2 DEF RowsShape
<1>6. \A b : \A e \in Channel : IsDefault(e, b)' <=> (e = c /\ b = a) \/ IsDefault(e, b)
  BY <1>1, <1>2, <1>3, <1>4 DEF IsDefault
<1>7. AppsHaveDefault' /\ DefaultsApart'
  BY <1>2, <1>3, <1>4, <1>6 DEF AppsHaveDefault, DefaultsApart, IsDefault
<1>8. \A o \in Session : c \notin locked[o]
  BY <1>1 DEF LocksHeld
<1>9. LocksHeld'
  BY <1>1, <1>4, <1>8 DEF LocksHeld, RowsShape
<1>10. \A o \in Session : tx[o] \in Open => tx[o].chan # c
  BY <1>1, NoneIsNoRow
<1>11. ChansApart' /\ ChansHeld'
  BY <1>1, <1>4, <1>10 DEF ChansApart, ChansHeld, Open
<1>12. ClearedHeld'
  BY <1>1, <1>4, <1>8 DEF ClearedHeld, RowsShape
<1>13. DefaultsKept'
  BY <1>1, <1>4, <1>6, <1>10 DEF DefaultsKept, Open
<1>. QED  BY <1>5, <1>7, <1>9, <1>11, <1>12, <1>13

(* Who has the authority changes while nobody has the row locked.           *)
LEMMA AuthorityKeeps ==
    ASSUME ChannelsInv, NEW r, NEW g \in BOOLEAN, UpsertConfigAsCodeAuthority(r, g)
    PROVE  ChannelsInv'
<1>. USE DEF ChannelsInv
<1>1. /\ \A s \in Session : r \notin locked[s] /\ (\A c : c # r => (c \in git' <=> c \in git))
      /\ UNCHANGED <<row, locked, tx>>
  BY DEF UpsertConfigAsCodeAuthority
<1>2. RowsShape' /\ LocksHeld' /\ ChansApart' /\ ClearedHeld'
  BY <1>1 DEF RowsShape, LocksHeld, ChansApart, ClearedHeld
<1>3. ChansHeld'
  BY <1>1 DEF ChansHeld
<1>4. DefaultsKept'
  BY <1>1, SameRows DEF DefaultsKept
<1>. QED  BY <1>1, <1>2, <1>3, <1>4, SameRows

-----------------------------------------------------------------------------
(* The write.  It gives the flag to its channel and takes it from those it  *)
(* has cleared, or it leaves a channel without the flag; whoever else waits *)
(* to write has other rows locked.                                          *)

Written(s) == [app |-> tx[s].app, lifecycle |-> tx[s].lifecycle, default |-> tx[s].default]

LEMMA WriteChanges ==
    ASSUME ChannelsInv, NEW s \in Session, WriteChannel(s), row' # row
    PROVE  /\ tx[s] \in Open /\ tx[s].op = "write" /\ DefaultUnique(s) /\ Written(s) \in Row
           /\ row' \in [Channel -> {None} \cup Row]
           /\ row'[tx[s].chan] = Written(s)
           /\ \A c \in Channel : c # tx[s].chan =>
                 /\ row'[c] # None <=> row[c] # None
                 /\ row'[c].app = row[c].app
                 /\ c \in tx[s].cleared => ~row'[c].default /\ SameButDefault(row[c], row'[c])
                 /\ c \notin tx[s].cleared => row'[c] = row[c]
<1>. USE DEF ChannelsInv
<1>1. tx[s] \in Open /\ tx[s].op = "write"
  BY DEF WriteChannel, RowsShape, Idle
<1>. DEFINE ch == tx[s].chan
            w == Written(s)
<1>2. w \in Row /\ ch \in Channel
  BY <1>1 DEF Open, Row, Written
<1>3. /\ DefaultUnique(s)
      /\ row' = [c \in Channel |->
                   IF c = ch THEN w
                   ELSE IF c \in tx[s].cleared /\ row[c] # None
                   THEN [row[c] EXCEPT !.default = FALSE] ELSE row[c]]
  BY DEF WriteChannel, Written
<1>4. row'[ch] = w
  BY <1>2, <1>3
<1>5. ASSUME NEW c \in Channel, c # ch
      PROVE  /\ row'[c] \in {None} \cup Row
             /\ row'[c] # None <=> row[c] # None
             /\ row'[c].app = row[c].app
             /\ c \in tx[s].cleared => ~row'[c].default /\ SameButDefault(row[c], row'[c])
             /\ c \notin tx[s].cleared => row'[c] = row[c]
  <2>1. CASE c \in tx[s].cleared
    <3>1. row[c] # None
      BY <1>1, <2>1 DEF ClearedHeld, LocksHeld
    <3>2. row'[c] = [row[c] EXCEPT !.default = FALSE]
      BY <1>3, <1>5, <2>1, <3>1
    <3>3. row[c] \in Row
      BY <3>1 DEF RowsShape
    <3>. QED  BY <2>1, <3>1, <3>2, <3>3, NoneIsNoRow DEF Row, SameButDefault
  <2>2. CASE c \notin tx[s].cleared
    BY <1>3, <1>5, <2>2 DEF RowsShape
  <2>. QED  BY <2>1, <2>2
<1>6. row' \in [Channel -> {None} \cup Row]
  BY <1>2, <1>3, <1>4, <1>5
<1>. QED  BY <1>1, <1>2, <1>3, <1>4, <1>5, <1>6

LEMMA WrittenFields ==
    ASSUME NEW s \in Session, Written(s) \in Row
    PROVE  /\ Written(s) # None /\ Written(s).app = tx[s].app
           /\ Written(s).default = tx[s].default
  BY NoneIsNoRow DEF Written

(* Its application has the one default it had or gets, the others theirs.   *)
LEMMA WriteMovesDefault ==
    ASSUME ChannelsInv, NEW s \in Session, WriteChannel(s), row' # row
    PROVE  \A c \in Channel, a \in Application :
              /\ a # tx[s].app \/ ~tx[s].default => (IsDefault(c, a)' <=> IsDefault(c, a))
              /\ a = tx[s].app /\ tx[s].default => (IsDefault(c, a)' <=> c = tx[s].chan)
<1>. USE DEF ChannelsInv
<1>1. tx[s] \in Open /\ Written(s) \in Row /\ DefaultUnique(s)
  BY WriteChanges
<1>2. /\ row'[tx[s].chan] # None /\ row'[tx[s].chan].app = tx[s].app
      /\ row'[tx[s].chan].default = tx[s].default
  BY <1>1, WriteChanges, WrittenFields
<1>. SUFFICES ASSUME NEW c \in Channel, NEW a \in Application
              PROVE  /\ a # tx[s].app \/ ~tx[s].default => (IsDefault(c, a)' <=> IsDefault(c, a))
                     /\ a = tx[s].app /\ tx[s].default => (IsDefault(c, a)' <=> c = tx[s].chan)
  OBVIOUS
<1>3. CASE c = tx[s].chan
  <2>1. row[c] # None /\ row[c].default => tx[s].default /\ row[c].app = tx[s].app
    BY <1>1, <1>3 DEF DefaultsKept
  <2>. QED  BY <1>2, <1>3, <2>1 DEF IsDefault
<1>4. CASE c # tx[s].chan /\ c \in tx[s].cleared
  <2>1. row[c].app = tx[s].app /\ tx[s].default
    BY <1>1, <1>4 DEF ClearedHeld
  <2>2. ~row'[c].default
    BY <1>4, WriteChanges
  <2>. QED  BY <1>4, <2>1, <2>2 DEF IsDefault
<1>5. CASE c # tx[s].chan /\ c \notin tx[s].cleared
  <2>1. row'[c] = row[c]
    BY <1>5, WriteChanges
  <2>2. tx[s].default /\ row[c].app = tx[s].app => ~row[c].default
    BY <1>1, <1>5 DEF DefaultUnique, Of
  <2>. QED  BY <1>5, <2>1, <2>2 DEF IsDefault
<1>. QED  BY <1>3, <1>4, <1>5

LEMMA WriteKeeps ==
    ASSUME ChannelsInv, NEW s \in Session, WriteChannel(s)
    PROVE  ChannelsInv'
<1>. USE DEF ChannelsInv
<1>1. Ends(s) /\ git' = git
  BY DEF WriteChannel, Rest
<1>2. CASE row' = row
  BY <1>1, <1>2, EndKeeps
<1>3. CASE row' # row
  <2>1. /\ tx[s] \in Open /\ tx[s].op = "write" /\ Written(s) \in Row
        /\ row' \in [Channel -> {None} \cup Row]
        /\ tx[s].chan \in Channel /\ tx[s].app \in Application
    BY <1>3, WriteChanges DEF Open
  <2>2. /\ row'[tx[s].chan] # None /\ row'[tx[s].chan].app = tx[s].app
    BY <1>3, <2>1, WriteChanges, WrittenFields
  <2>3. \A c \in Channel : c # tx[s].chan =>
           /\ row'[c] # None <=> row[c] # None
           /\ row'[c].app = row[c].app
           /\ c \notin tx[s].cleared => row'[c] = row[c]
    BY <1>3, WriteChanges
  <2>4. \A c \in Channel, a \in Application :
           /\ a # tx[s].app \/ ~tx[s].default => (IsDefault(c, a)' <=> IsDefault(c, a))
           /\ a = tx[s].app /\ tx[s].default => (IsDefault(c, a)' <=> c = tx[s].chan)
    BY <1>3, WriteMovesDefault
  <2>5. /\ tx'[s] = Idle /\ \A o \in Session \ {s} : tx'[o] = tx[o]
        /\ locked'[s] = {} /\ \A o \in Session \ {s} : locked'[o] = locked[o]
    BY <1>1 DEF Ends, RowsShape
  <2>6. RowsShape'
    BY <1>1, <2>1 DEF RowsShape, Ends
  <2>7. DefaultsApart'
    BY <2>4 DEF DefaultsApart
  <2>8. AppsHaveDefault'
    <3>. SUFFICES ASSUME NEW c \in Channel, row'[c] # None, NEW a, a = row'[c].app
                  PROVE  \E d \in Channel : IsDefault(d, a)'
      BY DEF AppsHaveDefault, IsDefault
    <3>1. a \in Application
      BY <2>1 DEF Row
    <3>2. CASE a = tx[s].app /\ tx[s].default
      BY <2>1, <2>4, <3>2
    <3>3. CASE c # tx[s].chan /\ ~(a = tx[s].app /\ tx[s].default)
      <4>1. row[c] # None /\ row[c].app = a
        BY <2>3, <3>3
      <4>2. PICK d \in Channel : IsDefault(d, a)
        BY <4>1 DEF AppsHaveDefault
      <4>. QED  BY <2>4, <3>1, <3>3, <4>2
    <3>4. CASE c = tx[s].chan /\ ~tx[s].default
      <4>1. PICK d \in Channel : IsDefault(d, tx[s].app)
        BY <2>1, <3>4 DEF DefaultsKept
      <4>. QED  BY <2>1, <2>2, <2>4, <3>4, <4>1
    <3>. QED  BY <2>2, <3>2, <3>3, <3>4
  <2>9. \A o \in Session \ {s} : /\ tx[s].cleared \cap locked[o] = {}
                                 /\ tx[s].chan \in locked[o] => FALSE
                                 /\ tx[o] \in Open => tx[o].chan # tx[s].chan
                                                      /\ tx[o].chan \notin tx[s].cleared
    <3>. SUFFICES ASSUME NEW o \in Session \ {s}
                  PROVE  /\ tx[s].cleared \cap locked[o] = {}
                         /\ tx[s].chan \notin locked[o]
                         /\ tx[o] \in Open => tx[o].chan # tx[s].chan
                                              /\ tx[o].chan \notin tx[s].cleared
      OBVIOUS
    <3>1. tx[s].cleared \subseteq locked[s] /\ locked[s] \cap locked[o] = {}
      BY <2>1 DEF ClearedHeld, LocksHeld
    <3>2. tx[s].chan \notin locked[o]
      BY <2>1, <3>1 DEF ChansHeld, LocksHeld
    <3>3. tx[o] \in Open => tx[o].chan # tx[s].chan
      BY <2>1 DEF ChansApart
    <3>4. tx[o] \in Open => tx[o].chan \notin tx[s].cleared
      BY <3>1 DEF ChansHeld, LocksHeld
    <3>. QED  BY <3>1, <3>2, <3>3, <3>4
  <2>10. LocksHeld'
    BY <2>3, <2>5, <2>9 DEF LocksHeld, RowsShape
  <2>11. ChansApart' /\ ChansHeld'
    <3>1. \A o \in Session \ {s} : tx[o] \in Open => row'[tx[o].chan] = row[tx[o].chan]
      BY <2>3, <2>9 DEF Open
    <3>. QED  BY <1>1, <2>5, <3>1, NoneIsNoRow DEF ChansApart, ChansHeld
  <2>12. ClearedHeld'
    <3>. SUFFICES ASSUME NEW o \in Session \ {s}, tx[o] \in Open
                  PROVE  \A c \in tx[o].cleared : row'[c].app = row[c].app
      BY <2>5, NoneIsNoRow DEF ClearedHeld
    <3>. QED  BY <2>3, <2>9 DEF ClearedHeld, RowsShape
  <2>13. DefaultsKept'
    <3>. SUFFICES ASSUME NEW o \in Session \ {s}, tx[o] \in Open, NEW a, a = tx[o].app
                  PROVE  LET c == tx[o].chan IN
                         /\ row'[c] # None /\ row'[c].default => tx[o].default /\ row'[c].app = a
                         /\ tx[o].op = "write" /\ ~tx[o].default =>
                               \E d \in Channel : d # c /\ IsDefault(d, a)'
      BY <2>5, NoneIsNoRow DEF DefaultsKept, IsDefault
    <3>1. row'[tx[o].chan] = row[tx[o].chan] /\ a \in Application
      BY <2>3, <2>9 DEF Open
    <3>2. ASSUME tx[o].op = "write", ~tx[o].default
          PROVE  \E d \in Channel : d # tx[o].chan /\ IsDefault(d, a)'
      <4>1. PICK d \in Channel : d # tx[o].chan /\ IsDefault(d, a)
        BY <3>2 DEF DefaultsKept
      <4>2. CASE a = tx[s].app /\ tx[s].default
        BY <2>1, <2>4, <2>9, <4>2
      <4>3. CASE ~(a = tx[s].app /\ tx[s].default)
        BY <2>4, <3>1, <4>1, <4>3
      <4>. QED  BY <4>2, <4>3
    <3>. QED  BY <3>1, <3>2 DEF DefaultsKept
  <2>. QED  BY <2>6, <2>7, <2>8, <2>10, <2>11, <2>12, <2>13
<1>. QED  BY <1>2, <1>3

-----------------------------------------------------------------------------
LEMMA ChannelsInvNext == ASSUME ChannelsInv, [Next]_vars PROVE ChannelsInv'
<1>1. CASE UNCHANGED <<row, git, locked, tx>>
  BY <1>1, Unchanged
<1>2. ASSUME NEW s \in Session, ChannelNext(s) PROVE ChannelsInv'
  <2>1. CASE Rollback(s)
    BY <2>1, EndKeeps DEF Rollback, Rest
  <2>. QED  BY <1>2, <2>1, CreateKeeps, UpdateKeeps, ClearKeeps, LookKeeps, WriteKeeps, DeleteKeeps
           DEF ChannelNext
<1>3. ASSUME NEW e \in Environment, CreateEnvironment(e) \/ DeleteEnvironmentWithID(e)
      PROVE  UNCHANGED <<row, git, locked, tx>>
  BY <1>3 DEF CreateEnvironment, DeleteEnvironmentWithID
<1>4. ASSUME NEW l \in Lifecycle,
             \/ \E ps \in PhaseLists : CreateLifecycle(l, ps) \/ UpdateLifecycle(l, ps)
             \/ DeleteLifecycleWithID(l)
      PROVE  UNCHANGED <<row, git, locked, tx>>
  BY <1>4 DEF CreateLifecycle, UpdateLifecycle, DeleteLifecycleWithID
<1>. QED  BY <1>1, <1>2, <1>3, <1>4, EnsureKeeps, AuthorityKeeps DEF Next, vars

(***************************************************************************)
(* An application with channels has exactly one default channel, for any    *)
(* number of applications, channels and overlapping transactions, whichever *)
(* of them wait, fail or are rolled back (CreateChannel, UpdateChannel,     *)
(* DeleteChannelWithID, EnsureDefaultChannels).                             *)
(***************************************************************************)
THEOREM DefaultIsUnique == Spec => []ExactlyOneDefault
<1>1. ChannelsInv => ExactlyOneDefault
  BY OneDefault
<1>. QED  BY <1>1, ChannelsInvInit, ChannelsInvNext, PTL DEF Spec

-----------------------------------------------------------------------------
(* The authority of Git.                                                    *)

LifecyclesKept ==
    \A l \in lifecycles \cap git \cap git' : l \in DOMAIN phases' /\ phases'[l] = phases[l]
ManagedChannelsKept ==
    \A c \in Channel \cap git \cap git' :
        row[c] # None => row'[c] # None /\ SameButDefault(row[c], row'[c])

LEMMA LifecycleStep ==
    ASSUME NEW l \in Lifecycle,
           \/ \E ps \in PhaseLists : CreateLifecycle(l, ps) \/ UpdateLifecycle(l, ps)
           \/ DeleteLifecycleWithID(l)
    PROVE  LifecyclesKept /\ ManagedChannelsKept
<1>1. /\ UNCHANGED <<row, git>> /\ (l \notin lifecycles \/ l \notin git)
      /\ \/ \E ps : phases' = [m \in lifecycles \cup {l} |-> IF m = l THEN ps ELSE phases[m]]
         \/ phases' = [m \in lifecycles \ {l} |-> phases[m]]
  BY DEF CreateLifecycle, UpdateLifecycle, DeleteLifecycleWithID, DatabaseManaged,
         replaceLifecyclePhases
<1>2. ManagedChannelsKept
  BY <1>1 DEF ManagedChannelsKept, SameButDefault
<1>3. ASSUME NEW m \in lifecycles \cap git
      PROVE  m \in DOMAIN phases' /\ phases'[m] = phases[m]
  BY <1>1
<1>. QED  BY <1>2, <1>3 DEF LifecyclesKept

LEMMA RowsStep ==
    ASSUME ChannelsInv, UNCHANGED phases,
           \/ UNCHANGED row
           \/ \E s \in Session : WriteChannel(s) \/ \E c \in Channel : DeleteChannelWithID(s, c)
           \/ \E c \in Channel, a \in Application, l \in Lifecycle : EnsureDefaultChannels(c, a, l)
    PROVE  LifecyclesKept /\ ManagedChannelsKept
<1>. USE DEF ChannelsInv
<1>1. LifecyclesKept
  BY DEF LifecyclesKept, lifecycles
<1>. SUFFICES ASSUME NEW c \in Channel \cap git, row[c] # None
              PROVE  row'[c] # None /\ SameButDefault(row[c], row'[c])
  BY <1>1 DEF ManagedChannelsKept
<1>2. CASE UNCHANGED row
  BY <1>2 DEF SameButDefault
<1>3. ASSUME NEW s \in Session, WriteChannel(s), row' # row
      PROVE  row'[c] # None /\ SameButDefault(row[c], row'[c])
  <2>1. c # tx[s].chan
    BY <1>3, WriteChanges DEF ChansHeld
  <2>. QED  BY <1>3, <2>1, WriteChanges DEF SameButDefault
<1>4. ASSUME NEW s \in Session, NEW d \in Channel, DeleteChannelWithID(s, d)
      PROVE  row'[c] # None /\ SameButDefault(row[c], row'[c])
  BY <1>4 DEF DeleteChannelWithID, DatabaseManaged, SameButDefault, RowsShape
<1>5. ASSUME NEW d \in Channel, NEW a \in Application, NEW l \in Lifecycle,
             EnsureDefaultChannels(d, a, l)
      PROVE  row'[c] # None /\ SameButDefault(row[c], row'[c])
  BY <1>5 DEF EnsureDefaultChannels, SameButDefault, RowsShape
<1>. QED  BY <1>2, <1>3, <1>4, <1>5

LEMMA GitStep == ASSUME ChannelsInv, [Next]_vars PROVE LifecyclesKept /\ ManagedChannelsKept
<1>1. CASE UNCHANGED <<phases, row>>
  BY <1>1, RowsStep
<1>2. ASSUME NEW s \in Session, ChannelNext(s) PROVE LifecyclesKept /\ ManagedChannelsKept
  <2>1. UNCHANGED phases
    BY <1>2 DEF ChannelNext, CreateChannel, UpdateChannel, clearDefaultChannels,
                defaultChannelExists, WriteChannel, Rollback, DeleteChannelWithID, Rest
  <2>2. \/ UNCHANGED row
        \/ WriteChannel(s) \/ \E c \in Channel : DeleteChannelWithID(s, c)
    BY <1>2 DEF ChannelNext, CreateChannel, UpdateChannel, clearDefaultChannels,
                defaultChannelExists, Rollback
  <2>. QED  BY <2>1, <2>2, RowsStep
<1>3. ASSUME NEW e \in Environment, CreateEnvironment(e) \/ DeleteEnvironmentWithID(e)
      PROVE  UNCHANGED <<phases, row>>
  BY <1>3 DEF CreateEnvironment, DeleteEnvironmentWithID
<1>4. ASSUME NEW c \in Channel, NEW a \in Application, NEW l \in Lifecycle,
             EnsureDefaultChannels(c, a, l)
      PROVE  LifecyclesKept /\ ManagedChannelsKept
  <2>1. UNCHANGED phases
    BY <1>4 DEF EnsureDefaultChannels, Rest
  <2>. QED  BY <1>4, <2>1, RowsStep
<1>5. ASSUME NEW r, NEW g, UpsertConfigAsCodeAuthority(r, g)
      PROVE  UNCHANGED <<phases, row>>
  BY <1>5 DEF UpsertConfigAsCodeAuthority
<1>. QED  BY <1>1, <1>2, <1>3, <1>4, <1>5, LifecycleStep DEF Next, vars

(***************************************************************************)
(* While Git has the authority over a channel or a lifecycle, no request    *)
(* deletes it or changes anything but a channel's default flag, not even    *)
(* one that was under way when the authority changed                        *)
(* (EnsureConfigAsCodeDatabaseManagedForUpdate).                            *)
(***************************************************************************)
THEOREM GitManagedIsKept == Spec => GitManagedKept
<1>1. ChannelsInv /\ [Next]_vars => [LifecyclesKept /\ ManagedChannelsKept]_vars
  BY GitStep
<1>2. [LifecyclesKept /\ ManagedChannelsKept]_vars =>
        [/\ \A l \in lifecycles \cap git \cap git' : l \in DOMAIN phases' /\ phases'[l] = phases[l]
         /\ \A c \in Channel \cap git \cap git' : row[c] # None =>
               row'[c] # None /\ SameButDefault(row[c], row'[c])]_vars
  BY DEF LifecyclesKept, ManagedChannelsKept
<1>. QED  BY <1>1, <1>2, ChannelsInvInit, ChannelsInvNext, PTL DEF Spec, GitManagedKept

-----------------------------------------------------------------------------
(* Variables: what is stored was normalized.                                *)

VariablesInv == set # Nil => set.vars \in VariableSets /\ Vars!normalizeVariableSet(set.vars)

LEMMA VariablesInvInit == Vars!Init => VariablesInv
  BY DEF Vars!Init, VariablesInv

LEMMA VariablesInvNext == ASSUME VariablesInv, [Vars!Next]_(Vars!vars) PROVE VariablesInv'
<1>1. CASE UNCHANGED set
  BY <1>1 DEF VariablesInv
<1>2. ASSUME NEW c \in VariableSets, Vars!CreateVariableSet(c) \/ Vars!UpdateVariableSet(c)
      PROVE  VariablesInv'
  <2>1. set'.vars = c /\ Vars!normalizeVariableSet(c)
    BY <1>2 DEF Vars!CreateVariableSet, Vars!UpdateVariableSet, Vars!MayWrite
  <2>. QED  BY <2>1 DEF VariablesInv, Vars!normalizeVariableSet
<1>3. CASE Vars!DeleteVariableSetWithID
  BY <1>3 DEF Vars!DeleteVariableSetWithID, VariablesInv
<1>4. \/ UNCHANGED set \/ Vars!DeleteVariableSetWithID
      \/ \E c \in VariableSets : Vars!CreateVariableSet(c) \/ Vars!UpdateVariableSet(c)
  BY DEF Vars!Next, Vars!vars, Vars!UpsertConfigAsCodeAuthority, Vars!DeleteSecret,
         Vars!getVariableSetsForApplication, Vars!getVariablesForSet, Vars!getScopedValuesForVariable,
         Vars!ResolveVariablesPreview, Vars!createVariableSnapshotForReleaseBundle, Vars!Rollback
<1>. QED  BY <1>1, <1>2, <1>3, <1>4

-----------------------------------------------------------------------------
(* The order of the candidates.                                             *)

LEMMA LeastNat == ASSUME NEW T \in SUBSET Nat, T # {} PROVE \E x \in T : \A y \in T : x <= y
<1>. DEFINE R == {ss \in Nat \X Nat : ss[1] < ss[2]}
<1>1. IsWellFoundedOn(R, Nat)
  BY NatLessThanWellFounded DEF OpToRel
<1>. HIDE DEF R
<1>2. PICK x \in T : \A y \in T : ~ (<<y, x>> \in R)
  BY <1>1, WFMin
<1>3. \A y \in T : ~(y < x)
  BY <1>2 DEF R
<1>. QED  BY <1>3

(* There is a candidate before all others, however many there are.          *)
LEMMA FirstCandidate ==
    ASSUME NEW C, C # {}, \A a \in C : a.rank \in Nat /\ a.order \in Nat /\ a.tag \in Nat
    PROVE  \E a \in C : \A b \in C : Vars!Before(a, b)
<1>. DEFINE Ranks == {a.rank : a \in C}
<1>1. PICK r \in Ranks : \A q \in Ranks : r <= q
  BY LeastNat
<1>. DEFINE Ranked == {a \in C : a.rank = r}
            Orders == {a.order : a \in Ranked}
<1>2. PICK o \in Orders : \A q \in Orders : o <= q
  <2>1. Orders \in SUBSET Nat /\ Orders # {}
    OBVIOUS
  <2>. QED  BY <2>1, LeastNat
<1>. DEFINE Ordered == {a \in Ranked : a.order = o}
            Tags == {a.tag : a \in Ordered}
<1>3. PICK t \in Tags : \A q \in Tags : t <= q
  <2>1. Tags \in SUBSET Nat /\ Tags # {}
    OBVIOUS
  <2>. QED  BY <2>1, LeastNat
<1>4. PICK a \in Ordered : a.tag = t
  OBVIOUS
<1>5. ASSUME NEW b \in C PROVE Vars!Before(a, b)
  <2>1. a.rank = r /\ a.order = o /\ a \in C /\ r <= b.rank
    BY <1>1, <1>4
  <2>2. b.rank = r => o <= b.order
    BY <1>2
  <2>3. b.rank = r /\ b.order = o => t <= b.tag
    BY <1>3
  <2>. QED  BY <1>4, <2>1, <2>2, <2>3 DEF Vars!Before
<1>. QED  BY <1>4, <1>5

(* A shape comes before every shape that is part of it.                     *)
LEMMA ShapesOrdered ==
    ASSUME NEW i \in DOMAIN Vars!shapes, NEW j \in DOMAIN Vars!shapes, i <= j,
           Vars!shapes[i] \subseteq Vars!shapes[j]
    PROVE  i = j
<1>1. DOMAIN Vars!shapes = 1..8
  BY DEF Vars!shapes
<1>2. i \in 1..8 /\ j \in 1..8
  BY <1>1
<1>3. CASE i = 1
  BY <1>2, <1>3 DEF Vars!shapes
<1>4. CASE i = 2
  BY <1>2, <1>4 DEF Vars!shapes
<1>5. CASE i = 3
  BY <1>2, <1>5 DEF Vars!shapes
<1>6. CASE i = 4
  BY <1>2, <1>6 DEF Vars!shapes
<1>7. CASE i = 5
  BY <1>2, <1>7 DEF Vars!shapes
<1>8. CASE i = 6
  BY <1>2, <1>8 DEF Vars!shapes
<1>9. CASE i = 7
  BY <1>2, <1>9 DEF Vars!shapes
<1>10. CASE i = 8
  BY <1>2, <1>10
<1>. QED  BY <1>2, <1>3, <1>4, <1>5, <1>6, <1>7, <1>8, <1>9, <1>10

LEMMA SourceOf ==
    ASSUME NEW scope, Vars!Supported(scope)
    PROVE  /\ Vars!Source(scope) \in 2..9
           /\ Vars!Source(scope) - 1 \in DOMAIN Vars!shapes
           /\ Vars!shapes[Vars!Source(scope) - 1] = DOMAIN scope
<1>. DEFINE i == CHOOSE n \in DOMAIN Vars!shapes : Vars!shapes[n] = DOMAIN scope
<1>1. i \in DOMAIN Vars!shapes /\ Vars!shapes[i] = DOMAIN scope
  BY DEF Vars!Supported, Vars!Mask
<1>2. DOMAIN Vars!shapes = 1..8
  BY DEF Vars!shapes
<1>3. Vars!Source(scope) = 1 + i
  BY DEF Vars!Source, Vars!Mask
<1>. HIDE DEF i
<1>. QED  BY <1>1, <1>2, <1>3

LEMMA FinerFirst ==
    ASSUME NEW x, NEW y, Vars!Supported(x.scope), Vars!Supported(y.scope), Vars!Finer(y, x)
    PROVE  Vars!Source(y.scope) < Vars!Source(x.scope)
<1>. DEFINE i == Vars!Source(x.scope) - 1
            j == Vars!Source(y.scope) - 1
<1>1. /\ i \in DOMAIN Vars!shapes /\ Vars!shapes[i] = DOMAIN x.scope /\ Vars!Source(x.scope) \in 2..9
      /\ j \in DOMAIN Vars!shapes /\ Vars!shapes[j] = DOMAIN y.scope /\ Vars!Source(y.scope) \in 2..9
  BY SourceOf
<1>2. DOMAIN x.scope \subseteq DOMAIN y.scope /\ DOMAIN x.scope # DOMAIN y.scope
  BY DEF Vars!Finer, Vars!Mask
<1>3. ~(i <= j)
  BY <1>1, <1>2, ShapesOrdered
<1>. QED  BY <1>1, <1>3

-----------------------------------------------------------------------------
(* What is resolved.                                                        *)

Stored(v) ==
    /\ Vars!normalizeVariable(v)
    /\ \A x \in v.scoped : "tag" \in DOMAIN x.scope => x.scope["tag"] \in Nat
Matching(v, at) == {x \in v.scoped : Vars!scopeMatches(x.scope, at)}

LEMMA StoredVariables ==
    ASSUME VariablesInv, set # Nil, NEW v \in set.vars
    PROVE  Stored(v) /\ [value |-> v.default, ref |-> v.ref] # Nil
  BY TagsNumbered, PromptsNamed DEF VariablesInv, Stored, Vars!normalizeVariableSet

LEMMA ScopedFacts ==
    ASSUME NEW v, Stored(v), NEW x \in v.scoped
    PROVE  /\ Vars!Supported(x.scope) /\ x.order \in Nat
           /\ IF Vars!isReferenceVariableType(v.type) THEN x.value = Nil /\ x.ref # Nil
              ELSE x.value # Nil /\ x.ref = Nil
  BY DEF Stored, Vars!normalizeVariable, Vars!normalizeScopedValues, Vars!normalizeScopedValue

Selected(a, p) == a.rank = 1 /\ p # Nil /\ a.value = p.value /\ a.ref = p.ref
Fallback(a, v) ==
    a.rank = 10 /\ Vars!hasResolutionDefault(v) /\ a.value = v.default /\ a.ref = v.ref
FromScope(a, x) == a.rank = Vars!Source(x.scope) /\ a.value = x.value /\ a.ref = x.ref

LEMMA CandidateFacts ==
    ASSUME NEW v, Stored(v), NEW at, NEW p, NEW a \in Vars!Candidates(v, at, p)
    PROVE  /\ a.rank \in Nat /\ a.order \in Nat /\ a.tag \in Nat
           /\ Selected(a, p) \/ Fallback(a, v) \/ \E x \in Matching(v, at) : FromScope(a, x)
<1>1. CASE a.rank = 1 /\ p # Nil /\ a = [rank |-> 1, order |-> 0, tag |-> 0, value |-> p.value, ref |-> p.ref]
  BY <1>1 DEF Selected
<1>2. CASE /\ Vars!hasResolutionDefault(v)
           /\ a = [rank |-> 10, order |-> 0, tag |-> 0, value |-> v.default, ref |-> v.ref]
  BY <1>2 DEF Fallback
<1>3. ASSUME NEW x \in Matching(v, at),
             a = [rank |-> Vars!Source(x.scope), order |-> x.order,
                  tag |-> IF "tag" \in DOMAIN x.scope THEN x.scope["tag"] ELSE 0,
                  value |-> x.value, ref |-> x.ref]
      PROVE  /\ a.rank \in Nat /\ a.order \in Nat /\ a.tag \in Nat /\ FromScope(a, x)
  <2>1. x \in v.scoped
    BY DEF Matching
  <2>2. Vars!Source(x.scope) \in Nat
    BY <2>1, ScopedFacts, SourceOf
  <2>. QED  BY <1>3, <2>1, <2>2, ScopedFacts DEF FromScope, Stored
<1>. QED  BY <1>1, <1>2, <1>3 DEF Vars!Candidates, Matching

LEMMA CandidateOf ==
    ASSUME NEW v, NEW at, NEW p
    PROVE  /\ p # Nil => \E a \in Vars!Candidates(v, at, p) : a.rank = 1
           /\ Vars!hasResolutionDefault(v) => Vars!Candidates(v, at, p) # {}
           /\ \A x \in Matching(v, at) :
                 \E a \in Vars!Candidates(v, at, p) : a.rank = Vars!Source(x.scope)
<1>1. ASSUME p # Nil PROVE \E a \in Vars!Candidates(v, at, p) : a.rank = 1
  <2>. DEFINE a == [rank |-> 1, order |-> 0, tag |-> 0, value |-> p.value, ref |-> p.ref]
  <2>1. a \in Vars!Candidates(v, at, p)
    BY <1>1 DEF Vars!Candidates
  <2>. QED  BY <2>1
<1>2. ASSUME NEW x \in Matching(v, at)
      PROVE  \E a \in Vars!Candidates(v, at, p) : a.rank = Vars!Source(x.scope)
  <2>. DEFINE a == [rank |-> Vars!Source(x.scope), order |-> x.order,
                    tag |-> IF "tag" \in DOMAIN x.scope THEN x.scope["tag"] ELSE 0,
                    value |-> x.value, ref |-> x.ref]
  <2>1. a \in Vars!Candidates(v, at, p)
    BY <1>2 DEF Vars!Candidates, Matching
  <2>. QED  BY <2>1
<1>. QED  BY <1>1, <1>2 DEF Vars!Candidates

(* What resolveVariable selects is before all candidates.                   *)
LEMMA ResolvedFirst ==
    ASSUME NEW v, Stored(v), NEW at, NEW p, Vars!Candidates(v, at, p) # {}
    PROVE  \E a \in Vars!Candidates(v, at, p) :
              /\ \A b \in Vars!Candidates(v, at, p) : Vars!Before(a, b)
              /\ Vars!resolveVariable(v, at, p) = Vars!Resolution(v, "resolved",
                    IF Vars!isReferenceVariableType(v.type) THEN Nil ELSE a.value, a.ref)
<1>. DEFINE C == Vars!Candidates(v, at, p)
            a == CHOOSE b \in C : \A c \in C : Vars!Before(b, c)
<1>1. C # {} /\ \A b \in C : b.rank \in Nat /\ b.order \in Nat /\ b.tag \in Nat
  BY CandidateFacts
<1>2. \E b \in C : \A c \in C : Vars!Before(b, c)
  <2>. HIDE DEF C
  <2>. QED  BY <1>1, FirstCandidate
<1>3. a \in C /\ \A c \in C : Vars!Before(a, c)
  BY <1>2
<1>. QED  BY <1>3 DEF Vars!resolveVariable

LEMMA NothingSelected ==
    ASSUME NEW v, Stored(v), NEW at, NEW p, Vars!Candidates(v, at, p) = {}
    PROVE  /\ Vars!resolveVariable(v, at, p) = Vars!Resolution(v, "unresolved", Nil, Nil)
           /\ ~Vars!hasResolutionDefault(v) /\ Matching(v, at) = {}
  BY CandidateOf DEF Vars!resolveVariable

(* A variable has a default or a reference, never both.                     *)
LEMMA DefaultFacts ==
    ASSUME NEW v, Stored(v)
    PROVE  IF Vars!isReferenceVariableType(v.type)
           THEN v.default = Nil /\ (Vars!hasResolutionDefault(v) <=> v.ref # Nil)
           ELSE v.ref = Nil /\ (Vars!hasResolutionDefault(v) <=> v.default # Nil)
  BY DEF Stored, Vars!normalizeVariable, Vars!normalizeReferenceVariable, Vars!normalizeValueVariable,
         Vars!hasResolutionDefault

LEMMA MostSpecific ==
    ASSUME NEW v, Stored(v), NEW at
    PROVE  LET r == Vars!resolveVariable(v, at, Nil)
               M == Matching(v, at)
           IN IF M = {} THEN r.value = v.default /\ r.ref = v.ref
              ELSE \E x \in M : /\ r.value = x.value /\ r.ref = x.ref
                                /\ ~\E y \in M : Vars!Finer(y, x)
<1>. DEFINE r == Vars!resolveVariable(v, at, Nil)
            M == Matching(v, at)
            C == Vars!Candidates(v, at, Nil)
<1>1. CASE C = {}
  <2>1. r.value = Nil /\ r.ref = Nil /\ M = {} /\ ~Vars!hasResolutionDefault(v)
    BY <1>1, NothingSelected DEF Vars!Resolution
  <2>. QED  BY <2>1, DefaultFacts
<1>2. CASE C # {}
  <2>1. PICK a \in C : /\ \A b \in C : Vars!Before(a, b)
                       /\ r = Vars!Resolution(v, "resolved",
                             IF Vars!isReferenceVariableType(v.type) THEN Nil ELSE a.value, a.ref)
    BY <1>2, ResolvedFirst
  <2>2. /\ a.rank \in Nat
        /\ Fallback(a, v) \/ \E x \in M : FromScope(a, x)
    BY CandidateFacts DEF Selected
  <2>3. /\ r.value = IF Vars!isReferenceVariableType(v.type) THEN Nil ELSE a.value
        /\ r.ref = a.ref
    BY <2>1 DEF Vars!Resolution
  <2>. HIDE DEF r, C
  <2>4. ASSUME NEW y \in M PROVE a.rank <= Vars!Source(y.scope)
    <3>1. PICK b \in C : b.rank = Vars!Source(y.scope)
      BY CandidateOf DEF C
    <3>2. b.rank \in Nat
      BY CandidateFacts DEF C
    <3>. QED  BY <2>1, <2>2, <3>1, <3>2 DEF Vars!Before
  <2>5. \A y \in M : Vars!Supported(y.scope) /\ Vars!Source(y.scope) \in 2..9
    BY ScopedFacts, SourceOf DEF Matching
  <2>6. CASE M = {}
    BY <2>2, <2>3, <2>6, DefaultFacts DEF Fallback, r
  <2>7. CASE M # {}
    <3>1. a.rank # 10
      BY <2>4, <2>5, <2>7, <2>2
    <3>2. PICK x \in M : FromScope(a, x)
      BY <2>2, <3>1 DEF Fallback
    <3>3. r.value = x.value /\ r.ref = x.ref
      BY <2>3, <3>2, ScopedFacts DEF FromScope, Matching
    <3>4. ASSUME NEW y \in M PROVE ~Vars!Finer(y, x)
      BY <2>2, <2>4, <2>5, <3>2, FinerFirst DEF FromScope
    <3>. QED  BY <2>7, <3>3, <3>4 DEF r
  <2>. QED  BY <2>6, <2>7
<1>. QED  BY <1>1, <1>2

LEMMA PromptedFirst ==
    ASSUME NEW v, Stored(v), NEW at, NEW p, p # Nil, Vars!preparePromptedValues(v, p)
    PROVE  Vars!resolveVariable(v, at, p).ref = p.ref /\ Vars!resolveVariable(v, at, p).value = p.value
<1>. DEFINE C == Vars!Candidates(v, at, p)
            r == Vars!resolveVariable(v, at, p)
<1>1. PICK b \in C : b.rank = 1
  BY CandidateOf
<1>2. PICK a \in C : /\ \A c \in C : Vars!Before(a, c)
                     /\ r = Vars!Resolution(v, "resolved",
                           IF Vars!isReferenceVariableType(v.type) THEN Nil ELSE a.value, a.ref)
  BY <1>1, ResolvedFirst
<1>3. a.rank \in Nat /\ a.rank <= 1
  BY <1>1, <1>2, CandidateFacts DEF Vars!Before
<1>4. Selected(a, p) \/ Fallback(a, v) \/ \E x \in Matching(v, at) : FromScope(a, x)
  BY CandidateFacts
<1>5. ASSUME NEW x \in Matching(v, at) PROVE ~FromScope(a, x)
  <2>1. Vars!Source(x.scope) \in 2..9
    BY ScopedFacts, SourceOf DEF Matching
  <2>. QED  BY <1>3, <2>1 DEF FromScope
<1>6. a.value = p.value /\ a.ref = p.ref
  BY <1>3, <1>4, <1>5 DEF Selected, Fallback
<1>. QED  BY <1>2, <1>6 DEF Vars!Resolution, Vars!preparePromptedValues

-----------------------------------------------------------------------------
(* What a report without drift says.                                        *)

LEMMA ParsedPaths ==
    ASSUME NEW d
    PROVE  LET values == Vars!parseDeployedValues(d) IN
           /\ \A k : <<k>> \in DOMAIN values <=>
                 k \in DOMAIN d.env \/ (k \in DOMAIN d.yaml /\ d.yaml[k].kind # "list")
           /\ \A k \in DOMAIN d.env : values[<<k>>] = [kind |-> "string", v |-> d.env[k]]
           /\ \A k \in DOMAIN d.yaml : k \notin DOMAIN d.env /\ d.yaml[k].kind # "list" =>
                 values[<<k>>] = d.yaml[k]
           /\ \A k \in DOMAIN d.yaml : d.yaml[k].kind = "list" =>
                 \A j \in DOMAIN d.yaml[k].v : <<k, j>> \in DOMAIN values
<1>. DEFINE y == d.yaml
            top == {k \in DOMAIN y : y[k].kind # "list"}
            inner == {k \in DOMAIN y : y[k].kind \in {"map", "list"}}
            paths == {<<k>> : k \in top} \cup UNION {{<<k, j>> : j \in DOMAIN y[k].v} : k \in inner}
            flat == Vars!flattenYAML(y)
            values == Vars!parseDeployedValues(d)
<1>1. flat = [p \in paths |-> IF Len(p) = 1 THEN y[p[1]] ELSE y[p[1]].v[p[2]]]
  BY DEF Vars!flattenYAML
<1>2. DOMAIN flat = paths
  BY <1>1
<1>3. values = [p \in DOMAIN flat \cup {<<k>> : k \in DOMAIN d.env} |->
                  IF Len(p) = 1 /\ p[1] \in DOMAIN d.env
                  THEN [kind |-> "string", v |-> d.env[p[1]]] ELSE flat[p]]
  BY DEF Vars!parseDeployedValues
<1>4. DOMAIN values = paths \cup {<<k>> : k \in DOMAIN d.env}
  BY <1>2, <1>3
<1>5. \A k, i, j : /\ Len(<<k>>) = 1 /\ <<k>>[1] = k /\ <<i, j>> # <<k>>
  OBVIOUS
<1>6. \A k : <<k>> \in paths <=> k \in top
  BY <1>5
<1>7. \A k \in inner : \A j \in DOMAIN y[k].v : <<k, j>> \in paths
  OBVIOUS
<1>8. \A k \in top : flat[<<k>>] = y[k]
  BY <1>1, <1>5, <1>6
<1>. HIDE DEF flat, values, paths
<1>9. \A k : <<k>> \in DOMAIN values <=> k \in DOMAIN d.env \/ k \in top
  BY <1>4, <1>5, <1>6
<1>10. \A k \in DOMAIN d.env : values[<<k>>] = [kind |-> "string", v |-> d.env[k]]
  BY <1>3, <1>5
<1>11. ASSUME NEW k \in top, k \notin DOMAIN d.env PROVE values[<<k>>] = y[k]
  <2>1. <<k>> \in DOMAIN flat
    BY <1>2, <1>6, <1>11
  <2>. QED  BY <1>3, <1>5, <1>8, <1>11, <2>1
<1>12. \A k \in DOMAIN y : y[k].kind = "list" => \A j \in DOMAIN y[k].v : <<k, j>> \in DOMAIN values
  BY <1>4, <1>7
<1>. QED  BY <1>9, <1>10, <1>11, <1>12 DEF values

(* Conversion keeps what is deployed, of a JSON variable its kind too.      *)
LEMMA Coerced ==
    ASSUME NEW x, NEW t, Vars!coerceDeployedValue(x, t) # Nil
    PROVE  /\ Vars!coerceDeployedValue(x, t).v = x.v
           /\ t = "json" => Vars!coerceDeployedValue(x, t).kind = x.kind
  BY DEF Vars!coerceDeployedValue

LEMMA NoDriftParts ==
    ASSUME NEW current, NEW d, ~Vars!HasDrift(Vars!Compare(current, d))
    PROVE  LET values == Vars!parseDeployedValues(d)
               keys == {r.key : r \in current}
           IN /\ \A r \in current : <<r.key>> \in DOMAIN values
              /\ \A p \in DOMAIN values : p \in {<<k>> : k \in keys} \/ Vars!hasCurrentParentKey(keys, p)
              /\ \A r \in current :
                    IF Vars!isReferenceVariableType(r.type)
                    THEN ~Vars!referenceChanged(r, values[<<r.key>>])
                    ELSE LET x == Vars!coerceDeployedValue(values[<<r.key>>], r.type) IN
                         x # Nil /\ (r.value # Nil => Vars!jsonEqual(r.value, x))
<1>. DEFINE values == Vars!parseDeployedValues(d)
            x(r) == values[<<r.key>>]
            found == {r \in current : <<r.key>> \in DOMAIN values}
            plain == {r \in found : ~Vars!isReferenceVariableType(r.type)}
            typed == {r \in plain : Vars!coerceDeployedValue(x(r), r.type) # Nil}
            keys == {r.key : r \in current}
            drift == Vars!Compare(current, d)
            removed == {p \in DOMAIN values : p \notin {<<k>> : k \in keys} /\ ~Vars!hasCurrentParentKey(keys, p)}
            defaults == {q \in typed : q.value # Nil
                           /\ ~Vars!jsonEqual(q.value, Vars!coerceDeployedValue(x(q), q.type))}
            references == {q \in found \ plain : Vars!referenceChanged(q, x(q))}
<1>1. drift = [missing |-> {r.key : r \in current \ found}, removed |-> removed,
               types |-> {r.key : r \in plain \ typed}, defaults |-> {r.key : r \in defaults},
               references |-> {r.key : r \in references}]
  BY DEF Vars!Compare
<1>2. \A f \in DOMAIN drift : drift[f] = {}
  BY DEF Vars!HasDrift
<1>. HIDE DEF found, plain, typed, removed, defaults, references, drift
<1>3. /\ {r.key : r \in current \ found} = {} /\ removed = {} /\ {r.key : r \in plain \ typed} = {}
      /\ {r.key : r \in defaults} = {} /\ {r.key : r \in references} = {}
  BY <1>1, <1>2
<1>4. current \ found = {} /\ plain \ typed = {} /\ defaults = {} /\ references = {}
  BY <1>3
<1>5. \A r \in current : r \in found /\ <<r.key>> \in DOMAIN values
  BY <1>4 DEF found
<1>6. \A p \in DOMAIN values : p \in {<<k>> : k \in keys} \/ Vars!hasCurrentParentKey(keys, p)
  BY <1>3 DEF removed
<1>7. ASSUME NEW r \in current, Vars!isReferenceVariableType(r.type)
      PROVE  ~Vars!referenceChanged(r, values[<<r.key>>])
  BY <1>4, <1>5, <1>7 DEF references, plain
<1>8. ASSUME NEW r \in current, ~Vars!isReferenceVariableType(r.type)
      PROVE  LET c == Vars!coerceDeployedValue(values[<<r.key>>], r.type) IN
             c # Nil /\ (r.value # Nil => Vars!jsonEqual(r.value, c))
  <2>1. r \in plain
    BY <1>5, <1>8 DEF plain
  <2>2. r \in typed
    BY <1>4, <2>1
  <2>. QED  BY <1>4, <2>2 DEF typed, defaults
<1>. QED  BY <1>5, <1>6, <1>7, <1>8

LEMMA ResolvedFacts ==
    ASSUME NEW v, Stored(v), NEW at, NEW r, r = Vars!resolveVariable(v, at, Nil), r.status = "resolved"
    PROVE  /\ r.key = v.key /\ r.type = v.type
           /\ IF Vars!isReferenceVariableType(r.type) THEN r.value = Nil /\ r.ref # Nil ELSE r.value # Nil
<1>1. Vars!Candidates(v, at, Nil) # {}
  BY NothingSelected DEF Vars!Resolution
<1>2. PICK a \in Vars!Candidates(v, at, Nil) :
         r = Vars!Resolution(v, "resolved",
                IF Vars!isReferenceVariableType(v.type) THEN Nil ELSE a.value, a.ref)
  BY <1>1, ResolvedFirst
<1>3. /\ r.key = v.key /\ r.type = v.type /\ r.ref = a.ref
      /\ r.value = IF Vars!isReferenceVariableType(v.type) THEN Nil ELSE a.value
  BY <1>2 DEF Vars!Resolution
<1>4. Fallback(a, v) \/ \E x \in Matching(v, at) : FromScope(a, x)
  BY CandidateFacts DEF Selected
<1>5. IF Vars!isReferenceVariableType(v.type) THEN a.ref # Nil ELSE a.value # Nil
  BY <1>4, DefaultFacts, ScopedFacts DEF Fallback, FromScope, Matching
<1>. QED  BY <1>3, <1>5

LEMMA NoDriftIsDeployed == ASSUME VariablesInv PROVE Vars!NoDriftMeansDeployed
<1>. SUFFICES ASSUME NEW at \in At, ~Vars!HasDrift(Vars!GetDeploymentConfigurationDrift(at))
              PROVE  LET R == IF set = Nil THEN {} ELSE Vars!Resolve(set.vars, at)
                         yaml == deployed.yaml
                     IN /\ \A r \in R : r.type # "secret" /\ (r.status = "resolved" => Vars!Deployed(r))
                        /\ {r.key : r \in R} = DOMAIN deployed.env
                              \cup {k \in DOMAIN yaml : yaml[k].kind = "list" => DOMAIN yaml[k].v # {}}
  BY DEF Vars!NoDriftMeansDeployed
<1>. DEFINE R == IF set = Nil THEN {} ELSE Vars!Resolve(set.vars, at)
            yaml == deployed.yaml
            values == Vars!parseDeployedValues(deployed)
            keys == {r.key : r \in R}
<1>1. ~Vars!HasDrift(Vars!Compare(R, deployed))
  BY DEF Vars!GetDeploymentConfigurationDrift
<1>2. \A r \in R : \E v : Stored(v) /\ r = Vars!resolveVariable(v, at, Nil)
  BY StoredVariables DEF Vars!Resolve
<1>. HIDE DEF R
<1>3. /\ \A r \in R : <<r.key>> \in DOMAIN values
      /\ \A p \in DOMAIN values : p \in {<<k>> : k \in keys} \/ Vars!hasCurrentParentKey(keys, p)
      /\ \A r \in R : IF Vars!isReferenceVariableType(r.type)
                      THEN ~Vars!referenceChanged(r, values[<<r.key>>])
                      ELSE LET x == Vars!coerceDeployedValue(values[<<r.key>>], r.type) IN
                           x # Nil /\ (r.value # Nil => Vars!jsonEqual(r.value, x))
  BY <1>1, NoDriftParts
<1>. HIDE DEF values
<1>4. /\ \A k : <<k>> \in DOMAIN values <=>
            k \in DOMAIN deployed.env \/ (k \in DOMAIN yaml /\ yaml[k].kind # "list")
      /\ \A k \in DOMAIN deployed.env : values[<<k>>] = [kind |-> "string", v |-> deployed.env[k]]
      /\ \A k \in DOMAIN yaml : k \notin DOMAIN deployed.env /\ yaml[k].kind # "list" =>
            values[<<k>>] = yaml[k]
      /\ \A k \in DOMAIN yaml : yaml[k].kind = "list" =>
            \A j \in DOMAIN yaml[k].v : <<k, j>> \in DOMAIN values
  BY ParsedPaths DEF values
<1>5. ASSUME NEW r \in R PROVE r.type # "secret"
  BY <1>3 DEF Vars!referenceChanged, Vars!isReferenceVariableType
<1>6. ASSUME NEW r \in R, r.status = "resolved" PROVE Vars!Deployed(r)
  <2>. DEFINE x == IF r.key \in DOMAIN deployed.env THEN [kind |-> "string", v |-> deployed.env[r.key]]
                   ELSE yaml[r.key]
  <2>1. values[<<r.key>>] = x
    BY <1>3, <1>4
  <2>2. PICK v : Stored(v) /\ r = Vars!resolveVariable(v, at, Nil)
    BY <1>2
  <2>3. IF Vars!isReferenceVariableType(r.type) THEN r.value = Nil /\ r.ref # Nil ELSE r.value # Nil
    BY <1>6, <2>2, ResolvedFacts
  <2>. HIDE DEF x
  <2>4. CASE Vars!isReferenceVariableType(r.type)
    <3>1. r.value = Nil /\ r.ref # Nil /\ ~Vars!referenceChanged(r, x)
      BY <1>3, <2>1, <2>3, <2>4
    <3>2. x.v \in {r.ref.id, r.ref.name}
      BY <3>1 DEF Vars!referenceChanged
    <3>. QED  BY <3>1, <3>2 DEF Vars!Deployed, x
  <2>5. CASE ~Vars!isReferenceVariableType(r.type)
    <3>. DEFINE c == Vars!coerceDeployedValue(x, r.type)
    <3>1. r.value # Nil /\ c # Nil /\ Vars!jsonEqual(r.value, c)
      BY <1>3, <2>1, <2>3, <2>5
    <3>2. c.v = x.v /\ (r.type = "json" => c.kind = x.kind)
      BY <3>1, Coerced
    <3>3. x.v = r.value.v /\ (r.type = "json" => x.kind = r.value.kind)
      BY <3>1, <3>2 DEF Vars!jsonEqual
    <3>. QED  BY <3>1, <3>3 DEF Vars!Deployed, x
  <2>. QED  BY <2>4, <2>5
<1>7. ASSUME NEW r \in R
      PROVE  \/ r.key \in DOMAIN deployed.env
             \/ r.key \in DOMAIN yaml /\ (yaml[r.key].kind = "list" => DOMAIN yaml[r.key].v # {})
  BY <1>3, <1>4
<1>8. \A i, j, k : <<i>> # <<j, k>> /\ (<<i>> = <<j>> => i = j) /\ Len(<<i>>) = 1 /\ <<j, k>>[1] = j
  OBVIOUS
<1>9. ASSUME NEW k, <<k>> \in DOMAIN values PROVE k \in keys
  BY <1>3, <1>8, <1>9 DEF Vars!hasCurrentParentKey
<1>10. ASSUME NEW k \in DOMAIN yaml, yaml[k].kind = "list", DOMAIN yaml[k].v # {}
       PROVE  k \in keys
  <2>1. PICK j \in DOMAIN yaml[k].v : <<k, j>> \in DOMAIN values
    BY <1>4, <1>10
  <2>. QED  BY <1>3, <1>8, <2>1 DEF Vars!hasCurrentParentKey
<1>11. keys = DOMAIN deployed.env
                \cup {k \in DOMAIN yaml : yaml[k].kind = "list" => DOMAIN yaml[k].v # {}}
  BY <1>4, <1>7, <1>9, <1>10
<1>. QED  BY <1>5, <1>6, <1>11 DEF R

(***************************************************************************)
(* For any variable sets, scopes and deployments: the most specific value   *)
(* of a scope that matches is resolved, a prompted one before it, and a     *)
(* report without drift means that the deployment has what is resolved now  *)
(* (resolveVariable, Compare).                                              *)
(***************************************************************************)
THEOREM VariablesAreSound ==
    Vars!Spec => [](Vars!MostSpecificWins /\ Vars!PromptedWins /\ Vars!NoDriftMeansDeployed)
<1>1. VariablesInv => Vars!MostSpecificWins
  BY StoredVariables, MostSpecific DEF Vars!MostSpecificWins, Matching
<1>2. VariablesInv => Vars!PromptedWins
  BY StoredVariables, PromptedFirst DEF Vars!PromptedWins
<1>3. VariablesInv /\ [Vars!Next]_(Vars!vars) => VariablesInv'
  BY VariablesInvNext
<1>. QED  BY <1>1, <1>2, <1>3, VariablesInvInit, NoDriftIsDeployed, PTL DEF Vars!Spec

-----------------------------------------------------------------------------
(* Processes: the inductive invariant.                                      *)

ProcessesShape ==
    /\ process \in {Nil} \cup [app : Application]
    /\ revisions \in Seq(StepSets)
    /\ channelApp \in [ProcessChannel -> Application \cup {Nil}]
    /\ processTx \in [Session -> {Proc!Idle} \cup [op : {"revision"}, steps : StepSets, app : Application]
                                 \cup [op : {"snapshot"}, number : Nat, payload : {Proc!Canonicalize(a, S) : a \in Application, S \in StepSets}]]

(* Without a process there is nothing of it.                                *)
NothingWithoutProcess ==
    process = Nil => /\ revisions = <<>> /\ ~processByGit
                     /\ \A s \in Session : processTx[s] = Proc!Idle

RevisionsValid == \A n \in DOMAIN revisions : Proc!Validate(revisions[n])
RevisionsReferToWhatExists ==
    \A n \in DOMAIN revisions : \A x \in revisions[n] :
        /\ \A c \in x.channels : channelApp[c] = process.app
        /\ x.environments \subseteq stepEnvironments
SnapshotsOfRevisions ==
    \A n \in DOMAIN snapshots :
        n \in DOMAIN revisions /\ snapshots[n] = Proc!Canonicalize(process.app, revisions[n])

(* Who makes a revision is alone, and Git has no authority meanwhile; who   *)
(* makes a snapshot has read what is still there.                           *)
WritersKept ==
    \A s \in Session : Proc!Writing(s) =>
        /\ processTx[s].app = process.app /\ Proc!Validate(processTx[s].steps) /\ ~processByGit
        /\ \A o \in Session \ {s} : ~Proc!Writing(o) /\ ~Proc!Reading(o)
ReadersKept ==
    \A s \in Session : Proc!Reading(s) =>
        /\ processTx[s].number \in DOMAIN revisions
        /\ processTx[s].payload = Proc!Canonicalize(process.app, revisions[processTx[s].number])

ProcessesInv ==
    /\ ProcessesShape /\ NothingWithoutProcess /\ RevisionsValid /\ RevisionsReferToWhatExists
    /\ SnapshotsOfRevisions /\ WritersKept /\ ReadersKept

-----------------------------------------------------------------------------
(* A payload lists every step once: orders tell steps apart.                *)
LEMMA PayloadIsTheRevision ==
    ASSUME NEW a, NEW S, Proc!Unique(S)
    PROVE  Proc!DecodeRevision(Proc!Canonicalize(a, S)) = S /\ Proc!Canonicalize(a, S).app = a
<1>. DEFINE f == [o \in {x.order : x \in S} |-> CHOOSE x \in S : x.order = o]
<1>1. Proc!Canonicalize(a, S) = [app |-> a, steps |-> f]
  BY DEF Proc!Canonicalize
<1>2. ASSUME NEW x \in S
      PROVE  f[x.order] = x
  BY DEF Proc!Unique
<1>3. DOMAIN f = {x.order : x \in S}
  OBVIOUS
<1>. HIDE DEF f
<1>4. {f[o] : o \in DOMAIN f} = S
  BY <1>2, <1>3
<1>. QED  BY <1>1, <1>4 DEF Proc!DecodeRevision

LEMMA ProcessesInvSound == ASSUME ProcessesInv PROVE Proc!ProcessesSound
<1>. USE DEF ProcessesInv
<1>1. ASSUME NEW n \in DOMAIN revisions
      PROVE  Proc!Unique(revisions[n]) /\ Proc!Acyclic(revisions[n], LAMBDA x : x.deps \cup x.refs)
  BY DEF RevisionsValid, Proc!Validate, Proc!validateDeploymentProcessStepDependencies
<1>2. ASSUME NEW n \in DOMAIN snapshots
      PROVE  Proc!DecodeRevision(snapshots[n]) = revisions[n] /\ snapshots[n].app = process.app
  <2>1. n \in DOMAIN revisions /\ snapshots[n] = Proc!Canonicalize(process.app, revisions[n])
    BY DEF SnapshotsOfRevisions
  <2>2. Proc!Unique(revisions[n])
    BY <1>1, <2>1
  <2>3. Proc!DecodeRevision(Proc!Canonicalize(process.app, revisions[n])) = revisions[n]
        /\ Proc!Canonicalize(process.app, revisions[n]).app = process.app
    BY <2>2, PayloadIsTheRevision
  <2>. QED  BY <2>1, <2>3
<1>. QED  BY <1>1, <1>2 DEF Proc!ProcessesSound, RevisionsReferToWhatExists

LEMMA ProcessesInvInit == Proc!Init => ProcessesInv
  BY DEF Proc!Init, ProcessesInv, ProcessesShape, NothingWithoutProcess, RevisionsValid,
         RevisionsReferToWhatExists, SnapshotsOfRevisions, WritersKept, ReadersKept,
         Proc!Writing, Proc!Reading, Proc!Idle

LEMMA ProcessTxOf ==
    ASSUME ProcessesShape, NEW s \in Session
    PROVE  /\ processTx[s] = Proc!Idle => ~Proc!Writing(s) /\ ~Proc!Reading(s)
           /\ Proc!Writing(s) => processTx[s].steps \in StepSets /\ processTx[s].app \in Application
           /\ Proc!Reading(s) => processTx[s].number \in Nat
           /\ ~Proc!Writing(s) /\ ~Proc!Reading(s) => processTx[s] = Proc!Idle
  BY DEF ProcessesShape, Proc!Idle, Proc!Writing, Proc!Reading

LEMMA ProcessesEnd ==
    ASSUME ProcessesInv, NEW s \in Session, Proc!Ends(s),
           UNCHANGED <<process, revisions, snapshots, processByGit, channelApp, stepEnvironments>>
    PROVE  ProcessesInv'
<1>. USE DEF ProcessesInv
<1>1. /\ processTx'[s] = Proc!Idle /\ \A o \in Session \ {s} : processTx'[o] = processTx[o]
      /\ ProcessesShape'
  BY DEF Proc!Ends, ProcessesShape
<1>2. \A o \in Session : processTx'[o].op # "idle" => o # s /\ processTx'[o] = processTx[o]
  BY <1>1 DEF Proc!Idle
<1>3. WritersKept' /\ ReadersKept'
  BY <1>1, <1>2 DEF WritersKept, ReadersKept, Proc!Writing, Proc!Reading
<1>4. NothingWithoutProcess'
  BY <1>1 DEF NothingWithoutProcess
<1>. QED  BY <1>1, <1>3, <1>4 DEF RevisionsValid, RevisionsReferToWhatExists, SnapshotsOfRevisions

(* Nobody has begun: what concerns transactions holds of itself.            *)
LEMMA Alone ==
    ASSUME ProcessesShape, NEW s \in Session, processTx[s] = Proc!Idle, Proc!getDeploymentProcess(s)
    PROVE  process # Nil /\ \A o \in Session : processTx[o] = Proc!Idle
  BY ProcessTxOf DEF Proc!getDeploymentProcess

LEMMA CreateProcess ==
    ASSUME ProcessesInv, NEW a \in Application, Proc!CreateDeploymentProcess(a)
    PROVE  ProcessesInv'
<1>. USE DEF ProcessesInv, Proc!CreateDeploymentProcess, Proc!World
<1>1. revisions = <<>> /\ DOMAIN snapshots = {} /\ ~processByGit /\ \A s \in Session : processTx[s] = Proc!Idle
  BY DEF NothingWithoutProcess, SnapshotsOfRevisions
<1>2. ProcessesShape'
  BY DEF ProcessesShape
<1>3. NothingWithoutProcess' /\ WritersKept' /\ ReadersKept'
  BY <1>1 DEF NothingWithoutProcess, WritersKept, ReadersKept, Proc!Writing, Proc!Reading, Proc!Idle
<1>. QED  BY <1>1, <1>2, <1>3 DEF RevisionsValid, RevisionsReferToWhatExists, SnapshotsOfRevisions

LEMMA UpdateProcess ==
    ASSUME ProcessesInv, NEW s \in Session, NEW a \in Application, Proc!UpdateDeploymentProcess(s, a)
    PROVE  ProcessesInv'
<1>. USE DEF ProcessesInv, Proc!World
<1>1. /\ processTx[s] = Proc!Idle /\ Proc!getDeploymentProcess(s) /\ ~processByGit
      /\ process.app # a => revisions = <<>>
      /\ process' = [process EXCEPT !.app = a]
      /\ UNCHANGED <<revisions, snapshots, processTx, processByGit, channelApp, stepEnvironments>>
  BY DEF Proc!UpdateDeploymentProcess, Proc!deploymentProcessHasRevisions
<1>2. process # Nil /\ \A o \in Session : processTx[o] = Proc!Idle
  BY <1>1, Alone
<1>3. /\ process' \in [app : Application]
      /\ process' = process \/ (revisions = <<>> /\ DOMAIN snapshots = {})
  <2>1. process \in [app : Application] /\ (revisions = <<>> => DOMAIN revisions = {})
    BY <1>2 DEF ProcessesShape
  <2>2. process' \in [app : Application] /\ (process.app = a => process' = process)
    <3>1. process = [app |-> process.app] /\ process' = [app |-> a]
      BY <1>1, <2>1
    <3>. QED  BY <3>1
  <2>. QED  BY <1>1, <2>1, <2>2 DEF SnapshotsOfRevisions
<1>4. ProcessesShape'
  BY <1>1, <1>3 DEF ProcessesShape
<1>5. NothingWithoutProcess' /\ WritersKept' /\ ReadersKept'
  BY <1>1, <1>2, <1>3 DEF NothingWithoutProcess, WritersKept, ReadersKept, Proc!Writing, Proc!Reading, Proc!Idle
<1>. QED  BY <1>1, <1>3, <1>4, <1>5 DEF RevisionsValid, RevisionsReferToWhatExists, SnapshotsOfRevisions

LEMMA DeleteProcess ==
    ASSUME ProcessesInv, NEW s \in Session, Proc!DeleteDeploymentProcessWithID(s)
    PROVE  ProcessesInv'
<1>. USE DEF ProcessesInv, Proc!World
<1>1. /\ processTx[s] = Proc!Idle /\ Proc!getDeploymentProcess(s) /\ ~processByGit
      /\ DOMAIN snapshots = {} /\ process' = Nil /\ revisions' = <<>>
      /\ UNCHANGED <<snapshots, processTx, processByGit, channelApp, stepEnvironments>>
  BY DEF Proc!DeleteDeploymentProcessWithID
<1>2. \A o \in Session : processTx[o] = Proc!Idle
  BY <1>1, Alone
<1>. QED  BY <1>1, <1>2 DEF ProcessesShape, NothingWithoutProcess, WritersKept, ReadersKept, Proc!Writing,
              Proc!Reading, Proc!Idle, RevisionsValid, RevisionsReferToWhatExists, SnapshotsOfRevisions

LEMMA BeginRevision ==
    ASSUME ProcessesInv, NEW s \in Session, NEW steps \in StepSets,
           Proc!CreateDeploymentProcessRevision(s, steps)
    PROVE  ProcessesInv'
<1>. USE DEF ProcessesInv, Proc!World
<1>. DEFINE t == [op |-> "revision", steps |-> steps, app |-> process.app]
<1>1. /\ processTx[s] = Proc!Idle /\ Proc!getDeploymentProcess(s) /\ ~processByGit /\ Proc!Validate(steps)
      /\ processTx' = [processTx EXCEPT ![s] = t]
      /\ UNCHANGED <<process, revisions, snapshots, processByGit, channelApp, stepEnvironments>>
  BY DEF Proc!CreateDeploymentProcessRevision, Proc!Goes
<1>2. process # Nil /\ \A o \in Session : processTx[o] = Proc!Idle
  BY <1>1, Alone
<1>3. t \in [op : {"revision"}, steps : StepSets, app : Application] /\ process.app \in Application
  BY <1>2 DEF ProcessesShape
<1>4. processTx'[s] = t /\ \A o \in Session \ {s} : processTx'[o] = Proc!Idle
  BY <1>1, <1>2 DEF ProcessesShape
<1>5. ProcessesShape'
  BY <1>1, <1>3 DEF ProcessesShape
<1>6. NothingWithoutProcess'
  BY <1>1, <1>2 DEF NothingWithoutProcess
<1>7. WritersKept' /\ ReadersKept'
  BY <1>1, <1>4 DEF WritersKept, ReadersKept, Proc!Writing, Proc!Reading, Proc!Idle
<1>. QED  BY <1>1, <1>5, <1>6, <1>7 DEF RevisionsValid, RevisionsReferToWhatExists, SnapshotsOfRevisions

(* Whoever reads or writes next finds the revisions that were there.        *)
LEMMA AppendedRevision ==
    ASSUME revisions \in Seq(StepSets), NEW steps \in StepSets, revisions' = Append(revisions, steps)
    PROVE  /\ revisions' \in Seq(StepSets)
           /\ \A n \in DOMAIN revisions : n \in DOMAIN revisions' /\ revisions'[n] = revisions[n]
           /\ \A n \in DOMAIN revisions' : n \in DOMAIN revisions \/ revisions'[n] = steps
  OBVIOUS

LEMMA InsertRevision ==
    ASSUME ProcessesInv, NEW s \in Session, Proc!insertDeploymentProcessSteps(s)
    PROVE  ProcessesInv'
<1>. USE DEF ProcessesInv, Proc!World
<1>. DEFINE steps == processTx[s].steps
<1>1. /\ Proc!Writing(s) /\ revisions' = Append(revisions, steps)
      /\ \A x \in steps : /\ \A c \in x.channels : channelApp[c] = processTx[s].app
                          /\ x.environments \subseteq stepEnvironments
      /\ processTx' = [processTx EXCEPT ![s] = Proc!Idle]
      /\ UNCHANGED <<process, snapshots, processByGit, channelApp, stepEnvironments>>
  BY DEF Proc!insertDeploymentProcessSteps, Proc!Ends, Proc!Writing,
         Proc!insertDeploymentProcessStepChannels, Proc!insertDeploymentProcessStepEnvironments
<1>2. /\ processTx[s].app = process.app /\ Proc!Validate(steps) /\ ~processByGit
      /\ \A o \in Session \ {s} : processTx[o] = Proc!Idle /\ steps \in StepSets
      /\ processTx[s] # Proc!Idle
  BY <1>1, ProcessTxOf DEF WritersKept
<1>3. /\ revisions' \in Seq(StepSets)
      /\ \A n \in DOMAIN revisions : n \in DOMAIN revisions' /\ revisions'[n] = revisions[n]
      /\ \A n \in DOMAIN revisions' : n \in DOMAIN revisions \/ revisions'[n] = steps
  <2>1. steps \in StepSets
    BY <1>1, ProcessTxOf
  <2>. HIDE DEF steps
  <2>. QED  BY <1>1, <2>1, AppendedRevision DEF ProcessesShape
<1>4. \A o \in Session : processTx'[o] = Proc!Idle
  BY <1>1, <1>2 DEF ProcessesShape
<1>5. ProcessesShape'
  BY <1>1, <1>3 DEF ProcessesShape
<1>6. NothingWithoutProcess' /\ WritersKept' /\ ReadersKept'
  BY <1>1, <1>2, <1>4 DEF NothingWithoutProcess, WritersKept, ReadersKept, Proc!Writing, Proc!Reading, Proc!Idle
<1>7. RevisionsValid'
  BY <1>2, <1>3 DEF RevisionsValid
<1>8. RevisionsReferToWhatExists'
  BY <1>1, <1>2, <1>3 DEF RevisionsReferToWhatExists
<1>9. SnapshotsOfRevisions'
  BY <1>1, <1>3 DEF SnapshotsOfRevisions
<1>. QED  BY <1>5, <1>6, <1>7, <1>8, <1>9

LEMMA BeginSnapshot ==
    ASSUME ProcessesInv, NEW s \in Session, NEW a \in Application, NEW n \in DOMAIN revisions,
           Proc!getDeploymentProcessRevisionForSnapshot(s, a, n)
    PROVE  ProcessesInv'
<1>. USE DEF ProcessesInv, Proc!World
<1>. DEFINE p == Proc!Canonicalize(process.app, revisions[n])
            t == [op |-> "snapshot", number |-> n, payload |-> p]
<1>1. /\ processTx[s] = Proc!Idle /\ process # Nil /\ \A o \in Session : ~Proc!Writing(o)
      /\ processTx' = [processTx EXCEPT ![s] = t]
      /\ UNCHANGED <<process, revisions, snapshots, processByGit, channelApp, stepEnvironments>>
  BY DEF Proc!getDeploymentProcessRevisionForSnapshot, Proc!Goes, Proc!LockedForUpdate
<1>2. process.app \in Application /\ revisions[n] \in StepSets /\ n \in Nat
  BY <1>1 DEF ProcessesShape
<1>3. p \in {Proc!Canonicalize(b, S) : b \in Application, S \in StepSets}
  BY <1>2
<1>4. processTx'[s] = t /\ \A o \in Session \ {s} : processTx'[o] = processTx[o]
  BY <1>1 DEF ProcessesShape
<1>. HIDE DEF p
<1>5. ProcessesShape'
  BY <1>1, <1>2, <1>3 DEF ProcessesShape
<1>6. NothingWithoutProcess'
  BY <1>1 DEF NothingWithoutProcess
<1>7. WritersKept'
  BY <1>1, <1>4 DEF WritersKept, Proc!Writing, Proc!Reading
<1>8. ReadersKept'
  BY <1>1, <1>4 DEF ReadersKept, Proc!Reading, p
<1>. QED  BY <1>1, <1>5, <1>6, <1>7, <1>8 DEF RevisionsValid, RevisionsReferToWhatExists, SnapshotsOfRevisions

LEMMA EndSnapshot ==
    ASSUME ProcessesInv, NEW s \in Session, Proc!ensureProcessSnapshotForRevision(s)
    PROVE  ProcessesInv'
<1>. USE DEF ProcessesInv, Proc!World
<1>1. /\ Proc!Reading(s) /\ processTx' = [processTx EXCEPT ![s] = Proc!Idle]
      /\ snapshots' = IF processTx[s].number \in DOMAIN snapshots THEN snapshots
                      ELSE [m \in DOMAIN snapshots \cup {processTx[s].number} |->
                              IF m = processTx[s].number THEN processTx[s].payload ELSE snapshots[m]]
      /\ UNCHANGED <<process, revisions, processByGit, channelApp, stepEnvironments>>
  BY DEF Proc!ensureProcessSnapshotForRevision, Proc!Ends, Proc!Reading
<1>2. SnapshotsOfRevisions'
  BY <1>1 DEF SnapshotsOfRevisions, ReadersKept
<1>3. /\ processTx'[s] = Proc!Idle /\ \A o \in Session \ {s} : processTx'[o] = processTx[o]
      /\ ProcessesShape'
  BY <1>1 DEF ProcessesShape
<1>4. \A o \in Session : processTx'[o].op # "idle" => o # s /\ processTx'[o] = processTx[o]
  BY <1>3 DEF Proc!Idle
<1>5. WritersKept' /\ ReadersKept'
  BY <1>1, <1>3, <1>4 DEF WritersKept, ReadersKept, Proc!Writing, Proc!Reading
<1>6. NothingWithoutProcess'
  BY <1>1, <1>3 DEF NothingWithoutProcess
<1>. QED  BY <1>1, <1>2, <1>3, <1>5, <1>6 DEF RevisionsValid, RevisionsReferToWhatExists

LEMMA WorldProcesses ==
    ASSUME ProcessesInv,
           \/ \E v \in Versions : Proc!ImportStepTemplate(v)
           \/ \E c \in ProcessChannel, a \in Application \cup {Nil} : Proc!UpdateChannel(c, a)
           \/ \E e \in ProcessEnvironment : Proc!DeleteEnvironmentWithID(e)
           \/ \E g \in BOOLEAN : Proc!UpsertConfigAsCodeAuthority(g)
    PROVE  ProcessesInv'
<1>. USE DEF ProcessesInv
<1>1. UNCHANGED <<process, revisions, snapshots, processTx>>
  BY DEF Proc!ImportStepTemplate, Proc!UpdateChannel, Proc!DeleteEnvironmentWithID,
         Proc!UpsertConfigAsCodeAuthority
<1>2. ProcessesShape'
  BY <1>1 DEF ProcessesShape, Proc!ImportStepTemplate, Proc!UpdateChannel,
         Proc!DeleteEnvironmentWithID, Proc!UpsertConfigAsCodeAuthority
<1>3. processByGit' = processByGit \/ (process # Nil /\ \A s \in Session : ~Proc!Writing(s))
  BY DEF Proc!ImportStepTemplate, Proc!UpdateChannel, Proc!DeleteEnvironmentWithID,
         Proc!UpsertConfigAsCodeAuthority
<1>4. NothingWithoutProcess' /\ WritersKept' /\ ReadersKept'
  BY <1>1, <1>3 DEF NothingWithoutProcess, WritersKept, ReadersKept, Proc!Writing, Proc!Reading
<1>5. ASSUME NEW n \in DOMAIN revisions, NEW x \in revisions[n]
      PROVE  /\ \A c \in x.channels : channelApp'[c] = channelApp[c]
             /\ x.environments \subseteq stepEnvironments'
  <2>1. revisions[n] \in StepSets
    BY DEF ProcessesShape
  <2>2. x.channels \subseteq ProcessChannel /\ x.environments \subseteq stepEnvironments
    BY <2>1, StepChannelsNamed DEF RevisionsReferToWhatExists
  <2>3. ASSUME NEW c \in ProcessChannel, NEW a \in Application \cup {Nil}, Proc!UpdateChannel(c, a)
        PROVE  /\ \A d \in x.channels : channelApp'[d] = channelApp[d]
               /\ x.environments \subseteq stepEnvironments'
    <3>1. c \notin x.channels /\ channelApp' = [channelApp EXCEPT ![c] = a] /\ stepEnvironments' = stepEnvironments
      BY <2>3 DEF Proc!UpdateChannel, Proc!Referenced
    <3>. QED  BY <2>2, <3>1 DEF ProcessesShape
  <2>. QED  BY <2>2, <2>3 DEF Proc!ImportStepTemplate, Proc!DeleteEnvironmentWithID, Proc!UpsertConfigAsCodeAuthority
<1>6. RevisionsReferToWhatExists'
  BY <1>1, <1>5 DEF RevisionsReferToWhatExists
<1>. QED  BY <1>1, <1>2, <1>4, <1>6 DEF RevisionsValid, SnapshotsOfRevisions

LEMMA ProcessesInvNext == ASSUME ProcessesInv, [Proc!Next]_(Proc!vars) PROVE ProcessesInv'
<1>1. ASSUME NEW s \in Session, Proc!Rollback(s)
      PROVE  ProcessesInv'
  BY <1>1, ProcessesEnd DEF Proc!Rollback, Proc!World
<1>2. CASE UNCHANGED Proc!vars
  BY <1>2 DEF Proc!vars, ProcessesInv, ProcessesShape, NothingWithoutProcess, RevisionsValid,
     RevisionsReferToWhatExists, SnapshotsOfRevisions, WritersKept, ReadersKept, Proc!Writing, Proc!Reading
<1>. QED  BY <1>1, <1>2, CreateProcess, UpdateProcess, DeleteProcess, BeginRevision, InsertRevision,
            BeginSnapshot, EndSnapshot, WorldProcesses DEF Proc!Next

(* What a step may not do to revisions, snapshots and imported versions.    *)
ProcessesKept ==
    /\ process # Nil /\ process' # Nil => \A n \in DOMAIN revisions : revisions'[n] = revisions[n]
    /\ \A n \in DOMAIN snapshots : n \in DOMAIN snapshots' /\ snapshots'[n] = snapshots[n]
    /\ \A v \in DOMAIN templates : templates'[v] = templates[v]
    /\ processByGit /\ processByGit' => process' = process /\ revisions' = revisions

LEMMA ProcessesKeptStep == ASSUME ProcessesInv, [Proc!Next]_(Proc!vars) PROVE ProcessesKept
<1>. USE DEF ProcessesInv, Proc!World, ProcessesKept
<1>1. ASSUME NEW a \in Application, Proc!CreateDeploymentProcess(a)
      PROVE  ProcessesKept
  BY <1>1 DEF Proc!CreateDeploymentProcess, NothingWithoutProcess
<1>2. ASSUME NEW s \in Session, NEW a \in Application, Proc!UpdateDeploymentProcess(s, a)
      PROVE  ProcessesKept
  BY <1>2 DEF Proc!UpdateDeploymentProcess
<1>3. ASSUME NEW s \in Session, Proc!DeleteDeploymentProcessWithID(s)
      PROVE  ProcessesKept
  BY <1>3 DEF Proc!DeleteDeploymentProcessWithID
<1>4. ASSUME NEW s \in Session, Proc!insertDeploymentProcessSteps(s)
      PROVE  ProcessesKept
  <2>1. Proc!Writing(s) /\ revisions' = Append(revisions, processTx[s].steps)
    BY <1>4 DEF Proc!insertDeploymentProcessSteps, Proc!Writing
  <2>2. ~processByGit /\ processTx[s].steps \in StepSets
    BY <2>1, ProcessTxOf DEF WritersKept
  <2>3. \A n \in DOMAIN revisions : revisions'[n] = revisions[n]
    BY <2>1, <2>2, AppendedRevision DEF ProcessesShape
  <2>. QED  BY <1>4, <2>2, <2>3 DEF Proc!insertDeploymentProcessSteps
<1>5. ASSUME NEW s \in Session, Proc!ensureProcessSnapshotForRevision(s)
      PROVE  ProcessesKept
  BY <1>5 DEF Proc!ensureProcessSnapshotForRevision
<1>6. ASSUME NEW v \in Versions, Proc!ImportStepTemplate(v)
      PROVE  ProcessesKept
  BY <1>6 DEF Proc!ImportStepTemplate, Proc!insertStepTemplateVersion
<1>7. ASSUME UNCHANGED <<process, revisions, snapshots, templates>>
      PROVE  ProcessesKept
  BY <1>7
<1>. QED  BY <1>1, <1>2, <1>3, <1>4, <1>5, <1>6, <1>7
        DEF Proc!Next, Proc!CreateDeploymentProcessRevision, Proc!getDeploymentProcessRevisionForSnapshot,
            Proc!Rollback, Proc!UpdateChannel, Proc!DeleteEnvironmentWithID,
            Proc!UpsertConfigAsCodeAuthority, Proc!vars

(* Revisions refer to what exists and can be run, and a snapshot is of its  *)
(* revision, however requests, channels and environments change around it.  *)
THEOREM ProcessesAreSound == Proc!Spec => []Proc!ProcessesSound
  BY ProcessesInvInit, ProcessesInvNext, ProcessesInvSound, PTL DEF Proc!Spec

(* Revisions, snapshots and imported versions never change, and nothing of  *)
(* a process does while Git has authority over it.                          *)
THEOREM ProcessesAreFrozen == Proc!Spec => Proc!ProcessesFrozen
<1>1. ASSUME ProcessesInv, [Proc!Next]_(Proc!vars)
      PROVE  [ProcessesKept]_(Proc!vars)
  BY <1>1, ProcessesKeptStep
<1>. QED  BY <1>1, ProcessesInvInit, ProcessesInvNext, PTL DEF Proc!Spec, Proc!ProcessesFrozen, ProcessesKept

-----------------------------------------------------------------------------
(* Runbooks.                                                                *)

RunbooksInv ==
    /\ runbook \in {Nil} \cup [app : Application]
    /\ runbookRevisions \in Seq(RunbookStepSets)
    /\ \A n \in DOMAIN runbookRevisions : Run!normalizeRunbookRevision(runbookRevisions[n])
    /\ \A n \in DOMAIN runbookSnapshots : 
          /\ n \in DOMAIN runbookRevisions
          /\ runbookSnapshots[n] = Run!Canonicalize(runbook.app, runbookRevisions[n])
    /\ runbook = Nil => runbookRevisions = <<>>

LEMMA RunbookPayload ==
    ASSUME NEW a, NEW S, Run!normalizeRunbookRevision(S)
    PROVE  Run!DecodeRevision(Run!Canonicalize(a, S)) = S /\ Run!Canonicalize(a, S).app = a
<1>. DEFINE f == [o \in {x.order : x \in S} |-> CHOOSE x \in S : x.order = o]
<1>1. Run!Canonicalize(a, S) = [app |-> a, steps |-> f]
  BY DEF Run!Canonicalize
<1>2. ASSUME NEW x \in S
      PROVE  f[x.order] = x
  BY DEF Run!normalizeRunbookRevision
<1>3. DOMAIN f = {x.order : x \in S}
  OBVIOUS
<1>. HIDE DEF f
<1>4. {f[o] : o \in DOMAIN f} = S
  BY <1>2, <1>3
<1>. QED  BY <1>1, <1>4 DEF Run!DecodeRevision

LEMMA RunbooksInvNext == ASSUME RunbooksInv, [Run!Next]_(Run!vars) PROVE RunbooksInv'
<1>. USE DEF RunbooksInv
<1>1. ASSUME NEW a \in Application, Run!CreateRunbook(a)
      PROVE  RunbooksInv'
  <2>1. DOMAIN runbookRevisions = {} /\ runbookRevisions = <<>>
    BY <1>1 DEF Run!CreateRunbook
  <2>. QED  BY <1>1, <2>1 DEF Run!CreateRunbook
<1>2. ASSUME NEW a \in Application, Run!UpdateRunbook(a)
      PROVE  RunbooksInv'
  <2>1. /\ runbook \in [app : Application] /\ runbook' = [runbook EXCEPT !.app = a]
        /\ runbook.app # a => runbookRevisions = <<>>
        /\ UNCHANGED <<runbookRevisions, runbookSnapshots>>
    BY <1>2 DEF Run!UpdateRunbook, Run!runbookHasRevisions
  <2>2. runbook = [app |-> runbook.app] /\ runbook' = [app |-> a]
    BY <2>1
  <2>3. runbookRevisions = <<>> => DOMAIN runbookRevisions = {}
    OBVIOUS
  <2>4. runbook' \in [app : Application]
    BY <2>2
  <2>5. CASE runbook' = runbook
    BY <2>1, <2>5
  <2>6. CASE runbookRevisions = <<>>
    BY <2>1, <2>3, <2>4, <2>6
  <2>. QED  BY <2>1, <2>2, <2>5, <2>6
<1>3. CASE Run!DeleteRunbookWithID
  BY <1>3 DEF Run!DeleteRunbookWithID
<1>4. ASSUME NEW steps \in RunbookStepSets, Run!CreateRunbookRevision(steps)
      PROVE  RunbooksInv'
  <2>1. /\ runbookRevisions' = Append(runbookRevisions, steps) /\ Run!normalizeRunbookRevision(steps)
        /\ runbook # Nil /\ UNCHANGED <<runbook, runbookSnapshots>>
    BY <1>4 DEF Run!CreateRunbookRevision, Run!insertRunbookSteps
  <2>2. /\ runbookRevisions' \in Seq(RunbookStepSets)
        /\ \A n \in DOMAIN runbookRevisions :
              n \in DOMAIN runbookRevisions' /\ runbookRevisions'[n] = runbookRevisions[n]
        /\ \A n \in DOMAIN runbookRevisions' :
              n \in DOMAIN runbookRevisions \/ runbookRevisions'[n] = steps
    BY <2>1
  <2>. QED  BY <2>1, <2>2
<1>5. ASSUME NEW n \in DOMAIN runbookRevisions, Run!PublishRunbookRevision(n)
      PROVE  RunbooksInv'
  BY <1>5 DEF Run!PublishRunbookRevision
<1>6. ASSUME UNCHANGED <<runbook, runbookRevisions, runbookSnapshots>>
      PROVE  RunbooksInv'
  BY <1>6
<1>. QED  BY <1>1, <1>2, <1>3, <1>4, <1>5, <1>6 DEF Run!Next, Run!UpsertConfigAsCodeAuthority, Run!vars

(* What is published of a runbook is the revision with its number, and the  *)
(* steps of every revision can be run in some order.                        *)
THEOREM RunbooksAreSound == Run!Spec => []Run!RunbooksSound
<1>1. Run!Init => RunbooksInv
  BY DEF Run!Init, RunbooksInv
<1>2. RunbooksInv => Run!RunbooksSound
  <2>. SUFFICES ASSUME RunbooksInv PROVE Run!RunbooksSound
    OBVIOUS
  <2>1. ASSUME NEW n \in DOMAIN runbookSnapshots
        PROVE  /\ Run!DecodeRevision(runbookSnapshots[n]) = runbookRevisions[n]
               /\ runbookSnapshots[n].app = runbook.app
    <3>1. /\ n \in DOMAIN runbookRevisions
          /\ runbookSnapshots[n] = Run!Canonicalize(runbook.app, runbookRevisions[n])
          /\ Run!normalizeRunbookRevision(runbookRevisions[n])
      BY DEF RunbooksInv
    <3>. QED  BY <3>1, RunbookPayload
  <2>2. ASSUME NEW n \in DOMAIN runbookRevisions
        PROVE  ~\E S \in (SUBSET runbookRevisions[n]) \ {{}} :
                  \A x \in S : (x.deps \cup x.refs) \cap Run!KeysOf(S) # {}
    BY DEF RunbooksInv, Run!normalizeRunbookRevision, Run!validateRunbookStepGraph
  <2>. QED  BY <2>1, <2>2 DEF Run!RunbooksSound
<1>. QED  BY <1>1, <1>2, RunbooksInvNext, PTL DEF Run!Spec


-----------------------------------------------------------------------------
(* Release bundles: the inductive invariant.                                *)

Statuses == {"PUBLISHED", "BLOCKED", "ARCHIVED"}
Checksums == {Rel!Canonicalize(c, n) : c \in BundleContents, n \in Nat \cup {Nil}}
BundleRow == [status : {"DRAFT"} \cup Statuses, content : BundleContents,
              snapshot : Nat \cup {Nil}, checksum : Checksums]
BundleRequests ==
    {Rel!Idle}
    \cup [op : {"create"}, bundle : {Nil}, content : BundleContents, key : Key \cup {Rel!NoKey}]
    \cup [op : {"insert"}, bundle : {Nil}, content : BundleContents, key : Key]
    \cup [op : {"update"}, bundle : Bundle, content : BundleContents, key : {Rel!NoKey}]
    \cup [op : {"publish"}, bundle : Bundle, content : {Nil}, key : {Rel!NoKey}]
    \cup [op : {"children"}, bundle : Bundle, left : SUBSET Bundle]
    \cup [op : {"write"}, bundle : Bundle, snapshot : Nat]

BundlesShape ==
    /\ bundle \in [Bundle -> {Rel!None, Rel!Deleted} \cup BundleRow]
    /\ key \in [Key -> {Nil} \cup [checksum : Checksums, bundle : Bundle]]
    /\ accepted \in [Bundle -> Seq(Statuses)]
    /\ edition \in Nat
    /\ bundleTx \in [Session -> BundleRequests]

(* The row lock on a bundle is held by one transaction.                     *)
BundleLocksApart ==
    \A s, o \in Session : s # o /\ bundleTx[s].bundle \in Bundle => bundleTx[o].bundle # bundleTx[s].bundle

(* What a transaction that holds the lock has found, and nobody may change. *)
BundleKept(t) ==
    /\ t.bundle \in Bundle => Rel!Exists(t.bundle)
    /\ t.op \in {"update", "children", "write"} => bundle[t.bundle].status = "DRAFT"
    /\ t.op = "children" => Rel!Children(bundle[t.bundle].content) \subseteq t.left \cup Rel!Released
    /\ t.op = "write" => Rel!Children(bundle[t.bundle].content) \subseteq Rel!Released
BundlesKept == \A s \in Session : BundleKept(bundleTx[s])

NewBundlesUnlogged == \A b \in Bundle : bundle[b] = Rel!None => accepted[b] = <<>>

ReleasesInv ==
    /\ BundlesShape /\ BundleLocksApart /\ BundlesKept /\ NewBundlesUnlogged
    /\ Rel!ReleasesClosed /\ Rel!ReleasesAccountedFor

-----------------------------------------------------------------------------
(* A bundle has a row, with a status that says so, or none.                 *)
LEMMA BundleRows ==
    ASSUME BundlesShape, NEW b \in Bundle
    PROVE  /\ Rel!Exists(b) <=> bundle[b] \in BundleRow
           /\ b \in Rel!Released <=> bundle[b] \in BundleRow /\ bundle[b].status \in Statuses
           /\ bundle[b] \in BundleRow => bundle[b].status \in {"DRAFT"} \cup Statuses
           /\ bundle[b].status = "DRAFT" => bundle[b] \in BundleRow
           /\ bundle[b] = Rel!None => ~Rel!Exists(b)
  BY DEF BundlesShape, Rel!Exists, Rel!Released, BundleRow, Statuses, Rel!None, Rel!Deleted

LEMMA ReleasesInvInit == Rel!Init => ReleasesInv
<1>. SUFFICES ASSUME Rel!Init PROVE ReleasesInv
  OBVIOUS
<1>. USE BundlesNamed DEF Rel!Init
<1>1. BundlesShape
  BY DEF BundlesShape, BundleRequests
<1>2. \A b \in Bundle : ~Rel!Exists(b) /\ b \notin Rel!Released
  BY DEF Rel!Exists, Rel!Released, Rel!None
<1>3. BundleLocksApart /\ BundlesKept
  BY DEF BundleLocksApart, BundlesKept, BundleKept, Rel!Idle
<1>4. NewBundlesUnlogged /\ Rel!ReleasesAccountedFor
  BY <1>2 DEF NewBundlesUnlogged, Rel!ReleasesAccountedFor
<1>5. Rel!Released = {}
  BY <1>2 DEF Rel!Released
<1>6. Rel!ReleasesClosed
  <2>1. \A S \in SUBSET Rel!Released : S = {}
    BY <1>5
  <2>. QED  BY <1>5, <2>1 DEF Rel!ReleasesClosed
<1>. QED  BY <1>1, <1>3, <1>4, <1>6 DEF ReleasesInv

-----------------------------------------------------------------------------
(* Steps of a transaction that write no row.                                *)
LEMMA ReleasesTxStep ==
    ASSUME ReleasesInv, NEW s \in Session, NEW t \in BundleRequests,
           UNCHANGED <<bundle, key, accepted, edition>>,
           bundleTx' = [bundleTx EXCEPT ![s] = t],
           BundleKept(t),
           t.bundle \in Bundle => \A o \in Session \ {s} : bundleTx[o].bundle # t.bundle
    PROVE  ReleasesInv'
<1>. USE DEF ReleasesInv
<1>1. BundlesShape'
  BY DEF BundlesShape
<1>2. bundleTx'[s] = t /\ \A o \in Session \ {s} : bundleTx'[o] = bundleTx[o]
  BY DEF BundlesShape
<1>3. BundleLocksApart'
  BY <1>2 DEF BundleLocksApart
<1>4. \A u : BundleKept(u) => BundleKept(u)'
  BY DEF BundleKept, Rel!Exists, Rel!Released
<1>5. BundlesKept'
  BY <1>2, <1>4 DEF BundlesKept
<1>6. NewBundlesUnlogged' /\ Rel!ReleasesClosed' /\ Rel!ReleasesAccountedFor'
  BY DEF NewBundlesUnlogged, Rel!ReleasesClosed, Rel!ReleasesAccountedFor, Rel!Released, Rel!Exists
<1>. QED  BY <1>1, <1>3, <1>5, <1>6

(* One step ends a transaction, and the others go on with it.               *)
LEMMA ReleasesEnd ==
    ASSUME ReleasesInv, NEW s \in Session, UNCHANGED <<bundle, key, accepted, edition>>, Rel!Ends(s)
    PROVE  ReleasesInv'
<1>1. Rel!Idle \in BundleRequests /\ BundleKept(Rel!Idle) /\ Rel!Idle.bundle \notin Bundle
  BY BundlesNamed DEF BundleRequests, BundleKept, Rel!Idle
<1>. QED  BY <1>1, ReleasesTxStep DEF Rel!Ends

(* What a transaction holds, by where it is.                                *)
LEMMA BundleTxOf ==
    ASSUME BundlesShape, NEW s \in Session
    PROVE  LET t == bundleTx[s] IN
           /\ t \in BundleRequests
           /\ t.op = "create" => t.content \in BundleContents /\ t.key \in Key \cup {Rel!NoKey} /\ t.bundle = Nil
           /\ t.op = "insert" => t.content \in BundleContents /\ t.key \in Key /\ t.bundle = Nil
           /\ t.op = "update" => t.content \in BundleContents /\ t.bundle \in Bundle
           /\ t.op = "publish" => t.bundle \in Bundle
           /\ t.op = "children" => t \in [op : {"children"}, bundle : Bundle, left : SUBSET Bundle]
           /\ t.op = "write" => t.snapshot \in Nat /\ t.bundle \in Bundle
  BY DEF BundlesShape, BundleRequests, Rel!Idle

LEMMA CreateReleases ==
    ASSUME ReleasesInv, NEW s \in Session, NEW c \in BundleContents, NEW k \in Key \cup {Rel!NoKey},
           Rel!createReleaseBundleHandler(s, c, k)
    PROVE  ReleasesInv'
<1>. DEFINE t == [op |-> "create", bundle |-> Nil, content |-> c, key |-> k]
<1>1. t \in BundleRequests
  BY DEF BundleRequests
<1>2. BundleKept(t) /\ t.bundle \notin Bundle
  BY BundlesNamed DEF BundleKept
<1>3. UNCHANGED <<bundle, key, accepted, edition>> /\ bundleTx' = [bundleTx EXCEPT ![s] = t]
  BY DEF Rel!createReleaseBundleHandler, Rel!Goes, Rel!Same
<1>. HIDE DEF t
<1>. QED  BY <1>1, <1>2, <1>3, ReleasesTxStep

LEMMA LockKeyReleases ==
    ASSUME ReleasesInv, NEW s \in Session, Rel!lockReleaseBundleIdempotencyKey(s)
    PROVE  ReleasesInv'
<1>. DEFINE t == [bundleTx[s] EXCEPT !.op = "insert"]
<1>1. t \in BundleRequests /\ t.op = "insert" /\ t.bundle = Nil
  <2>1. bundleTx[s].op = "create" /\ bundleTx[s].key # Rel!NoKey
    BY DEF Rel!lockReleaseBundleIdempotencyKey
  <2>2. bundleTx[s] \in [op : {"create"}, bundle : {Nil}, content : BundleContents, key : Key \cup {Rel!NoKey}]
    BY <2>1 DEF ReleasesInv, BundlesShape, BundleRequests, Rel!Idle
  <2>3. t \in [op : {"insert"}, bundle : {Nil}, content : BundleContents, key : Key]
    BY <2>1, <2>2
  <2>. QED  BY <2>3 DEF BundleRequests
<1>2. UNCHANGED <<bundle, key, accepted, edition>> /\ bundleTx' = [bundleTx EXCEPT ![s] = t]
  BY DEF Rel!lockReleaseBundleIdempotencyKey, Rel!Goes, Rel!Same
<1>. HIDE DEF t
<1>3. BundleKept(t) /\ t.bundle \notin Bundle
  BY <1>1, BundlesNamed DEF BundleKept
<1>. QED  BY <1>1, <1>2, <1>3, ReleasesTxStep

LEMMA LockReleases ==
    ASSUME ReleasesInv, NEW s \in Session, NEW b \in Bundle, NEW op, NEW c,
           \/ op = "publish" /\ c = Nil
           \/ op = "update" /\ c \in BundleContents /\ bundle[b].status = "DRAFT",
           Rel!getReleaseBundle(s, b, op, c)
    PROVE  ReleasesInv'
<1>. DEFINE t == [op |-> op, bundle |-> b, content |-> c, key |-> Rel!NoKey]
<1>1. t \in BundleRequests /\ t.bundle = b /\ t.op = op
  BY DEF BundleRequests
<1>2. /\ UNCHANGED <<bundle, key, accepted, edition>> /\ bundleTx' = [bundleTx EXCEPT ![s] = t]
      /\ Rel!Exists(b) /\ \A o \in Session \ {s} : bundleTx[o].bundle # b
  BY DEF Rel!getReleaseBundle, Rel!Goes, Rel!Same, Rel!LockedByOther
<1>. HIDE DEF t
<1>3. BundleKept(t)
  BY <1>1, <1>2 DEF BundleKept
<1>. QED  BY <1>1, <1>2, <1>3, ReleasesTxStep

LEMMA HeldAlone ==
    ASSUME ReleasesInv, NEW s \in Session, bundleTx[s].bundle \in Bundle
    PROVE  \A o \in Session \ {s} : bundleTx[o].bundle # bundleTx[s].bundle
  BY DEF ReleasesInv, BundleLocksApart

LEMMA PublishReleases ==
    ASSUME ReleasesInv, NEW s \in Session, Rel!PublishReleaseBundle(s)
    PROVE  ReleasesInv'
<1>. DEFINE b == bundleTx[s].bundle
            t == [op |-> "children", bundle |-> b, left |-> Rel!Children(bundle[b].content)]
<1>1. UNCHANGED <<bundle, key, accepted, edition>> /\ bundleTx[s].op = "publish"
  BY DEF Rel!PublishReleaseBundle, Rel!Same
<1>2. b \in Bundle
  BY <1>1, BundleTxOf DEF ReleasesInv
<1>3. CASE Rel!Ends(s)
  BY <1>1, <1>3, ReleasesEnd
<1>4. CASE bundle[b].status = "DRAFT" /\ bundleTx' = [bundleTx EXCEPT ![s] = t]
  <2>1. bundle[b].content \in BundleContents /\ Rel!Exists(b)
    BY <1>2, <1>4, BundleRows DEF ReleasesInv, BundleRow
  <2>2. t \in BundleRequests /\ t.bundle = b /\ t.op = "children"
    BY <1>2, <2>1, ChildrenNamed DEF BundleRequests
  <2>3. BundleKept(t)
    BY <1>4, <2>1 DEF BundleKept
  <2>. HIDE DEF t
  <2>. QED  BY <1>1, <1>2, <1>4, <2>2, <2>3, HeldAlone, ReleasesTxStep
<1>. QED  BY <1>3, <1>4 DEF Rel!PublishReleaseBundle, Rel!insertRejectedAuditEvent, Rel!Goes

LEMMA ChildReleases ==
    ASSUME ReleasesInv, NEW s \in Session, Rel!validateChildren(s)
    PROVE  ReleasesInv'
<1>. DEFINE b == bundleTx[s].bundle
<1>1. UNCHANGED <<bundle, key, accepted, edition>> /\ bundleTx[s].op = "children"
  BY DEF Rel!validateChildren, Rel!Same
<1>2. CASE Rel!Ends(s)
  BY <1>1, <1>2, ReleasesEnd
<1>3. ASSUME NEW d \in bundleTx[s].left, bundle[d].status = "PUBLISHED",
             bundleTx' = [bundleTx EXCEPT ![s] = [bundleTx[s] EXCEPT !.left = @ \ {d}]]
      PROVE  ReleasesInv'
  <2>. DEFINE t == [bundleTx[s] EXCEPT !.left = @ \ {d}]
  <2>1. b \in Bundle /\ t \in BundleRequests /\ t.bundle = b /\ t.op = "children"
        /\ t.left = bundleTx[s].left \ {d} /\ d \in Bundle
        /\ bundleTx' = [bundleTx EXCEPT ![s] = t]
    BY <1>1, <1>3, BundleTxOf DEF BundleRequests, ReleasesInv
  <2>. HIDE DEF t
  <2>2. BundleKept(bundleTx[s])
    BY DEF ReleasesInv, BundlesKept
  <2>3. d \in Rel!Released
    BY <1>3, <2>1 DEF Rel!Released
  <2>4. BundleKept(t)
    BY <1>1, <2>1, <2>2, <2>3, Zenon DEF BundleKept
  <2>. QED  BY <1>1, <2>1, <2>4, HeldAlone, ReleasesTxStep
<1>. QED  BY <1>1, <1>2, <1>3 DEF Rel!validateChildren, Rel!validateChildReleaseBundleComponent,
                Rel!insertRejectedAuditEvent, Rel!Goes

LEMMA SnapshotReleases ==
    ASSUME ReleasesInv, NEW s \in Session, Rel!createVariableSnapshotForReleaseBundle(s)
    PROVE  ReleasesInv'
<1>. DEFINE t == [op |-> "write", bundle |-> bundleTx[s].bundle, snapshot |-> edition]
<1>1. /\ UNCHANGED <<bundle, key, accepted, edition>>
      /\ bundleTx[s].op = "children" /\ bundleTx[s].left = {} /\ bundleTx' = [bundleTx EXCEPT ![s] = t]
  BY DEF Rel!createVariableSnapshotForReleaseBundle, Rel!Goes, Rel!Same
<1>2. bundleTx[s].bundle \in Bundle /\ edition \in Nat
  BY <1>1, BundleTxOf DEF ReleasesInv, BundlesShape
<1>3. t \in BundleRequests /\ t.bundle = bundleTx[s].bundle /\ t.op = "write"
  BY <1>2 DEF BundleRequests
<1>. HIDE DEF t
<1>4. BundleKept(t)
  <2>1. BundleKept(bundleTx[s])
    BY DEF ReleasesInv, BundlesKept
  <2>. QED  BY <1>1, <1>3, <2>1 DEF BundleKept
<1>. QED  BY <1>1, <1>2, <1>3, <1>4, HeldAlone, ReleasesTxStep

-----------------------------------------------------------------------------
(* A row that nobody else has locked is written, and nothing that is        *)
(* released leaves, nor changes what it contains.                           *)
LEMMA BundleWrite ==
    ASSUME ReleasesInv, NEW s \in Session, NEW b \in Bundle, NEW r \in {Rel!Deleted} \cup BundleRow,
           \A o \in Session \ {s} : bundleTx[o].bundle # b,
           bundleTx' = [bundleTx EXCEPT ![s] = Rel!Idle],
           bundle' = [bundle EXCEPT ![b] = r], edition' = edition,
           b \in Rel!Released => r \in BundleRow /\ r.status \in Statuses /\ r.content = bundle[b].content
    PROVE  /\ bundle' \in [Bundle -> {Rel!None, Rel!Deleted} \cup BundleRow]
           /\ bundleTx' \in [Session -> BundleRequests]
           /\ bundle'[b] = r /\ \A d \in Bundle \ {b} : bundle'[d] = bundle[d]
           /\ Rel!Released \subseteq Rel!Released'
           /\ Rel!Released' \subseteq Rel!Released \cup {b}
           /\ BundleLocksApart' /\ BundlesKept'
<1>. USE DEF ReleasesInv
<1>1. /\ bundle' \in [Bundle -> {Rel!None, Rel!Deleted} \cup BundleRow]
      /\ bundleTx' \in [Session -> BundleRequests]
  BY DEF BundlesShape, BundleRequests
<1>2. /\ bundle'[b] = r /\ \A d \in Bundle \ {b} : bundle'[d] = bundle[d]
      /\ bundleTx'[s] = Rel!Idle /\ \A o \in Session \ {s} : bundleTx'[o] = bundleTx[o]
  BY DEF BundlesShape
<1>3. Rel!Released \subseteq Rel!Released' /\ Rel!Released' \subseteq Rel!Released \cup {b}
  BY <1>2 DEF Rel!Released, Statuses
<1>4. BundleLocksApart'
  BY <1>2, BundlesNamed DEF BundleLocksApart, Rel!Idle
<1>5. ASSUME NEW o \in Session \ {s}
      PROVE  BundleKept(bundleTx[o])'
  <2>. DEFINE t == bundleTx[o]
  <2>1. t.op \in {"update", "children", "write"} => t.bundle \in Bundle
    BY BundleTxOf
  <2>2. BundleKept(t) /\ t.bundle # b
    BY DEF BundlesKept
  <2>3. t.bundle \in Bundle => bundle'[t.bundle] = bundle[t.bundle]
    BY <1>2, <2>2
  <2>4. t' = t
    BY <1>2
  <2>. HIDE DEF t
  <2>5. BundleKept(t)'
    BY <1>3, <2>1, <2>2, <2>3, <2>4 DEF BundleKept, Rel!Exists
  <2>. QED  BY <2>5 DEF t
<1>6. BundlesKept'
  <2>1. BundleKept(Rel!Idle)'
    BY BundlesNamed DEF BundleKept, Rel!Idle
  <2>2. BundleKept(bundleTx[s])'
    BY <1>2, <2>1 DEF BundleKept
  <2>. QED  BY <1>5, <2>2 DEF BundlesKept
<1>. QED  BY <1>1, <1>2, <1>3, <1>4, <1>6

LEMMA ReleasesStayClosed ==
    ASSUME Rel!ReleasesClosed, NEW b,
           Rel!Released \subseteq Rel!Released', Rel!Released' \subseteq Rel!Released \cup {b},
           \A d \in Rel!Released : bundle'[d].content = bundle[d].content,
           b \in Rel!Released' \ Rel!Released => Rel!Children(bundle'[b].content) \subseteq Rel!Released
    PROVE  Rel!ReleasesClosed'
<1>1. ASSUME NEW d \in Rel!Released'
      PROVE  Rel!Children(bundle'[d].content) \subseteq Rel!Released
  <2>1. CASE d \in Rel!Released
    <3>1. bundle'[d].content = bundle[d].content
      BY <2>1
    <3>. QED  BY <2>1, <3>1 DEF Rel!ReleasesClosed
  <2>. QED  BY <2>1
<1>2. ASSUME NEW S \in SUBSET Rel!Released', S # {},
             \A d \in S : Rel!Children(bundle'[d].content) \cap S # {}
      PROVE  FALSE
  <2>. DEFINE T == S \cap Rel!Released
  <2>1. \A d \in S : Rel!Children(bundle'[d].content) \cap T # {}
    BY <1>1, <1>2
  <2>2. T # {} /\ T \in SUBSET Rel!Released
    BY <1>2, <2>1
  <2>3. ASSUME NEW d \in T
        PROVE  Rel!Children(bundle[d].content) \cap T # {}
    <3>1. bundle'[d].content = bundle[d].content
      OBVIOUS
    <3>. QED  BY <2>1, <3>1
  <2>. HIDE DEF T
  <2>. QED  BY <2>2, <2>3 DEF Rel!ReleasesClosed
<1>3. \A d \in Rel!Released' : Rel!Children(bundle'[d].content) \subseteq Rel!Released'
  BY <1>1
<1>. QED  BY <1>2, <1>3 DEF Rel!ReleasesClosed

LEMMA ReleasesStayAccounted ==
    ASSUME ReleasesInv, NEW b \in Bundle,
           \A d \in Bundle \ {b} : bundle'[d] = bundle[d] /\ accepted'[d] = accepted[d],
           bundle'[b].status \in {"NONE", "DELETED"}
           \/ bundle'[b].status = IF accepted'[b] = <<>> THEN "DRAFT" ELSE accepted'[b][Len(accepted'[b])],
           \A k \in Key : key'[k] # Nil =>
               \/ key'[k] = key[k] /\ key[k].bundle # b
               \/ key'[k].bundle = b /\ bundle'[b].status \notin {"NONE", "DELETED"}
    PROVE  Rel!ReleasesAccountedFor'
<1>. USE DEF ReleasesInv, Rel!Exists
<1>1. ASSUME NEW d \in Bundle, bundle'[d].status \notin {"NONE", "DELETED"}
      PROVE  bundle'[d].status = IF accepted'[d] = <<>> THEN "DRAFT" ELSE accepted'[d][Len(accepted'[d])]
  BY <1>1 DEF Rel!ReleasesAccountedFor
<1>2. ASSUME NEW k \in Key, key'[k] # Nil
      PROVE  bundle'[key'[k].bundle].status \notin {"NONE", "DELETED"}
  <2>1. CASE key'[k] = key[k] /\ key[k].bundle # b
    <3>1. key[k].bundle \in Bundle \ {b} /\ bundle[key[k].bundle].status \notin {"NONE", "DELETED"}
      BY <1>2, <2>1 DEF Rel!ReleasesAccountedFor, BundlesShape
    <3>. QED  BY <2>1, <3>1
  <2>. QED  BY <1>2, <2>1
<1>. QED  BY <1>1, <1>2 DEF Rel!ReleasesAccountedFor

LEMMA InsertReleases ==
    ASSUME ReleasesInv, NEW s \in Session, NEW b \in Bundle, Rel!insertReleaseBundle(s, b)
    PROVE  ReleasesInv'
<1>. USE DEF ReleasesInv
<1>. DEFINE c == bundleTx[s].content
            k == bundleTx[s].key
            sum == Rel!Canonicalize(c, Nil)
            r == [status |-> "DRAFT", content |-> c, snapshot |-> Nil, checksum |-> sum]
<1>1. /\ bundleTx[s].op \in {"create", "insert"} /\ (k # Rel!NoKey => key[k] = Nil)
      /\ bundle[b] = Rel!None /\ bundle' = [bundle EXCEPT ![b] = r]
      /\ key' = IF k = Rel!NoKey THEN key ELSE [key EXCEPT ![k] = [checksum |-> sum, bundle |-> b]]
      /\ bundleTx' = [bundleTx EXCEPT ![s] = Rel!Idle] /\ edition' = edition /\ accepted' = accepted
  BY DEF Rel!insertReleaseBundle, Rel!Ends, Rel!Same
<1>2. c \in BundleContents /\ k \in Key \cup {Rel!NoKey}
  BY <1>1, BundleTxOf
<1>3. sum \in Checksums /\ r \in BundleRow /\ r.status = "DRAFT"
  BY <1>2 DEF Checksums, BundleRow
<1>. HIDE DEF r, sum
<1>4. ~Rel!Exists(b) /\ b \notin Rel!Released
  BY <1>1, BundleRows DEF Statuses, BundleRow, Rel!None
<1>5. \A o \in Session \ {s} : bundleTx[o].bundle # b
  BY <1>4 DEF BundlesKept, BundleKept
<1>6. /\ bundle' \in [Bundle -> {Rel!None, Rel!Deleted} \cup BundleRow]
      /\ bundleTx' \in [Session -> BundleRequests]
      /\ bundle'[b] = r /\ \A d \in Bundle \ {b} : bundle'[d] = bundle[d]
      /\ Rel!Released \subseteq Rel!Released' /\ Rel!Released' \subseteq Rel!Released \cup {b}
      /\ BundleLocksApart' /\ BundlesKept'
  BY <1>1, <1>3, <1>4, <1>5, BundleWrite
<1>7. BundlesShape'
  BY <1>1, <1>2, <1>3, <1>6 DEF BundlesShape
<1>8. NewBundlesUnlogged'
  BY <1>1, <1>3, <1>6 DEF NewBundlesUnlogged, Rel!None
<1>9. Rel!ReleasesClosed'
  <2>1. b \notin Rel!Released'
    BY <1>3, <1>6 DEF Rel!Released
  <2>2. \A d \in Rel!Released : bundle'[d].content = bundle[d].content
    BY <1>4, <1>6 DEF Rel!Released
  <2>. QED  BY <1>6, <2>1, <2>2, ReleasesStayClosed
<1>10. Rel!ReleasesAccountedFor'
  <2>1. accepted[b] = <<>>
    BY <1>1 DEF NewBundlesUnlogged
  <2>2. bundle'[b].status = "DRAFT"
    BY <1>3, <1>6
  <2>3. \A j \in Key : key'[j] # Nil => key'[j] = key[j] \/ key'[j].bundle = b
    BY <1>1, <1>2 DEF BundlesShape
  <2>4. \A j \in Key : key[j] # Nil => key[j].bundle # b
    BY <1>4 DEF Rel!ReleasesAccountedFor
  <2>. QED  BY <1>1, <1>6, <2>1, <2>2, <2>3, <2>4, ReleasesStayAccounted
<1>. QED  BY <1>6, <1>7, <1>8, <1>9, <1>10

LEMMA UpdateReleases ==
    ASSUME ReleasesInv, NEW s \in Session, Rel!UpdateReleaseBundle(s)
    PROVE  ReleasesInv'
<1>. USE DEF ReleasesInv
<1>. DEFINE b == bundleTx[s].bundle
            c == bundleTx[s].content
            r == [bundle[b] EXCEPT !.content = c, !.checksum = Rel!Canonicalize(c, bundle[b].snapshot)]
<1>1. /\ bundleTx[s].op = "update" /\ bundleTx' = [bundleTx EXCEPT ![s] = Rel!Idle]
      /\ bundle' = [bundle EXCEPT ![b].content = c, ![b].checksum = Rel!Canonicalize(c, bundle[b].snapshot)]
      /\ edition' = edition /\ accepted' = accepted /\ key' = key
  BY DEF Rel!UpdateReleaseBundle, Rel!Ends, Rel!Same
<1>2. b \in Bundle /\ c \in BundleContents
  BY <1>1, BundleTxOf
<1>3. bundle' = [bundle EXCEPT ![b] = r]
  BY <1>1, <1>2 DEF BundlesShape
<1>4. bundle[b].status = "DRAFT" /\ bundle[b] \in BundleRow /\ Rel!Exists(b)
  BY <1>1, <1>2, BundleRows DEF BundlesKept, BundleKept
<1>5. Rel!Canonicalize(c, bundle[b].snapshot) \in Checksums
  BY <1>2, <1>4 DEF Checksums, BundleRow
<1>6. r \in BundleRow /\ r.status = "DRAFT"
  BY <1>2, <1>4, <1>5 DEF BundleRow
<1>. HIDE DEF r
<1>7. b \notin Rel!Released
  BY <1>4 DEF Rel!Released
<1>8. \A o \in Session \ {s} : bundleTx[o].bundle # b
  BY <1>2, HeldAlone
<1>9. /\ bundle' \in [Bundle -> {Rel!None, Rel!Deleted} \cup BundleRow]
      /\ bundleTx' \in [Session -> BundleRequests]
      /\ bundle'[b] = r /\ \A d \in Bundle \ {b} : bundle'[d] = bundle[d]
      /\ Rel!Released \subseteq Rel!Released' /\ Rel!Released' \subseteq Rel!Released \cup {b}
      /\ BundleLocksApart' /\ BundlesKept'
  BY <1>1, <1>2, <1>3, <1>6, <1>7, <1>8, BundleWrite
<1>10. BundlesShape'
  BY <1>1, <1>9 DEF BundlesShape
<1>11. NewBundlesUnlogged'
  <2>1. bundle'[b].status = "DRAFT" /\ Rel!None.status = "NONE"
    BY <1>6, <1>9 DEF Rel!None
  <2>. QED  BY <1>1, <1>2, <1>9, <2>1 DEF NewBundlesUnlogged
<1>12. Rel!ReleasesClosed'
  <2>1. b \notin Rel!Released'
    BY <1>6, <1>9 DEF Rel!Released
  <2>2. \A d \in Rel!Released : bundle'[d].content = bundle[d].content
    BY <1>7, <1>9 DEF Rel!Released
  <2>. QED  BY <1>9, <2>1, <2>2, ReleasesStayClosed
<1>13. Rel!ReleasesAccountedFor'
  <2>1. bundle'[b].status = IF accepted[b] = <<>> THEN "DRAFT" ELSE accepted[b][Len(accepted[b])]
    BY <1>2, <1>4, <1>6, <1>9 DEF Rel!ReleasesAccountedFor
  <2>2. bundle'[b].status \notin {"NONE", "DELETED"}
    BY <1>6, <1>9
  <2>3. \A k \in Key : key'[k] = key[k]
    BY <1>1
  <2>4. \A d \in Bundle \ {b} : bundle'[d] = bundle[d] /\ accepted'[d] = accepted[d]
    BY <1>1, <1>9
  <2>5. bundle'[b].status = IF accepted'[b] = <<>> THEN "DRAFT" ELSE accepted'[b][Len(accepted'[b])]
    BY <1>1, <2>1
  <2>. QED  BY <1>2, <2>2, <2>3, <2>4, <2>5, ReleasesStayAccounted
<1>. QED  BY <1>9, <1>10, <1>11, <1>12, <1>13

LEMMA DeleteReleases ==
    ASSUME ReleasesInv, NEW s \in Session, NEW b \in Bundle, Rel!DeleteReleaseBundleWithID(s, b)
    PROVE  ReleasesInv'
<1>. USE DEF ReleasesInv
<1>1. /\ bundleTx[s] = Rel!Idle /\ bundle[b].status = "DRAFT"
      /\ \A o \in Session \ {s} : bundleTx[o].bundle # b
      /\ \A k \in Key : key[k] # Nil => key[k].bundle # b
      /\ bundle' = [bundle EXCEPT ![b] = Rel!Deleted]
      /\ edition' = edition /\ accepted' = accepted /\ key' = key /\ bundleTx' = bundleTx
  BY DEF Rel!DeleteReleaseBundleWithID, Rel!Same, Rel!LockedByOther
<1>2. bundleTx' = [bundleTx EXCEPT ![s] = Rel!Idle]
  BY <1>1 DEF BundlesShape
<1>3. b \notin Rel!Released
  BY <1>1 DEF Rel!Released
<1>4. /\ bundle' \in [Bundle -> {Rel!None, Rel!Deleted} \cup BundleRow]
      /\ bundleTx' \in [Session -> BundleRequests]
      /\ bundle'[b] = Rel!Deleted /\ \A d \in Bundle \ {b} : bundle'[d] = bundle[d]
      /\ Rel!Released \subseteq Rel!Released' /\ Rel!Released' \subseteq Rel!Released \cup {b}
      /\ BundleLocksApart' /\ BundlesKept'
  BY <1>1, <1>2, <1>3, BundleWrite
<1>5. BundlesShape'
  BY <1>1, <1>4 DEF BundlesShape
<1>6. NewBundlesUnlogged'
  BY <1>1, <1>4 DEF NewBundlesUnlogged, Rel!None, Rel!Deleted
<1>7. Rel!ReleasesClosed'
  <2>1. b \notin Rel!Released'
    BY <1>4 DEF Rel!Released, Rel!Deleted
  <2>2. \A d \in Rel!Released : bundle'[d].content = bundle[d].content
    BY <1>3, <1>4 DEF Rel!Released
  <2>. QED  BY <1>4, <2>1, <2>2, ReleasesStayClosed
<1>8. Rel!ReleasesAccountedFor'
  BY <1>1, <1>4, ReleasesStayAccounted DEF Rel!Deleted
<1>. QED  BY <1>4, <1>5, <1>6, <1>7, <1>8

(* A status that is changed by an accepted request.                         *)
LEMMA StatusReleases ==
    ASSUME ReleasesInv, NEW s \in Session, NEW b \in Bundle, NEW to \in Statuses, NEW r \in BundleRow,
           bundle[b] \in BundleRow, r.status = to, r.content = bundle[b].content,
           bundle[b].status = "DRAFT" => Rel!Children(bundle[b].content) \subseteq Rel!Released,
           \A o \in Session \ {s} : bundleTx[o].bundle # b,
           bundle' = [bundle EXCEPT ![b] = r], accepted' = [accepted EXCEPT ![b] = Append(@, to)],
           bundleTx' = [bundleTx EXCEPT ![s] = Rel!Idle], UNCHANGED <<key, edition>>
    PROVE  ReleasesInv'
<1>. USE DEF ReleasesInv
<1>1. /\ bundle' \in [Bundle -> {Rel!None, Rel!Deleted} \cup BundleRow]
      /\ bundleTx' \in [Session -> BundleRequests]
      /\ bundle'[b] = r /\ \A d \in Bundle \ {b} : bundle'[d] = bundle[d]
      /\ Rel!Released \subseteq Rel!Released' /\ Rel!Released' \subseteq Rel!Released \cup {b}
      /\ BundleLocksApart' /\ BundlesKept'
  BY BundleWrite
<1>2. /\ accepted' \in [Bundle -> Seq(Statuses)] /\ accepted'[b] # <<>>
      /\ accepted'[b][Len(accepted'[b])] = to
      /\ \A d \in Bundle \ {b} : accepted'[d] = accepted[d]
  <2>1. accepted[b] \in Seq(Statuses) /\ accepted'[b] = Append(accepted[b], to)
    BY DEF BundlesShape
  <2>2. Append(accepted[b], to) \in Seq(Statuses) /\ Len(Append(accepted[b], to)) = Len(accepted[b]) + 1
        /\ Append(accepted[b], to)[Len(accepted[b]) + 1] = to /\ Len(accepted[b]) \in Nat
    BY <2>1
  <2>3. Append(accepted[b], to) # <<>>
    BY <2>2
  <2>. QED  BY <2>1, <2>2, <2>3 DEF BundlesShape
<1>3. BundlesShape'
  BY <1>1, <1>2 DEF BundlesShape
<1>4. NewBundlesUnlogged'
  BY <1>1, <1>2 DEF NewBundlesUnlogged, Rel!None, Statuses
<1>5. Rel!ReleasesClosed'
  <2>1. \A d \in Rel!Released : bundle'[d].content = bundle[d].content
    BY <1>1 DEF Rel!Released
  <2>2. b \notin Rel!Released => bundle[b].status = "DRAFT"
    BY BundleRows
  <2>. QED  BY <1>1, <2>1, <2>2, ReleasesStayClosed
<1>6. Rel!ReleasesAccountedFor'
  <2>1. \A k \in Key : key'[k] = key[k]
    OBVIOUS
  <2>2. bundle'[b].status \notin {"NONE", "DELETED"}
    BY <1>1 DEF Statuses
  <2>. QED  BY <1>1, <1>2, <2>1, <2>2, ReleasesStayAccounted
<1>. QED  BY <1>1, <1>3, <1>4, <1>5, <1>6

LEMMA PublishStatusReleases ==
    ASSUME ReleasesInv, NEW s \in Session, Rel!publishReleaseBundleStatus(s)
    PROVE  ReleasesInv'
<1>. USE DEF ReleasesInv
<1>. DEFINE b == bundleTx[s].bundle
            n == bundleTx[s].snapshot
            r == [status |-> "PUBLISHED", content |-> bundle[b].content, snapshot |-> n,
                  checksum |-> Rel!Canonicalize(bundle[b].content, n)]
<1>1. /\ bundleTx[s].op = "write" /\ bundle' = [bundle EXCEPT ![b] =
            [status |-> "PUBLISHED", content |-> @.content, snapshot |-> n,
             checksum |-> Rel!Canonicalize(@.content, n)]]
      /\ accepted' = [accepted EXCEPT ![b] = Append(@, "PUBLISHED")]
      /\ bundleTx' = [bundleTx EXCEPT ![s] = Rel!Idle] /\ UNCHANGED <<key, edition>>
  BY DEF Rel!publishReleaseBundleStatus, Rel!Ends, Rel!Same
<1>2. b \in Bundle /\ n \in Nat
  BY <1>1, BundleTxOf
<1>3. bundle' = [bundle EXCEPT ![b] = r]
  BY <1>1, <1>2 DEF BundlesShape
<1>4. bundle[b].status = "DRAFT" /\ Rel!Children(bundle[b].content) \subseteq Rel!Released
      /\ bundle[b] \in BundleRow
  BY <1>1, <1>2, BundleRows DEF BundlesKept, BundleKept
<1>5. Rel!Canonicalize(bundle[b].content, n) \in Checksums
  BY <1>2, <1>4 DEF Checksums, BundleRow
<1>6. r \in BundleRow /\ r.status = "PUBLISHED" /\ r.content = bundle[b].content
  BY <1>2, <1>4, <1>5 DEF BundleRow, Statuses
<1>. HIDE DEF r
<1>. QED  BY <1>1, <1>2, <1>3, <1>4, <1>6, HeldAlone, StatusReleases DEF Statuses

LEMMA TransitionReleases ==
    ASSUME ReleasesInv, NEW s \in Session, NEW b \in Bundle, NEW to \in {"BLOCKED", "ARCHIVED"},
           Rel!transitionReleaseBundle(s, b, to)
    PROVE  ReleasesInv'
<1>. USE DEF ReleasesInv
<1>1. /\ bundleTx[s] = Rel!Idle /\ \A o \in Session \ {s} : bundleTx[o].bundle # b
      /\ UNCHANGED <<key, edition, bundleTx>>
  BY DEF Rel!transitionReleaseBundle, Rel!LockedByOther, Rel!Same
<1>2. bundleTx' = [bundleTx EXCEPT ![s] = Rel!Idle]
  BY <1>1 DEF BundlesShape
<1>3. CASE UNCHANGED <<bundle, accepted>>
  BY <1>1, <1>2, <1>3, ReleasesEnd DEF Rel!Ends
<1>4. CASE /\ bundle[b].status \in Rel!AllowedFrom(to) /\ bundle' = [bundle EXCEPT ![b].status = to]
           /\ accepted' = [accepted EXCEPT ![b] = Append(@, to)]
  <2>. DEFINE r == [bundle[b] EXCEPT !.status = to]
  <2>1. bundle[b].status \in Statuses
    BY <1>4 DEF Rel!AllowedFrom, Statuses
  <2>2. bundle[b] \in BundleRow
    BY <2>1, BundleRows DEF Rel!Released, Statuses
  <2>3. bundle' = [bundle EXCEPT ![b] = r]
    BY <1>4 DEF BundlesShape
  <2>4. r \in BundleRow /\ r.status = to /\ r.content = bundle[b].content
    BY <2>2 DEF BundleRow, Statuses
  <2>5. bundle[b].status # "DRAFT"
    BY <2>1 DEF Statuses
  <2>. HIDE DEF r
  <2>. QED  BY <1>1, <1>2, <1>4, <2>2, <2>3, <2>4, <2>5, StatusReleases DEF Statuses
<1>. QED  BY <1>3, <1>4 DEF Rel!transitionReleaseBundle

LEMMA ReleasesInvNext == ASSUME ReleasesInv, [Rel!Next]_(Rel!vars) PROVE ReleasesInv'
<1>1. ASSUME NEW s \in Session, Rel!SessionNext(s)
      PROVE  ReleasesInv'
  <2>1. ASSUME NEW b \in Bundle, Rel!getReleaseBundle(s, b, "publish", Nil)
        PROVE  ReleasesInv'
    BY <2>1, LockReleases
  <2>2. ASSUME NEW b \in Bundle, NEW c \in BundleContents, Rel!updateReleaseBundleHandler(s, b, c)
        PROVE  ReleasesInv'
    BY <2>2, LockReleases DEF Rel!updateReleaseBundleHandler
  <2>3. ASSUME Rel!getReleaseBundleIdempotencyRecord(s) \/ Rel!Rollback(s)
        PROVE  ReleasesInv'
    BY <2>3, ReleasesEnd DEF Rel!getReleaseBundleIdempotencyRecord, Rel!Rollback, Rel!Same
  <2>. QED  BY <1>1, <2>1, <2>2, <2>3, CreateReleases, LockKeyReleases, InsertReleases, DeleteReleases,
              TransitionReleases, UpdateReleases, PublishReleases, ChildReleases, SnapshotReleases,
              PublishStatusReleases DEF Rel!SessionNext
<1>2. ASSUME UNCHANGED <<bundle, key, accepted, bundleTx>>, edition' \in Nat
      PROVE  ReleasesInv'
  BY <1>2 DEF ReleasesInv, BundlesShape, BundleLocksApart, BundlesKept, BundleKept, NewBundlesUnlogged,
     Rel!ReleasesClosed, Rel!ReleasesAccountedFor, Rel!Released, Rel!Exists
<1>3. ASSUME NEW r \in RuleSets, Rel!ChangeRules(r)
      PROVE  ReleasesInv'
  BY <1>2, <1>3 DEF Rel!ChangeRules, ReleasesInv, BundlesShape
<1>4. CASE Rel!ChangeVariables
  BY <1>2, <1>4 DEF Rel!ChangeVariables, ReleasesInv, BundlesShape
<1>5. CASE UNCHANGED Rel!vars
  BY <1>2, <1>5 DEF Rel!vars, ReleasesInv, BundlesShape
<1>. QED  BY <1>1, <1>3, <1>4, <1>5 DEF Rel!Next

-----------------------------------------------------------------------------
(* What a step may not do to a release, or to an idempotency record.        *)
ReleasesKept ==
    /\ \A b \in Rel!Released : /\ bundle'[b].status \in Rel!After(bundle[b].status)
                               /\ bundle'[b] = [bundle[b] EXCEPT !.status = bundle'[b].status]
    /\ \A k \in Key : key[k] # Nil => key'[k] = key[k]

LEMMA RowsKept ==
    ASSUME BundlesShape, NEW b \in Bundle, b \in Rel!Released, bundle'[b] = bundle[b]
    PROVE  /\ bundle'[b].status \in Rel!After(bundle[b].status)
           /\ bundle'[b] = [bundle[b] EXCEPT !.status = bundle'[b].status]
<1>1. bundle[b] \in BundleRow /\ bundle[b].status \in Statuses
  BY BundleRows
<1>2. bundle'[b] = [bundle[b] EXCEPT !.status = bundle'[b].status]
  BY <1>1 DEF BundleRow
<1>3. bundle'[b].status \in Rel!After(bundle[b].status)
  BY <1>1 DEF Rel!After, Statuses
<1>. QED  BY <1>2, <1>3

LEMMA ReleasesKeptStep == ASSUME ReleasesInv, [Rel!Next]_(Rel!vars) PROVE ReleasesKept
<1>. USE DEF ReleasesInv
<1>1. ASSUME NEW d \in Bundle, \A b \in Bundle \ {d} : bundle'[b] = bundle[b], d \notin Rel!Released,
             \A k \in Key : key[k] # Nil => key'[k] = key[k]
      PROVE  ReleasesKept
  <2>1. ASSUME NEW b \in Rel!Released
        PROVE  b \in Bundle /\ bundle'[b] = bundle[b]
    BY <1>1 DEF Rel!Released
  <2>. QED  BY <1>1, <2>1, RowsKept DEF ReleasesKept
<1>2. ASSUME UNCHANGED <<bundle, key>>
      PROVE  ReleasesKept
  <2>1. \A b \in Rel!Released : b \in Bundle
    BY DEF Rel!Released
  <2>. QED  BY <1>2, <2>1, RowsKept DEF ReleasesKept
<1>3. ASSUME NEW s \in Session, NEW b \in Bundle, Rel!insertReleaseBundle(s, b)
      PROVE  ReleasesKept
  <2>1. b \notin Rel!Released /\ \A d \in Bundle \ {b} : bundle'[d] = bundle[d]
    BY <1>3 DEF Rel!insertReleaseBundle, Rel!Released, Rel!None, BundlesShape
  <2>2. \A k \in Key : key[k] # Nil => key'[k] = key[k]
    BY <1>3 DEF Rel!insertReleaseBundle, BundlesShape
  <2>. QED  BY <1>1, <2>1, <2>2
<1>4. ASSUME NEW s \in Session, Rel!UpdateReleaseBundle(s)
      PROVE  ReleasesKept
  <2>1. bundleTx[s].bundle \in Bundle /\ bundle[bundleTx[s].bundle].status = "DRAFT"
    BY <1>4, BundleTxOf DEF Rel!UpdateReleaseBundle, BundlesKept, BundleKept
  <2>2. bundleTx[s].bundle \notin Rel!Released /\ key' = key
    BY <1>4, <2>1 DEF Rel!Released, Rel!UpdateReleaseBundle
  <2>3. \A d \in Bundle \ {bundleTx[s].bundle} : bundle'[d] = bundle[d]
    BY <1>4 DEF BundlesShape, Rel!UpdateReleaseBundle
  <2>. QED  BY <1>1, <2>1, <2>2, <2>3
<1>5. ASSUME NEW s \in Session, Rel!publishReleaseBundleStatus(s)
      PROVE  ReleasesKept
  <2>1. bundleTx[s].bundle \in Bundle /\ bundle[bundleTx[s].bundle].status = "DRAFT"
    BY <1>5, BundleTxOf DEF Rel!publishReleaseBundleStatus, BundlesKept, BundleKept
  <2>2. bundleTx[s].bundle \notin Rel!Released /\ key' = key
    BY <1>5, <2>1 DEF Rel!Released, Rel!publishReleaseBundleStatus
  <2>3. \A d \in Bundle \ {bundleTx[s].bundle} : bundle'[d] = bundle[d]
    BY <1>5 DEF BundlesShape, Rel!publishReleaseBundleStatus
  <2>. QED  BY <1>1, <2>1, <2>2, <2>3
<1>6. ASSUME NEW s \in Session, NEW b \in Bundle, Rel!DeleteReleaseBundleWithID(s, b)
      PROVE  ReleasesKept
  <2>1. b \notin Rel!Released /\ key' = key /\ \A d \in Bundle \ {b} : bundle'[d] = bundle[d]
    BY <1>6 DEF Rel!Released, Rel!DeleteReleaseBundleWithID, BundlesShape
  <2>. QED  BY <1>1, <2>1
<1>7. ASSUME NEW s \in Session, NEW b \in Bundle, NEW to \in {"BLOCKED", "ARCHIVED"},
             Rel!transitionReleaseBundle(s, b, to)
      PROVE  ReleasesKept
  <2>1. CASE UNCHANGED bundle
    BY <1>2, <1>7, <2>1 DEF Rel!transitionReleaseBundle
  <2>2. CASE bundle[b].status \in Rel!AllowedFrom(to) /\ bundle' = [bundle EXCEPT ![b].status = to]
    <3>1. bundle[b].status \in Statuses
      BY <2>2 DEF Rel!AllowedFrom, Statuses
    <3>2. bundle[b] \in BundleRow
      BY <3>1, BundleRows DEF Rel!Released, Statuses
    <3>3. bundle'[b] = [bundle[b] EXCEPT !.status = to] /\ \A d \in Bundle \ {b} : bundle'[d] = bundle[d]
      BY <2>2 DEF BundlesShape
    <3>4. bundle'[b].status = to
      BY <3>2, <3>3 DEF BundleRow
    <3>5. to \in Rel!After(bundle[b].status)
      BY <2>2 DEF Rel!After, Rel!AllowedFrom
    <3>6. ASSUME NEW d \in Rel!Released
          PROVE  /\ bundle'[d].status \in Rel!After(bundle[d].status)
                 /\ bundle'[d] = [bundle[d] EXCEPT !.status = bundle'[d].status]
      <4>1. CASE d = b
        BY <3>3, <3>4, <3>5, <4>1
      <4>2. CASE d # b
        BY <3>3, <4>2, RowsKept DEF Rel!Released
      <4>. QED  BY <4>1, <4>2
    <3>. QED  BY <1>7, <3>6 DEF ReleasesKept, Rel!transitionReleaseBundle
  <2>. QED  BY <1>7, <2>1, <2>2 DEF Rel!transitionReleaseBundle
<1>8. ASSUME NEW s \in Session, Rel!SessionNext(s)
      PROVE  ReleasesKept
  BY <1>2, <1>3, <1>4, <1>5, <1>6, <1>7, <1>8
     DEF Rel!SessionNext, Rel!createReleaseBundleHandler, Rel!lockReleaseBundleIdempotencyKey,
         Rel!getReleaseBundleIdempotencyRecord, Rel!getReleaseBundle, Rel!updateReleaseBundleHandler,
         Rel!PublishReleaseBundle, Rel!validateChildren, Rel!createVariableSnapshotForReleaseBundle,
         Rel!Rollback
<1>. QED  BY <1>2, <1>8 DEF Rel!Next, Rel!ChangeRules, Rel!ChangeVariables, Rel!vars

(* However publications, updates, deletions and retries overlap, what is    *)
(* released contains what is released, without a cycle, and the audit log   *)
(* and the idempotency records account for it.                              *)
THEOREM ReleasesAreClosed ==
  Rel!Spec => [](Rel!ReleasesClosed /\ Rel!ReleasesAccountedFor)
<1>1. ReleasesInv => Rel!ReleasesClosed /\ Rel!ReleasesAccountedFor
  BY DEF ReleasesInv
<1>. QED  BY <1>1, ReleasesInvInit, ReleasesInvNext, PTL DEF Rel!Spec

(* A release keeps its content, its checksum and its snapshot, its status   *)
(* never goes back, and a key is never given to another bundle.             *)
THEOREM ReleasesAreFrozen == Rel!Spec => Rel!ReleasesFrozen
<1>1. ASSUME ReleasesInv, [Rel!Next]_(Rel!vars)
      PROVE  [ReleasesKept]_(Rel!vars)
  BY <1>1, ReleasesKeptStep
<1>. QED  BY <1>1, ReleasesInvInit, ReleasesInvNext, PTL DEF Rel!Spec, Rel!ReleasesFrozen, ReleasesKept

-----------------------------------------------------------------------------
(* Plans: the inductive invariant.                                          *)

PlanSnapshots == {Nil} \cup {c.values : c \in ReleaseContents}
BundleReads == [status : {"DRAFT", "PUBLISHED", "BLOCKED"}, content : ReleaseContents, snapshot : PlanSnapshots]
TargetReads == UNION {[S -> Attributes] : S \in SUBSET Target}
StateReads == UNION {[S -> Nat] : S \in SUBSET Target}
PlanFields == {"status", "payload", "content", "snapshot", "targets", "expected", "steps", "issues", "variables"}
EligibilityIssues ==
    {"release_not_published", "environment_not_in_lifecycle", "required_prior_phase_incomplete", "approval_required"}
OnePlan == {Plans!Idle}
    \cup [op : {"targets"}, plan : Plan, asked : SUBSET Target, bundle : BundleReads]
    \cup [op : {"components", "eligibility"}, plan : Plan, bundle : BundleReads,
          targets : TargetReads, expected : StateReads]
    \cup [op : {"insert"}, plan : Plan, bundle : BundleReads,
          targets : TargetReads, expected : StateReads, issues : SUBSET EligibilityIssues]
    \cup [op : {"states"}, plan : Plan, live : TargetReads]
    \cup [op : {"release", "tasks"}, plan : Plan, live : TargetReads, states : StateReads]

PlansShape ==
    /\ release \in BundleReads
    /\ target \in [Target -> Attributes] /\ state \in [Target -> Nat]
    /\ DOMAIN plan = Plan
    /\ \A p \in Plan : plan[p] # Nil => DOMAIN plan[p] = PlanFields /\ plan[p].targets \in TargetReads
    /\ planTx \in [Planner -> OnePlan]

PlansApart ==
    \A s, o \in Planner : s # o /\ planTx[s] # Plans!Idle /\ planTx[o] # Plans!Idle =>
        planTx[s].plan # planTx[o].plan

(* A bundle that was read with a snapshot was released, and stays as it is. *)
ReadOfRelease(b) ==
    b.snapshot # Nil => release.status # "DRAFT" /\ b.content = release.content /\ b.snapshot = release.snapshot

(* What an execution has read is what is there, up to its locks.            *)
LiveIsTarget(t) ==
    LET x == plan[t.plan] IN
    /\ x # Nil /\ x.status = "READY"
    /\ DOMAIN t.live = DOMAIN x.targets /\ \A u \in DOMAIN t.live : t.live[u] = target[u]
StatesAreState(t) == DOMAIN t.states = DOMAIN t.live /\ \A u \in DOMAIN t.live : t.states[u] = state[u]
CheckedGround(t) ==
    LET x == plan[t.plan] IN
    /\ release.status = "PUBLISHED"
    /\ \A u \in DOMAIN x.targets : Plans!targetCheck(x, u, t.live[u])
    /\ x.content.contract # Nil =>
          \A u \in DOMAIN x.targets : Plans!componentCheck(x, u, t.live[u], t.states[u])

PlanTxKept(t) ==
    /\ t.op \in {"targets", "components", "eligibility", "insert"} => ReadOfRelease(t.bundle)
    /\ t.op \in {"states", "release", "tasks"} => LiveIsTarget(t)
    /\ t.op \in {"release", "tasks"} => StatesAreState(t)
    /\ t.op = "tasks" => CheckedGround(t)
PlanTxsKept == \A s \in Planner : PlanTxKept(planTx[s])

DraftsUnsnapped == release.status = "DRAFT" => release.snapshot = Nil

PlansInv ==
    /\ PlansShape /\ PlansApart /\ PlanTxsKept /\ DraftsUnsnapped
    /\ Plans!ReadyPlansAreOfTheRelease

-----------------------------------------------------------------------------
LEMMA PlansInvInit == Plans!Init => PlansInv
<1>. SUFFICES ASSUME Plans!Init PROVE PlansInv
  OBVIOUS
<1>. USE DEF Plans!Init
<1>1. PlansShape
  BY DEF PlansShape, BundleReads, PlanSnapshots, OnePlan
<1>2. PlansApart /\ PlanTxsKept /\ DraftsUnsnapped /\ Plans!ReadyPlansAreOfTheRelease
  BY DEF PlansApart, PlanTxsKept, PlanTxKept, DraftsUnsnapped, Plans!ReadyPlansAreOfTheRelease, Plans!Idle
<1>. QED  BY <1>1, <1>2 DEF PlansInv

LEMMA PlanTxOf ==
    ASSUME PlansShape, NEW s \in Planner
    PROVE  LET t == planTx[s] IN
           /\ t.op = "targets" => t.plan \in Plan /\ t.asked \in SUBSET Target /\ t.bundle \in BundleReads
           /\ t.op \in {"components", "eligibility"} =>
                t \in [op : {"components", "eligibility"}, plan : Plan, bundle : BundleReads,
                       targets : TargetReads, expected : StateReads]
           /\ t.op = "insert" => t.plan \in Plan /\ t.bundle \in BundleReads /\ t.targets \in TargetReads
           /\ t.op = "states" => t.plan \in Plan /\ t.live \in TargetReads
           /\ t.op \in {"release", "tasks"} =>
                t \in [op : {"release", "tasks"}, plan : Plan, live : TargetReads, states : StateReads]
           /\ t # Plans!Idle => t.plan \in Plan
           /\ t.op # "idle" => t # Plans!Idle
  BY DEF PlansShape, OnePlan, Plans!Idle

(* Steps that change nothing but what a transaction knows.                  *)
LEMMA PlanTxStep ==
    ASSUME PlansInv, NEW s \in Planner, NEW t \in OnePlan,
           UNCHANGED <<release, target, state, plan>>,
           planTx' = [planTx EXCEPT ![s] = t], PlanTxKept(t),
           t # Plans!Idle => \A o \in Planner \ {s} : planTx[o] # Plans!Idle => planTx[o].plan # t.plan
    PROVE  PlansInv'
<1>. USE DEF PlansInv
<1>1. planTx'[s] = t /\ \A o \in Planner \ {s} : planTx'[o] = planTx[o]
  BY DEF PlansShape
<1>2. PlansShape'
  BY DEF PlansShape
<1>3. PlansApart'
  BY <1>1 DEF PlansApart
<1>4. \A u : PlanTxKept(u) => PlanTxKept(u)'
  BY DEF PlanTxKept, ReadOfRelease, LiveIsTarget, StatesAreState, CheckedGround,
         Plans!targetCheck, Plans!componentCheck
<1>5. PlanTxsKept'
  BY <1>1, <1>4 DEF PlanTxsKept
<1>. QED  BY <1>2, <1>3, <1>5 DEF DraftsUnsnapped, Plans!ReadyPlansAreOfTheRelease

LEMMA PlanEnds ==
    ASSUME PlansInv, NEW s \in Planner, UNCHANGED <<release, target, state, plan>>, Plans!Ends(s)
    PROVE  PlansInv'
<1>1. Plans!Idle \in OnePlan /\ PlanTxKept(Plans!Idle)
  BY DEF OnePlan, PlanTxKept, Plans!Idle
<1>. QED  BY <1>1, PlanTxStep DEF Plans!Ends

(* A transaction goes on with the same plan.                                *)
LEMMA SamePlan ==
    ASSUME PlansInv, NEW s \in Planner, planTx[s] # Plans!Idle
    PROVE  \A o \in Planner \ {s} : planTx[o] # Plans!Idle => planTx[o].plan # planTx[s].plan
  BY DEF PlansInv, PlansApart

LEMMA ResolvePlan ==
    ASSUME PlansInv, NEW s \in Planner, NEW p \in Plan, NEW ts \in SUBSET Target,
           Plans!resolveDeploymentPlan(s, p, ts)
    PROVE  PlansInv'
<1>. USE DEF PlansInv
<1>. DEFINE t == [op |-> "targets", plan |-> p, asked |-> ts, bundle |-> release]
<1>1. /\ planTx' = [planTx EXCEPT ![s] = t] /\ UNCHANGED <<release, target, state, plan>>
      /\ \A o \in Planner : planTx[o] # Plans!Idle => planTx[o].plan # p
  BY DEF Plans!resolveDeploymentPlan, Plans!Goes, Plans!World
<1>2. t \in OnePlan /\ t.plan = p
  BY DEF OnePlan, PlansShape
<1>3. PlanTxKept(t)
  BY DEF PlanTxKept, ReadOfRelease, DraftsUnsnapped
<1>. HIDE DEF t
<1>. QED  BY <1>1, <1>2, <1>3, PlanTxStep

LEMMA ResolveTargets ==
    ASSUME PlansInv, NEW s \in Planner, Plans!resolveDeploymentPlanTargets(s)
    PROVE  PlansInv'
<1>. USE DEF PlansInv
<1>. DEFINE t == [op |-> "components", plan |-> planTx[s].plan, bundle |-> planTx[s].bundle,
                  targets |-> [u \in planTx[s].asked |-> target[u]], expected |-> [u \in {} |-> 0]]
<1>1. /\ planTx' = [planTx EXCEPT ![s] = t] /\ UNCHANGED <<release, target, state, plan>>
      /\ planTx[s].op = "targets" /\ planTx[s] # Plans!Idle
  BY DEF Plans!resolveDeploymentPlanTargets, Plans!Goes, Plans!World, Plans!Idle
<1>2. /\ planTx[s].plan \in Plan /\ planTx[s].asked \in SUBSET Target /\ planTx[s].bundle \in BundleReads
  BY <1>1, PlanTxOf
<1>3. [u \in planTx[s].asked |-> target[u]] \in TargetReads /\ [u \in {} |-> 0] \in StateReads
  <2>1. [u \in planTx[s].asked |-> target[u]] \in [planTx[s].asked -> Attributes]
    BY <1>2 DEF PlansShape
  <2>2. [u \in {} |-> 0] \in [{} -> Nat]
    OBVIOUS
  <2>. QED  BY <1>2, <2>1, <2>2 DEF TargetReads, StateReads
<1>4. t \in OnePlan /\ t.plan = planTx[s].plan /\ t.op = "components" /\ t.bundle = planTx[s].bundle
  BY <1>2, <1>3 DEF OnePlan
<1>. HIDE DEF t
<1>5. PlanTxKept(t)
  BY <1>1, <1>4 DEF PlanTxKept, PlanTxsKept
<1>. QED  BY <1>1, <1>4, <1>5, SamePlan, PlanTxStep

LEMMA ResolveComponents ==
    ASSUME PlansInv, NEW s \in Planner, Plans!resolveDeploymentPlanTargetComponents(s)
    PROVE  PlansInv'
<1>. USE DEF PlansInv
<1>. DEFINE e(u) == [v \in DOMAIN planTx[s].expected \cup {u} |-> IF v = u THEN state[u] ELSE planTx[s].expected[v]]
<1>1. /\ planTx[s].op = "components" /\ planTx[s] # Plans!Idle /\ UNCHANGED <<release, target, state, plan>>
  BY DEF Plans!resolveDeploymentPlanTargetComponents, Plans!Goes, Plans!World, Plans!Idle
<1>2. planTx[s] \in [op : {"components", "eligibility"}, plan : Plan, bundle : BundleReads,
                     targets : TargetReads, expected : StateReads]
  BY <1>1, PlanTxOf
<1>3. PICK t : /\ planTx' = [planTx EXCEPT ![s] = t]
               /\ \/ t = [planTx[s] EXCEPT !.op = "eligibility"]
                  \/ \E u \in DOMAIN planTx[s].targets : t = [planTx[s] EXCEPT !.expected = e(u)]
  BY DEF Plans!resolveDeploymentPlanTargetComponents, Plans!Goes
<1>4. ASSUME NEW u \in DOMAIN planTx[s].targets
      PROVE  e(u) \in StateReads
  <2>1. u \in Target /\ DOMAIN planTx[s].expected \cup {u} \in SUBSET Target
    BY <1>2 DEF TargetReads, StateReads
  <2>2. e(u) \in [DOMAIN planTx[s].expected \cup {u} -> Nat]
    BY <1>2, <2>1 DEF StateReads, PlansShape
  <2>. QED  BY <2>1, <2>2 DEF StateReads
<1>. HIDE DEF e
<1>5. /\ t \in [op : {"components", "eligibility"}, plan : Plan, bundle : BundleReads,
                targets : TargetReads, expected : StateReads]
      /\ t.plan = planTx[s].plan /\ t.bundle = planTx[s].bundle
  BY <1>2, <1>3, <1>4
<1>6. t \in OnePlan
  BY <1>5 DEF OnePlan
<1>7. PlanTxKept(t)
  BY <1>1, <1>5 DEF PlanTxKept, PlanTxsKept
<1>. QED  BY <1>1, <1>3, <1>5, <1>6, <1>7, SamePlan, PlanTxStep

LEMMA EligibilityStep ==
    ASSUME PlansInv, NEW s \in Planner, Plans!addDeploymentPlanEligibilityBlockers(s)
    PROVE  PlansInv'
<1>. USE DEF PlansInv
<1>. DEFINE t == [op |-> "insert", plan |-> planTx[s].plan, bundle |-> planTx[s].bundle,
                  targets |-> planTx[s].targets, expected |-> planTx[s].expected, issues |-> Plans!Explain]
<1>1. /\ planTx' = [planTx EXCEPT ![s] = t] /\ UNCHANGED <<release, target, state, plan>>
      /\ planTx[s].op = "eligibility" /\ planTx[s] # Plans!Idle
  BY DEF Plans!addDeploymentPlanEligibilityBlockers, Plans!Goes, Plans!World, Plans!Idle
<1>2. planTx[s] \in [op : {"components", "eligibility"}, plan : Plan, bundle : BundleReads,
                     targets : TargetReads, expected : StateReads]
  BY <1>1, PlanTxOf
<1>3. Plans!Explain \in SUBSET EligibilityIssues
  BY DEF Plans!Explain, EligibilityIssues
<1>4. t \in OnePlan /\ t.plan = planTx[s].plan /\ t.op = "insert" /\ t.bundle = planTx[s].bundle
  BY <1>2, <1>3 DEF OnePlan
<1>. HIDE DEF t
<1>5. PlanTxKept(t)
  BY <1>1, <1>4 DEF PlanTxKept, PlanTxsKept
<1>. QED  BY <1>1, <1>4, <1>5, SamePlan, PlanTxStep

-----------------------------------------------------------------------------
(* A plan is ready only if no issue was found: the bundle that was read had *)
(* a snapshot, so that it was released, and it has not changed since.       *)
LEMMA InsertedPlan ==
    ASSUME NEW s \in Planner, Plans!insertDeploymentPlan(s)
    PROVE  LET p == planTx[s].plan
               b == planTx[s].bundle
           IN \E x : /\ plan' = [plan EXCEPT ![p] = x] /\ DOMAIN x = PlanFields
                     /\ x.targets = planTx[s].targets /\ x.content = b.content /\ x.snapshot = b.snapshot
                     /\ x.status = "BLOCKED" \/ (x.status = "READY" /\ b.snapshot # Nil)
<1>. DEFINE p == planTx[s].plan
            b == planTx[s].bundle
<1>. DEFINE issues == planTx[s].issues \cup Plans!addDeploymentPlanSnapshotData(b.content, b.snapshot, DOMAIN planTx[s].targets)
                \cup Plans!addDeploymentPlanReleaseContractIssues(b.content)
                \cup Plans!addDeploymentPlanTargetPlatformIssues(b.content, planTx[s].targets)
                \cup Plans!addDeploymentPlanAgentCapabilityIssues(b.content, DOMAIN planTx[s].targets)
            new == [status |-> IF Plans!deploymentPlanHasBlockers(issues) THEN "BLOCKED" ELSE "READY",
              payload |-> Nil, content |-> b.content, snapshot |-> b.snapshot,
              targets |-> planTx[s].targets, expected |-> planTx[s].expected,
              steps |-> Plans!insertDeploymentPlanSteps(b.content), issues |-> issues,
              variables |-> Plans!insertDeploymentPlanVariables(b.content, b.snapshot, DOMAIN planTx[s].targets)]
            x == [new EXCEPT !.payload = Plans!canonicalizeDeploymentPlan(new)]
<1>1. plan' = [plan EXCEPT ![p] = x]
  BY DEF Plans!insertDeploymentPlan
<1>2. b.snapshot = Nil => Plans!deploymentPlanHasBlockers(issues)
  BY DEF Plans!deploymentPlanHasBlockers, Plans!addDeploymentPlanSnapshotData
<1>. HIDE DEF issues
<1>3. /\ DOMAIN x = PlanFields /\ x.targets = planTx[s].targets /\ x.content = b.content
      /\ x.snapshot = b.snapshot
      /\ x.status = "BLOCKED" \/ (x.status = "READY" /\ b.snapshot # Nil)
  BY <1>2 DEF PlanFields
<1>. HIDE DEF x
<1>. QED  BY <1>1, <1>3

LEMMA InsertPlan ==
    ASSUME PlansInv, NEW s \in Planner, Plans!insertDeploymentPlan(s)
    PROVE  PlansInv'
<1>. USE DEF PlansInv
<1>. DEFINE p == planTx[s].plan
            b == planTx[s].bundle
<1>1. /\ planTx[s].op = "insert" /\ planTx[s] # Plans!Idle
      /\ planTx' = [planTx EXCEPT ![s] = Plans!Idle] /\ UNCHANGED <<release, target, state>>
  BY DEF Plans!insertDeploymentPlan, Plans!Ends, Plans!World, Plans!Idle
<1>2. p \in Plan /\ b \in BundleReads /\ planTx[s].targets \in TargetReads
  BY <1>1, PlanTxOf
<1>3. PICK x : /\ plan' = [plan EXCEPT ![p] = x] /\ DOMAIN x = PlanFields
               /\ x.targets = planTx[s].targets /\ x.content = b.content /\ x.snapshot = b.snapshot
               /\ x.status = "BLOCKED" \/ (x.status = "READY" /\ b.snapshot # Nil)
  BY InsertedPlan
<1>4. /\ planTx'[s] = Plans!Idle /\ \A o \in Planner \ {s} : planTx'[o] = planTx[o]
      /\ plan'[p] = x /\ \A q \in Plan \ {p} : plan'[q] = plan[q]
  BY <1>1, <1>2, <1>3 DEF PlansShape
<1>5. PlansShape'
  BY <1>1, <1>2, <1>3, <1>4 DEF PlansShape, OnePlan
<1>6. PlansApart'
  BY <1>4 DEF PlansApart
<1>7. ASSUME NEW o \in Planner \ {s}
      PROVE  PlanTxKept(planTx[o])'
  <2>. DEFINE t == planTx[o]
  <2>1. t.op \in {"states", "release", "tasks"} => t.plan \in Plan \ {p}
    BY <1>1, PlanTxOf, SamePlan
  <2>2. PlanTxKept(t) /\ t' = t
    BY <1>4 DEF PlanTxsKept
  <2>. HIDE DEF t
  <2>3. t.op \in {"states", "release", "tasks"} => plan'[t.plan] = plan[t.plan]
    BY <1>4, <2>1
  <2>4. PlanTxKept(t)'
    BY <1>1, <2>2, <2>3 DEF PlanTxKept, ReadOfRelease, LiveIsTarget, StatesAreState, CheckedGround,
       Plans!targetCheck, Plans!componentCheck
  <2>. QED  BY <2>4 DEF t
<1>8. PlanTxsKept'
  <2>1. PlanTxKept(planTx[s])'
    BY <1>4 DEF PlanTxKept, Plans!Idle
  <2>. QED  BY <1>7, <2>1 DEF PlanTxsKept
<1>9. Plans!ReadyPlansAreOfTheRelease'
  <2>1. x.status = "READY" => release.status # "DRAFT" /\ x.content = release.content /\ x.snapshot = release.snapshot
    BY <1>1, <1>3 DEF PlanTxsKept, PlanTxKept, ReadOfRelease
  <2>2. ASSUME NEW q \in Plan, plan'[q] # Nil, plan'[q].status \in {"READY", "EXECUTED"}
        PROVE  /\ release.status # "DRAFT"
               /\ plan'[q].content = release.content /\ plan'[q].snapshot = release.snapshot
    BY <1>3, <1>4, <2>1, <2>2 DEF Plans!ReadyPlansAreOfTheRelease
  <2>. QED  BY <1>1, <2>2 DEF Plans!ReadyPlansAreOfTheRelease
<1>. QED  BY <1>1, <1>5, <1>6, <1>8, <1>9 DEF DraftsUnsnapped

LEMMA ExecutePlan ==
    ASSUME PlansInv, NEW s \in Planner, NEW p \in Plan, Plans!ExecuteDeploymentPlan(s, p)
    PROVE  PlansInv'
<1>. USE DEF PlansInv
<1>. DEFINE live == [u \in DOMAIN plan[p].targets |-> target[u]]
            t == [op |-> "states", plan |-> p, live |-> live]
<1>1. /\ planTx' = [planTx EXCEPT ![s] = t] /\ UNCHANGED <<release, target, state, plan>>
      /\ plan[p] # Nil /\ plan[p].status = "READY"
      /\ \A o \in Planner : planTx[o] # Plans!Idle => planTx[o].plan # p
  BY DEF Plans!ExecuteDeploymentPlan, Plans!Goes, Plans!World
<1>2. plan[p].targets \in TargetReads
  BY <1>1 DEF PlansShape
<1>3. DOMAIN plan[p].targets \in SUBSET Target
  BY <1>2 DEF TargetReads
<1>4. live \in [DOMAIN plan[p].targets -> Attributes]
  BY <1>3 DEF PlansShape
<1>5. live \in TargetReads
  BY <1>3, <1>4 DEF TargetReads
<1>6. t \in OnePlan /\ t.plan = p
  BY <1>5 DEF OnePlan
<1>7. LiveIsTarget(t)
  BY <1>1 DEF LiveIsTarget
<1>8. PlanTxKept(t)
  BY <1>7 DEF PlanTxKept
<1>. HIDE DEF t
<1>. QED  BY <1>1, <1>6, <1>8, PlanTxStep

LEMMA PreflightStates ==
    ASSUME PlansInv, NEW s \in Planner, Plans!getDeploymentPreflightStates(s)
    PROVE  PlansInv'
<1>. USE DEF PlansInv
<1>. DEFINE states == [u \in DOMAIN planTx[s].live |-> state[u]]
            t == [op |-> "release", plan |-> planTx[s].plan, live |-> planTx[s].live, states |-> states]
<1>1. /\ planTx' = [planTx EXCEPT ![s] = t] /\ UNCHANGED <<release, target, state, plan>>
      /\ planTx[s].op = "states" /\ planTx[s] # Plans!Idle
  BY DEF Plans!getDeploymentPreflightStates, Plans!Goes, Plans!World, Plans!Idle
<1>2. planTx[s].plan \in Plan /\ planTx[s].live \in TargetReads
  BY <1>1, PlanTxOf
<1>3. DOMAIN planTx[s].live \in SUBSET Target
  BY <1>2 DEF TargetReads
<1>4. states \in [DOMAIN planTx[s].live -> Nat]
  BY <1>3 DEF PlansShape
<1>5. states \in StateReads
  BY <1>3, <1>4 DEF StateReads
<1>6. t \in OnePlan /\ t.plan = planTx[s].plan
  BY <1>2, <1>5 DEF OnePlan
<1>7. LiveIsTarget(t)
  BY <1>1 DEF LiveIsTarget, PlanTxsKept, PlanTxKept
<1>8. StatesAreState(t)
  BY DEF StatesAreState
<1>9. PlanTxKept(t)
  BY <1>7, <1>8 DEF PlanTxKept
<1>. HIDE DEF t
<1>. QED  BY <1>1, <1>6, <1>9, SamePlan, PlanTxStep

LEMMA PreflightRelease ==
    ASSUME PlansInv, NEW s \in Planner, Plans!getDeploymentPreflightReleaseFacts(s)
    PROVE  PlansInv'
<1>. USE DEF PlansInv
<1>. DEFINE t == [planTx[s] EXCEPT !.op = "tasks"]
            x == plan[planTx[s].plan]
<1>1. planTx[s].op = "release" /\ planTx[s] # Plans!Idle /\ UNCHANGED <<release, target, state, plan>>
  BY DEF Plans!getDeploymentPreflightReleaseFacts, Plans!World, Plans!Idle
<1>2. planTx[s] \in [op : {"release", "tasks"}, plan : Plan, live : TargetReads, states : StateReads]
  BY <1>1, PlanTxOf
<1>3. CASE Plans!Ends(s)
  BY <1>1, <1>3, PlanEnds
<1>4. CASE /\ planTx' = [planTx EXCEPT ![s] = t]
           /\ Plans!Evaluate(x, Plans!Explain = {}, x.content.contract = release.content.contract,
                             planTx[s].live, planTx[s].states)
  <2>1. /\ t \in [op : {"release", "tasks"}, plan : Plan, live : TargetReads, states : StateReads]
        /\ t.plan = planTx[s].plan /\ t.live = planTx[s].live /\ t.states = planTx[s].states /\ t.op = "tasks"
    BY <1>2
  <2>. HIDE DEF t
  <2>2. t \in OnePlan
    BY <2>1 DEF OnePlan
  <2>3. LiveIsTarget(t) /\ StatesAreState(t)
    BY <1>1, <2>1 DEF PlanTxsKept, PlanTxKept, LiveIsTarget, StatesAreState
  <2>4. release.status = "PUBLISHED"
    BY <1>4 DEF Plans!Evaluate, Plans!Explain
  <2>5. CheckedGround(t)
    BY <1>4, <2>1, <2>4 DEF CheckedGround, Plans!Evaluate
  <2>6. PlanTxKept(t)
    BY <2>1, <2>3, <2>5 DEF PlanTxKept
  <2>. QED  BY <1>1, <1>4, <2>1, <2>2, <2>6, SamePlan, PlanTxStep
<1>. QED  BY <1>3, <1>4 DEF Plans!getDeploymentPreflightReleaseFacts, Plans!Goes, Plans!getDeploymentPlan

(* The tasks are attached, and only the plan's status changes.              *)
LEMMA AttachTasks ==
    ASSUME PlansInv, NEW s \in Planner, Plans!attachDeploymentPreflightTasks(s)
    PROVE  PlansInv'
<1>. USE DEF PlansInv
<1>. DEFINE p == planTx[s].plan
            x == [plan[p] EXCEPT !.status = "EXECUTED"]
<1>1. /\ planTx[s].op = "tasks" /\ planTx[s] # Plans!Idle
      /\ planTx' = [planTx EXCEPT ![s] = Plans!Idle] /\ UNCHANGED <<release, target, state>>
      /\ plan' = [plan EXCEPT ![p].status = "EXECUTED"]
  BY DEF Plans!attachDeploymentPreflightTasks, Plans!Ends, Plans!World, Plans!Idle
<1>2. p \in Plan /\ plan[p] # Nil /\ plan[p].status = "READY" /\ DOMAIN plan[p] = PlanFields
  BY <1>1, PlanTxOf DEF PlanTxsKept, PlanTxKept, LiveIsTarget, PlansShape
<1>3. plan' = [plan EXCEPT ![p] = x]
  BY <1>1, <1>2 DEF PlansShape
<1>4. /\ DOMAIN x = PlanFields /\ x.targets = plan[p].targets /\ x.content = plan[p].content
      /\ x.snapshot = plan[p].snapshot /\ x.status = "EXECUTED"
  BY <1>2 DEF PlanFields
<1>. HIDE DEF x
<1>5. /\ planTx'[s] = Plans!Idle /\ \A o \in Planner \ {s} : planTx'[o] = planTx[o]
      /\ plan'[p] = x /\ \A q \in Plan \ {p} : plan'[q] = plan[q]
  BY <1>1, <1>2, <1>3 DEF PlansShape
<1>6. PlansShape'
  BY <1>1, <1>2, <1>3, <1>4, <1>5 DEF PlansShape, OnePlan
<1>7. PlansApart'
  BY <1>5 DEF PlansApart
<1>8. ASSUME NEW o \in Planner \ {s}
      PROVE  PlanTxKept(planTx[o])'
  <2>. DEFINE t == planTx[o]
  <2>0. UNCHANGED <<release, target, state>>
    BY <1>1
  <2>1. t.op \in {"states", "release", "tasks"} => t.plan \in Plan \ {p}
    BY <1>1, PlanTxOf, SamePlan
  <2>2. PlanTxKept(t) /\ t' = t
    BY <1>5 DEF PlanTxsKept
  <2>. HIDE DEF t
  <2>3. t.op \in {"states", "release", "tasks"} => plan'[t.plan] = plan[t.plan]
    BY <1>5, <2>1
  <2>4. PlanTxKept(t)'
    BY <2>0, <2>2, <2>3 DEF PlanTxKept, ReadOfRelease, LiveIsTarget, StatesAreState, CheckedGround,
       Plans!targetCheck, Plans!componentCheck
  <2>. QED  BY <2>4 DEF t
<1>9. PlanTxsKept'
  <2>1. PlanTxKept(planTx[s])'
    BY <1>5 DEF PlanTxKept, Plans!Idle
  <2>. QED  BY <1>8, <2>1 DEF PlanTxsKept
<1>10. Plans!ReadyPlansAreOfTheRelease'
  <2>1. release.status # "DRAFT" /\ x.content = release.content /\ x.snapshot = release.snapshot
    BY <1>2, <1>4 DEF Plans!ReadyPlansAreOfTheRelease
  <2>2. ASSUME NEW q \in Plan, plan'[q] # Nil, plan'[q].status \in {"READY", "EXECUTED"}
        PROVE  /\ release.status # "DRAFT"
               /\ plan'[q].content = release.content /\ plan'[q].snapshot = release.snapshot
    BY <1>5, <2>1, <2>2 DEF Plans!ReadyPlansAreOfTheRelease
  <2>. QED  BY <1>1, <2>2 DEF Plans!ReadyPlansAreOfTheRelease
<1>. QED  BY <1>1, <1>6, <1>7, <1>9, <1>10 DEF DraftsUnsnapped

-----------------------------------------------------------------------------
(* What others do: a draft is updated or published, a release blocked, and  *)
(* targets and states change where no execution has locked them.            *)
LEMMA ReleaseChanges ==
    ASSUME PlansInv, \A s \in Planner : planTx[s].op # "tasks",
           UNCHANGED <<target, state, plan, planTx>>, release' \in BundleReads,
           release.status = "DRAFT" \/ (release'.status # "DRAFT" /\ release'.content = release.content
                                        /\ release'.snapshot = release.snapshot),
           release'.status = "DRAFT" => release'.snapshot = Nil
    PROVE  PlansInv'
<1>. USE DEF PlansInv
<1>1. \A b : ReadOfRelease(b) => ReadOfRelease(b)'
  BY DEF ReadOfRelease
<1>2. ASSUME NEW s \in Planner
      PROVE  PlanTxKept(planTx[s])'
  <2>1. PlanTxKept(planTx[s]) /\ planTx[s].op # "tasks"
    BY DEF PlanTxsKept
  <2>. QED  BY <1>1, <2>1 DEF PlanTxKept, LiveIsTarget, StatesAreState
<1>3. Plans!ReadyPlansAreOfTheRelease'
  BY DEF Plans!ReadyPlansAreOfTheRelease
<1>. QED  BY <1>2, <1>3 DEF PlansShape, PlansApart, PlanTxsKept, DraftsUnsnapped

LEMMA TargetChanges ==
    ASSUME PlansInv, NEW u \in Target, NEW a \in Attributes, Plans!UpdateDeploymentTarget(u, a)
    PROVE  PlansInv'
<1>. USE DEF PlansInv
<1>1. /\ target' = [target EXCEPT ![u] = a] /\ UNCHANGED <<release, state, plan, planTx>>
      /\ \A s \in Planner : planTx[s].op \in {"states", "release", "tasks"} => u \notin DOMAIN plan[planTx[s].plan].targets
  BY DEF Plans!UpdateDeploymentTarget, Plans!LocksTargets, Plans!getDeploymentPlanTargets, Plans!getDeploymentPlan
<1>2. target' \in [Target -> Attributes] /\ \A v \in Target \ {u} : target'[v] = target[v]
  BY <1>1 DEF PlansShape
<1>3. ASSUME NEW s \in Planner
      PROVE  PlanTxKept(planTx[s])'
  <2>1. PlanTxKept(planTx[s])
    BY DEF PlanTxsKept
  <2>2. planTx[s].op \in {"states", "release", "tasks"} => DOMAIN planTx[s].live \subseteq Target
    BY PlanTxOf DEF TargetReads
  <2>3. planTx[s].op \in {"states", "release", "tasks"} => LiveIsTarget(planTx[s])'
    BY <1>1, <1>2, <2>1, <2>2 DEF PlanTxKept, LiveIsTarget
  <2>. QED  BY <1>1, <2>1, <2>3 DEF PlanTxKept, ReadOfRelease, StatesAreState, CheckedGround,
              Plans!targetCheck, Plans!componentCheck
<1>. QED  BY <1>1, <1>2, <1>3 DEF PlansShape, PlansApart, PlanTxsKept, DraftsUnsnapped,
             Plans!ReadyPlansAreOfTheRelease

LEMMA StateChanges ==
    ASSUME PlansInv, NEW u \in Target, Plans!upsertTargetComponentState(u)
    PROVE  PlansInv'
<1>. USE DEF PlansInv
<1>1. /\ state' = [state EXCEPT ![u] = @ + 1] /\ UNCHANGED <<release, target, plan, planTx>>
      /\ \A s \in Planner : u \notin IF state[u] = 0 THEN Plans!LocksTargets(s) ELSE Plans!LocksStates(s)
  BY DEF Plans!upsertTargetComponentState
<1>2. state' \in [Target -> Nat] /\ \A v \in Target \ {u} : state'[v] = state[v]
  BY <1>1 DEF PlansShape
<1>3. ASSUME NEW s \in Planner
      PROVE  PlanTxKept(planTx[s])'
  <2>1. PlanTxKept(planTx[s])
    BY DEF PlanTxsKept
  <2>2. planTx[s].op \in {"release", "tasks"} => DOMAIN planTx[s].live \subseteq Target
    BY PlanTxOf DEF TargetReads
  <2>3. planTx[s].op \in {"release", "tasks"} => u \notin DOMAIN planTx[s].live
    <3>. SUFFICES ASSUME planTx[s].op \in {"release", "tasks"}, u \in DOMAIN planTx[s].live
                  PROVE  FALSE
      OBVIOUS
    <3>1. u \in Plans!getDeploymentPlanTargets(s) /\ planTx[s].states[u] = state[u]
      BY <2>1 DEF PlanTxKept, LiveIsTarget, StatesAreState, Plans!getDeploymentPlanTargets, Plans!getDeploymentPlan
    <3>. QED  BY <1>1, <3>1 DEF Plans!LocksTargets, Plans!LocksStates
  <2>4. planTx[s].op \in {"release", "tasks"} => StatesAreState(planTx[s])'
    BY <1>1, <1>2, <2>1, <2>2, <2>3 DEF PlanTxKept, StatesAreState
  <2>. QED  BY <1>1, <2>1, <2>4 DEF PlanTxKept, ReadOfRelease, LiveIsTarget, CheckedGround,
              Plans!targetCheck, Plans!componentCheck
<1>. QED  BY <1>1, <1>2, <1>3 DEF PlansShape, PlansApart, PlanTxsKept, DraftsUnsnapped,
             Plans!ReadyPlansAreOfTheRelease

LEMMA PlansInvNext == ASSUME PlansInv, [Plans!Next]_(Plans!vars) PROVE PlansInv'
<1>. USE DEF PlansInv
<1>1. ASSUME NEW s \in Planner, Plans!Rollback(s)
      PROVE  PlansInv'
  BY <1>1, PlanEnds DEF Plans!Rollback, Plans!World
<1>2. ASSUME \/ \E c \in ReleaseContents : Plans!UpdateReleaseBundle(c)
             \/ Plans!PublishReleaseBundle \/ Plans!BlockReleaseBundle
      PROVE  PlansInv'
  <2>1. \A s \in Planner : planTx[s].op # "tasks"
    BY <1>2 DEF Plans!UpdateReleaseBundle, Plans!PublishReleaseBundle, Plans!BlockReleaseBundle,
       Plans!BundleFree, Plans!LocksBundle
  <2>2. UNCHANGED <<target, state, plan, planTx>>
    BY <1>2 DEF Plans!UpdateReleaseBundle, Plans!PublishReleaseBundle, Plans!BlockReleaseBundle
  <2>3. ASSUME NEW c \in ReleaseContents, Plans!UpdateReleaseBundle(c)
        PROVE  PlansInv'
    <3>1. release.status = "DRAFT" /\ release' = [release EXCEPT !.content = c]
      BY <2>3 DEF Plans!UpdateReleaseBundle
    <3>2. release' \in BundleReads /\ release'.status = "DRAFT" /\ release'.snapshot = Nil
      BY <3>1 DEF PlansShape, BundleReads, DraftsUnsnapped
    <3>. QED  BY <2>1, <2>2, <3>1, <3>2, ReleaseChanges
  <2>4. CASE Plans!PublishReleaseBundle
    <3>1. /\ release.status = "DRAFT"
          /\ release' = [release EXCEPT !.status = "PUBLISHED", !.snapshot = release.content.values]
      BY <2>4 DEF Plans!PublishReleaseBundle
    <3>2. release.content.values \in PlanSnapshots
      BY DEF PlansShape, BundleReads, PlanSnapshots
    <3>3. release' \in BundleReads /\ release'.status # "DRAFT"
      BY <3>1, <3>2 DEF PlansShape, BundleReads
    <3>. QED  BY <2>1, <2>2, <3>1, <3>3, ReleaseChanges
  <2>5. CASE Plans!BlockReleaseBundle
    <3>1. release.status = "PUBLISHED" /\ release' = [release EXCEPT !.status = "BLOCKED"]
      BY <2>5 DEF Plans!BlockReleaseBundle
    <3>2. /\ release' \in BundleReads /\ release'.status = "BLOCKED"
          /\ release'.content = release.content /\ release'.snapshot = release.snapshot
      BY <3>1 DEF PlansShape, BundleReads
    <3>. QED  BY <2>1, <2>2, <3>2, ReleaseChanges
  <2>. QED  BY <1>2, <2>3, <2>4, <2>5
<1>3. ASSUME UNCHANGED <<release, target, state, plan, planTx>>
      PROVE  PlansInv'
  BY <1>3 DEF PlansShape, PlansApart, PlanTxsKept, PlanTxKept, ReadOfRelease, LiveIsTarget,
     StatesAreState, CheckedGround, Plans!targetCheck, Plans!componentCheck, DraftsUnsnapped,
     Plans!ReadyPlansAreOfTheRelease
<1>. QED  BY <1>1, <1>2, <1>3, ResolvePlan, ResolveTargets, ResolveComponents, EligibilityStep, InsertPlan,
            ExecutePlan, PreflightStates, PreflightRelease, AttachTasks, TargetChanges, StateChanges
        DEF Plans!Next, Plans!ReplaceLifecyclePhases, Plans!UpsertAgentCapabilityReport, Plans!vars

(* The ground on which tasks are made.                                      *)
TasksGround ==
    \A p \in Plan :
        (plan[p] # Nil /\ plan[p].status = "READY" /\ plan'[p].status = "EXECUTED") =>
            /\ release.status = "PUBLISHED"
            /\ \A t \in DOMAIN plan[p].targets : Plans!targetCheck(plan[p], t, target[t])
            /\ plan[p].content.contract # Nil =>
                  \A t \in DOMAIN plan[p].targets : Plans!componentCheck(plan[p], t, target[t], state[t])

LEMMA TasksGroundStep == ASSUME PlansInv, [Plans!Next]_(Plans!vars) PROVE TasksGround
<1>. USE DEF PlansInv
<1>1. ASSUME plan' = plan
      PROVE  TasksGround
  BY <1>1 DEF TasksGround
<1>2. ASSUME NEW s \in Planner, Plans!insertDeploymentPlan(s)
      PROVE  TasksGround
  <2>1. planTx[s].plan \in Plan
    BY <1>2, PlanTxOf DEF Plans!insertDeploymentPlan
  <2>2. PICK x : plan' = [plan EXCEPT ![planTx[s].plan] = x] /\ x.status \in {"BLOCKED", "READY"}
    BY <1>2, InsertedPlan
  <2>. QED  BY <2>1, <2>2 DEF PlansShape, TasksGround
<1>3. ASSUME NEW s \in Planner, Plans!attachDeploymentPreflightTasks(s)
      PROVE  TasksGround
  <2>. DEFINE t == planTx[s]
  <2>1. t.op = "tasks" /\ t.plan \in Plan /\ plan' = [plan EXCEPT ![t.plan].status = "EXECUTED"]
    BY <1>3, PlanTxOf DEF Plans!attachDeploymentPreflightTasks
  <2>2. LiveIsTarget(t) /\ StatesAreState(t) /\ CheckedGround(t)
    BY <2>1 DEF PlanTxsKept, PlanTxKept
  <2>3. \A p \in Plan \ {t.plan} : plan'[p] = plan[p]
    BY <2>1 DEF PlansShape
  <2>4. /\ release.status = "PUBLISHED"
        /\ \A u \in DOMAIN plan[t.plan].targets : Plans!targetCheck(plan[t.plan], u, target[u])
        /\ plan[t.plan].content.contract # Nil =>
              \A u \in DOMAIN plan[t.plan].targets : Plans!componentCheck(plan[t.plan], u, target[u], state[u])
    BY <2>2 DEF LiveIsTarget, StatesAreState, CheckedGround
  <2>. QED  BY <2>3, <2>4 DEF TasksGround
<1>. QED  BY <1>1, <1>2, <1>3 DEF Plans!Next, Plans!resolveDeploymentPlan, Plans!resolveDeploymentPlanTargets,
            Plans!resolveDeploymentPlanTargetComponents, Plans!addDeploymentPlanEligibilityBlockers,
            Plans!ExecuteDeploymentPlan, Plans!getDeploymentPreflightStates,
            Plans!getDeploymentPreflightReleaseFacts, Plans!Rollback, Plans!UpdateReleaseBundle,
            Plans!PublishReleaseBundle, Plans!BlockReleaseBundle, Plans!ReplaceLifecyclePhases,
            Plans!UpdateDeploymentTarget, Plans!upsertTargetComponentState,
            Plans!UpsertAgentCapabilityReport, Plans!vars

(* A plan that is ready is a plan for what was released, and tasks are made *)
(* only where everything that was checked still holds.                      *)
THEOREM PlansAreOfTheRelease ==
  Plans!Spec => []Plans!ReadyPlansAreOfTheRelease /\ Plans!TasksOnCheckedGround
<1>1. PlansInv => Plans!ReadyPlansAreOfTheRelease
  BY DEF PlansInv
<1>2. ASSUME PlansInv, [Plans!Next]_(Plans!vars)
      PROVE  [TasksGround]_(Plans!vars)
  BY <1>2, TasksGroundStep
<1>. QED  BY <1>1, <1>2, PlansInvInit, PlansInvNext, PTL DEF Plans!Spec, Plans!TasksOnCheckedGround, TasksGround

-----------------------------------------------------------------------------
(* The pipeline: every part behaves as it does alone.                       *)

LEMMA ChannelsPart == MCSpec => Spec
<1>1. MCInit => Init
  BY DEF MCInit
<1>2. [MCNext]_mcVars => [Next]_vars
  BY DEF MCNext, mcVars
<1>. QED  BY <1>1, <1>2, PTL DEF MCSpec, Spec

LEMMA ReleasesPart == MCSpec => Rel!Spec
<1>1. MCInit => Rel!Init
  BY DEF MCInit
<1>2. [MCNext]_mcVars => [Rel!Next]_(Rel!vars)
  BY DEF MCNext, mcVars, releaseVars, Rel!vars
<1>. QED  BY <1>1, <1>2, PTL DEF MCSpec, Rel!Spec

LEMMA PlansPart == MCSpec => Plans!Spec
<1>1. MCInit => Plans!Init
  BY DEF MCInit
<1>2. [MCNext]_mcVars => [Plans!Next]_(Plans!vars)
  BY DEF MCNext, mcVars, planVars, Plans!vars
<1>. QED  BY <1>1, <1>2, PTL DEF MCSpec, Plans!Spec

LEMMA VariablesPart == MCSpec => Vars!Spec
<1>1. MCInit => Vars!Init
  BY DEF MCInit
<1>2. [MCNext]_mcVars => [Vars!Next]_(Vars!vars)
  BY DEF MCNext, mcVars, variableVars, Vars!vars
<1>. QED  BY <1>1, <1>2, PTL DEF MCSpec, Vars!Spec

LEMMA ProcessesPart == MCSpec => Proc!Spec
<1>1. MCInit => Proc!Init
  BY DEF MCInit
<1>2. [MCNext]_mcVars => [Proc!Next]_(Proc!vars)
  BY DEF MCNext, mcVars, processVars, Proc!vars
<1>. QED  BY <1>1, <1>2, PTL DEF MCSpec, Proc!Spec

LEMMA RunbooksPart == MCSpec => Run!Spec
<1>1. MCInit => Run!Init
  BY DEF MCInit
<1>2. [MCNext]_mcVars => [Run!Next]_(Run!vars)
  BY DEF MCNext, mcVars, runbookVars, Run!vars
<1>. QED  BY <1>1, <1>2, PTL DEF MCSpec, Run!Spec

(***************************************************************************)
(* What is released contains released bundles only, and the audit log and   *)
(* the idempotency keys account for it, whatever the bundles, requests and  *)
(* rules (validateChildren, transitionReleaseBundle).                       *)
(***************************************************************************)
THEOREM PipelineReleases == MCSpec => []ReleasesSound
  BY ReleasesPart, ReleasesAreClosed, PTL DEF ReleasesSound

(***************************************************************************)
(* No step of any request changes a release, a revision or a snapshot, nor, *)
(* but for a default flag, what Git has the authority over                  *)
(* (UpdateReleaseBundle, EnsureConfigAsCodeDatabaseManagedForUpdate).       *)
(***************************************************************************)
THEOREM PipelineKeepsWhatIsFrozen == MCSpec => FrozenStays
  BY ReleasesPart, ReleasesAreFrozen, ProcessesPart, ProcessesAreFrozen, ChannelsPart, GitManagedIsKept,
     PTL DEF FrozenStays

(***************************************************************************)
(* Revisions of processes refer to channels and environments that exist,    *)
(* revisions of runbooks can be run in some order, and snapshots are of the *)
(* revisions they name (CreateDeploymentProcessRevision,                    *)
(* PublishRunbookRevision).                                                 *)
(***************************************************************************)
THEOREM PipelineProcesses == MCSpec => []ProcessesSound
  BY ProcessesPart, ProcessesAreSound, RunbooksPart, RunbooksAreSound, PTL DEF ProcessesSound

(***************************************************************************)
(* A plan that is ready is of what was published, and tasks are made only   *)
(* on the ground that was checked (ExecuteDeploymentPlan).                  *)
(***************************************************************************)
THEOREM PipelinePlans == MCSpec => []ReadyPlansAreOfTheRelease /\ TasksOnCheckedGround
<1>1. Plans!Spec => []Plans!ReadyPlansAreOfTheRelease
  BY PlansAreOfTheRelease
<1>2. Plans!Spec => Plans!TasksOnCheckedGround
  BY PlansAreOfTheRelease
<1>. QED  BY <1>1, <1>2, PlansPart, PTL DEF ReadyPlansAreOfTheRelease, TasksOnCheckedGround

(***************************************************************************)
(* The most specific value of a variable wins, but for a prompted one, and  *)
(* a report without drift means that this is what is deployed               *)
(* (resolveVariable, Compare).                                              *)
(***************************************************************************)
THEOREM PipelineVariables == MCSpec => []VariablesSound
<1>1. Vars!MostSpecificWins /\ Vars!PromptedWins /\ Vars!NoDriftMeansDeployed => VariablesSound
  BY DEF VariablesSound
<1>. QED  BY <1>1, VariablesPart, VariablesAreSound, PTL
=============================================================================
