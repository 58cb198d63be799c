------------------------------ MODULE Channels ------------------------------
(***************************************************************************)
(* Environments, lifecycles, channels and who may change them               *)
(* (internal/db/environments.go, lifecycles.go, channels.go and             *)
(* config_as_code.go), for one organization.                                *)
(*                                                                          *)
(* An application has a default channel, which several transactions at once *)
(* may want to change.  They are modelled statement by statement under      *)
(* READ COMMITTED: a statement sees what is committed and its own writes,   *)
(* waits for row locks, and any transaction may be rolled back.             *)
(***************************************************************************)
EXTENDS Naturals, Sequences, FiniteSets

CONSTANTS
    Channel, Application, Lifecycle, Environment,
    Session,      \* requests under way
    PhaseLists    \* phases of the requests, in sort order: [envs, optional, approval]

ASSUME ApplicationsNamed == "none" \notin Application

None == [app |-> "none"]
Idle == [op |-> "idle"]

VARIABLES
    environments,
    phases,   \* phases of each lifecycle that exists
    row,      \* committed channels: [app, lifecycle, default], or None
    git,      \* channels and lifecycles under Git's authority
    locked,   \* channels whose row a session has locked or changed
    tx        \* the transaction of each session

vars == <<environments, phases, row, git, locked, tx>>
lifecycles == DOMAIN phases
Of(a) == {c \in Channel : row[c].app = a}

Init ==
    /\ environments = Environment /\ phases = [l \in {} |-> <<>>]
    /\ row = [c \in Channel |-> None] /\ git = {}
    /\ locked = [s \in Session |-> {}] /\ tx = [s \in Session |-> Idle]

-----------------------------------------------------------------------------
(* Environments and lifecycles.                                              *)

CreateEnvironment(e) ==
    /\ environments' = environments \cup {e}
    /\ UNCHANGED <<phases, row, git, locked, tx>>

(* A phase protects its environments (ON DELETE RESTRICT).                   *)
DeleteEnvironmentWithID(e) ==
    /\ \A l \in lifecycles : \A i \in DOMAIN phases[l] : e \notin phases[l][i].envs
    /\ environments' = environments \ {e}
    /\ UNCHANGED <<phases, row, git, locked, tx>>

validatePhase(p) == p.envs # {}
validateLifecyclePhases(ps) == \A i \in DOMAIN ps : validatePhase(ps[i])

(* An environment that does not exist undoes the whole replacement.          *)
replaceLifecyclePhaseEnvironments(p) == p.envs \subseteq environments
replaceLifecyclePhases(l, ps) ==
    /\ \A i \in DOMAIN ps : replaceLifecyclePhaseEnvironments(ps[i])
    /\ phases' = [m \in lifecycles \cup {l} |-> IF m = l THEN ps ELSE phases[m]]

CreateLifecycle(l, ps) ==
    /\ l \notin lifecycles /\ validateLifecyclePhases(ps)
    /\ replaceLifecyclePhases(l, ps)
    /\ UNCHANGED <<environments, row, git, locked, tx>>

(* EnsureConfigAsCodeDatabaseManagedForUpdate.                               *)
DatabaseManaged(r) == r \notin git

UpdateLifecycle(l, ps) ==
    /\ l \in lifecycles /\ DatabaseManaged(l) /\ validateLifecyclePhases(ps)
    /\ replaceLifecyclePhases(l, ps)
    /\ UNCHANGED <<environments, row, git, locked, tx>>

(* A channel protects its lifecycle.                                         *)
DeleteLifecycleWithID(l) ==
    /\ l \in lifecycles /\ DatabaseManaged(l)
    /\ \A c \in Channel : row[c] # None => row[c].lifecycle # l
    /\ phases' = [m \in lifecycles \ {l} |-> phases[m]]
    /\ UNCHANGED <<environments, row, git, locked, tx>>

-----------------------------------------------------------------------------
(* Transactions on channels.                                                 *)

LockedByOther(s, c) == \E o \in Session \ {s} : c \in locked[o]
Ends(s) == /\ tx' = [tx EXCEPT ![s] = Idle] /\ locked' = [locked EXCEPT ![s] = {}]
Goes(s, t) == tx' = [tx EXCEPT ![s] = t]
Rest == UNCHANGED <<environments, phases, git>>

(* Application and lifecycle exist, at the time of the check; by the time of *)
(* the write the foreign key sees to it.                                     *)
ensureChannelReferences(l) == l \in lifecycles

CreateChannel(s, c, a, l, dflt) ==
    /\ tx[s] = Idle /\ row[c] = None /\ \A o \in Session : tx[o] # Idle => tx[o].chan # c
    /\ ensureChannelReferences(l)
    /\ Goes(s, [op |-> "create", chan |-> c, app |-> a, lifecycle |-> l, default |-> dflt,
                cleared |-> {}])
    /\ Rest /\ UNCHANGED <<row, locked>>

(* The default keeps its application and stays the default.                  *)
UpdateChannel(s, c, a, l, dflt) ==
    /\ tx[s] = Idle /\ row[c] # None /\ ~LockedByOther(s, c)
    /\ DatabaseManaged(c) /\ ensureChannelReferences(l)
    /\ row[c].default => dflt /\ row[c].app = a
    /\ locked' = [locked EXCEPT ![s] = {c}]
    /\ Goes(s, [op |-> "update", chan |-> c, app |-> a, lifecycle |-> l, default |-> dflt,
                cleared |-> {}])
    /\ Rest /\ UNCHANGED row

(* The other channels of the application lose the flag, or a default is      *)
(* looked for; without one this channel becomes it.                          *)
clearDefaultChannels(s) ==
    LET C == Of(tx[s].app) \ {tx[s].chan} IN
    /\ tx[s].op \in {"create", "update"} /\ tx[s].default
    /\ \A c \in C : ~LockedByOther(s, c)
    /\ locked' = [locked EXCEPT ![s] = @ \cup C]
    /\ Goes(s, [tx[s] EXCEPT !.op = "write", !.cleared = C])
    /\ Rest /\ UNCHANGED row

defaultChannelExists(s) ==
    /\ tx[s].op \in {"create", "update"} /\ ~tx[s].default
    /\ Goes(s, [tx[s] EXCEPT !.op = "write",
                !.default = ~\E c \in Of(tx[s].app) \ {tx[s].chan} : row[c].default])
    /\ Rest /\ UNCHANGED <<row, locked>>

(* The write and the commit.  The index on defaults admits one for each      *)
(* application; a violation fails the request.                               *)
DefaultUnique_Fault(s) == TRUE
DefaultUnique(s) ==
    tx[s].default => \A c \in Of(tx[s].app) \ ({tx[s].chan} \cup tx[s].cleared) : ~row[c].default

WriteChannel(s) ==
    /\ tx[s].op = "write"
    /\ row' = IF DefaultUnique(s) /\ ensureChannelReferences(tx[s].lifecycle)
              THEN [c \in Channel |->
                      IF c = tx[s].chan
                      THEN [app |-> tx[s].app, lifecycle |-> tx[s].lifecycle, default |-> tx[s].default]
                      ELSE IF c \in tx[s].cleared /\ row[c] # None
                      THEN [row[c] EXCEPT !.default = FALSE] ELSE row[c]]
              ELSE row
    /\ Ends(s) /\ Rest

(* A channel that releases refer to is protected; here any may go.           *)
DeleteChannelWithID(s, c) ==
    /\ tx[s] = Idle /\ row[c] # None /\ ~LockedByOther(s, c)
    /\ ~row[c].default /\ DatabaseManaged(c)
    /\ row' = [row EXCEPT ![c] = None]
    /\ Rest /\ UNCHANGED <<locked, tx>>

(* One statement; what it would insert twice it leaves out.                  *)
EnsureDefaultChannels(c, a, l) ==
    /\ Of(a) = {} /\ row[c] = None /\ \A s \in Session : tx[s] # Idle => tx[s].chan # c
    /\ ensureChannelReferences(l)
    /\ row' = [row EXCEPT ![c] = [app |-> a, lifecycle |-> l, default |-> TRUE]]
    /\ Rest /\ UNCHANGED <<locked, tx>>

(* A failed statement, a deadlock, a lost connection.                        *)
Rollback(s) ==
    /\ tx[s] # Idle /\ Ends(s)
    /\ Rest /\ UNCHANGED row

-----------------------------------------------------------------------------
(* Authority over a channel or a lifecycle; its row is locked meanwhile.     *)
Exists(r) == r \in lifecycles \cup {c \in Channel : row[c] # None}

UpsertConfigAsCodeAuthority(r, byGit) ==
    /\ Exists(r) /\ \A s \in Session : r \notin locked[s]
    /\ git' = IF byGit THEN git \cup {r} ELSE git \ {r}
    /\ UNCHANGED <<environments, phases, row, locked, tx>>

ChannelNext(s) ==
    \/ \E c \in Channel, a \in Application, l \in Lifecycle, d \in BOOLEAN :
          CreateChannel(s, c, a, l, d) \/ UpdateChannel(s, c, a, l, d)
    \/ clearDefaultChannels(s) \/ defaultChannelExists(s) \/ WriteChannel(s) \/ Rollback(s)
    \/ \E c \in Channel : DeleteChannelWithID(s, c)

Next ==
    \/ \E e \in Environment : CreateEnvironment(e) \/ DeleteEnvironmentWithID(e)
    \/ \E l \in Lifecycle, ps \in PhaseLists : CreateLifecycle(l, ps) \/ UpdateLifecycle(l, ps)
    \/ \E l \in Lifecycle : DeleteLifecycleWithID(l)
    \/ \E s \in Session : ChannelNext(s)
    \/ \E c \in Channel, a \in Application, l \in Lifecycle : EnsureDefaultChannels(c, a, l)
    \/ \E r \in Channel \cup Lifecycle, g \in BOOLEAN : UpsertConfigAsCodeAuthority(r, g)

Spec == Init /\ [][Next]_vars

-----------------------------------------------------------------------------
(***************************************************************************)
(* An application that has channels has exactly one default channel,        *)
(* whatever requests overlap: none is left without, none gets two.          *)
(***************************************************************************)
ExactlyOneDefault ==
    \A a \in Application :
        Of(a) # {} => Cardinality({c \in Of(a) : row[c].default}) = 1

(***************************************************************************)
(* What is under Git's authority is not deleted, and changes in nothing but *)
(* the default flag, until the authority is given back.                     *)
(***************************************************************************)
SameButDefault(r, q) == [r EXCEPT !.default = FALSE] = [q EXCEPT !.default = FALSE]
GitManagedKept ==
    [][/\ \A l \in lifecycles \cap git \cap git' : l \in DOMAIN phases' /\ phases'[l] = phases[l]
       /\ \A c \in Channel \cap git \cap git' : row[c] # None =>
             row'[c] # None /\ SameButDefault(row[c], row'[c])]_vars
=============================================================================
