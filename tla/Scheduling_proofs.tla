------------------------- MODULE Scheduling_proofs -------------------------
(***************************************************************************)
(* Proofs about what orders the work.  For every set of steps and every     *)
(* graph, the depth-first search of validateDeploymentProcessStepGraph is   *)
(* right: what it accepts is acyclic, what it rejects for a cycle has one,  *)
(* and its recursion is bounded.  The sweeps of readyTaskLeaseStepCandidates*)
(* return the runnable batch of an acyclic graph, in dependency order,      *)
(* whatever the sort order of the rows.  And for any number of targets and  *)
(* checks the rolling and blue-green strategies contain what a rollout can  *)
(* break.                                                                   *)
(***************************************************************************)
EXTENDS MCScheduling, SequenceTheorems, FiniteSetTheorems, TLAPS

-----------------------------------------------------------------------------
(* The search.                                                              *)

NamesChecked ==
    verdict \in {"VISITING", "ACCEPTED", "CYCLE"} => \A k \in Key : deps[k] \subseteq Key \ {k}

(* What is visited is finished: closed under dependencies and acyclic.      *)
VisitedIsFinished ==
    /\ \A k \in visited : k \notin Visiting
    /\ \A k \in visited : deps[k] \subseteq visited
    /\ Acyclic(visited, deps)

(* The stack is a path of the graph...                                      *)
StackIsPath == \A i \in 1..(Len(stack) - 1) : stack[i + 1] \in deps[stack[i]]

(* ... and a dependency already followed is visited or next on the stack.   *)
FollowedIsVisited ==
    verdict = "VISITING" =>
        \A i \in 1..Len(stack) :
            /\ todo[stack[i]] \subseteq deps[stack[i]]
            /\ \A d \in deps[stack[i]] \ todo[stack[i]] :
                  d \in visited \/ (i < Len(stack) /\ d = stack[i + 1])

EveryKeyAccountedFor == \A k \in Key : k \in roots \/ k \in visited \/ k \in Visiting

NotStarted == verdict = "NONE" => stack = <<>>

VerdictIsRight ==
    /\ verdict = "CYCLE" => ~Acyclic(Key, deps)
    /\ verdict = "ACCEPTED" => visited = Key

GraphInv ==
    /\ GraphTypeOK
    /\ NamesChecked
    /\ RecursionBounded
    /\ VisitedIsFinished
    /\ StackIsPath
    /\ FollowedIsVisited
    /\ EveryKeyAccountedFor
    /\ NotStarted
    /\ VerdictIsRight

(* A path that returns to one of its own keys is a cycle.                   *)
LEMMA PathBackIsCycle ==
    ASSUME NEW V, NEW dep, NEW st \in Seq(V), NEW i \in 1..Len(st),
           \A j \in 1..(Len(st) - 1) : st[j + 1] \in dep[st[j]],
           st[i] \in dep[st[Len(st)]]
    PROVE  ~Acyclic(V, dep)
<1>. DEFINE S == {st[j] : j \in i..Len(st)}
<1>1. S \in SUBSET V /\ S # {}
  OBVIOUS
<1>2. ASSUME NEW s \in S PROVE dep[s] \cap S # {}
  <2>1. PICK j \in i..Len(st) : s = st[j]
    OBVIOUS
  <2>2. CASE j = Len(st)
    BY <2>1, <2>2
  <2>3. CASE j < Len(st)
    <3>1. j + 1 \in i..Len(st) /\ j \in 1..(Len(st) - 1)
      BY <2>3
    <3>2. st[j + 1] \in dep[s]
      BY <2>1, <3>1
    <3>. QED  BY <3>1, <3>2
  <2>. QED  BY <2>2, <2>3
<1>. QED  BY <1>1, <1>2 DEF Acyclic

(* A finished key can be added to a finished set.                           *)
LEMMA AcyclicExtends ==
    ASSUME NEW V, NEW dep, NEW k, k \notin V, Acyclic(V, dep),
           \A v \in V : dep[v] \subseteq V, dep[k] \subseteq V
    PROVE  Acyclic(V \cup {k}, dep)
<1>. SUFFICES ASSUME NEW S \in SUBSET (V \cup {k}), S # {}
              PROVE  \E s \in S : dep[s] \cap S = {}
  BY DEF Acyclic
<1>1. CASE S \ {k} = {}
  BY <1>1
<1>2. CASE S \ {k} # {}
  <2>1. PICK s \in S \ {k} : dep[s] \cap (S \ {k}) = {}
    BY <1>2 DEF Acyclic
  <2>2. k \notin dep[s]
    BY <2>1
  <2>. QED  BY <2>1, <2>2
<1>. QED  BY <1>1, <1>2

LEMMA GraphInvInit == GraphInit => GraphInv
<1>. SUFFICES ASSUME GraphInit PROVE GraphInv
  OBVIOUS
<1>1. GraphTypeOK
  BY DEF GraphInit, GraphTypeOK
<1>2. VisitedIsFinished
  BY DEF GraphInit, VisitedIsFinished, Acyclic
<1>. QED
  BY <1>1, <1>2 DEF GraphInit, GraphInv, NamesChecked, RecursionBounded, StackIsPath,
     FollowedIsVisited, EveryKeyAccountedFor, NotStarted,
     VerdictIsRight

(* A key is pushed: it is the root or a dependency of the top of the stack. *)
LEMMA Push ==
    ASSUME GraphInv, NEW k \in Key, k \notin visited, k \notin Visiting,
           verdict = "VISITING",
           stack' = Append(stack, k), UNCHANGED <<deps, visited, verdict>>,
           todo' \in [Key -> SUBSET Name], todo'[k] = deps[k],
           roots' \subseteq roots, \A r \in roots : r \in roots' \/ r = k,
           \A i \in 1..Len(stack) :
              IF i = Len(stack)
              THEN k \in deps[stack[i]] /\ todo'[stack[i]] = todo[stack[i]] \ {k}
              ELSE todo'[stack[i]] = todo[stack[i]]
    PROVE  GraphInv'
<1>. /\ stack \in Seq(Key) /\ Len(stack) \in Nat
     /\ Len(stack') = Len(stack) + 1
     /\ stack'[Len(stack) + 1] = k
     /\ \A i \in 1..Len(stack) : stack'[i] = stack[i]
     /\ \A i \in 1..Len(stack) : stack[i] # k
  BY DEF GraphInv, GraphTypeOK, Visiting
<1>1. Visiting' = Visiting \cup {k}
  BY DEF Visiting
<1>2. GraphTypeOK'
  BY DEF GraphInv, GraphTypeOK
<1>3. NamesChecked' /\ NotStarted' /\ VerdictIsRight'
  BY DEF GraphInv, NamesChecked, NotStarted, VerdictIsRight
<1>4. RecursionBounded'
  BY DEF GraphInv, RecursionBounded
<1>5. VisitedIsFinished'
  BY <1>1 DEF GraphInv, VisitedIsFinished
<1>6. StackIsPath'
  BY DEF GraphInv, StackIsPath
<1>7. FollowedIsVisited'
  <2>. SUFFICES ASSUME NEW i \in 1..(Len(stack) + 1)
                PROVE  /\ todo'[stack'[i]] \subseteq deps[stack'[i]]
                       /\ \A d \in deps[stack'[i]] \ todo'[stack'[i]] :
                            d \in visited \/ (i < Len(stack) + 1 /\ d = stack'[i + 1])
    BY DEF FollowedIsVisited
  <2>1. CASE i = Len(stack) + 1
    BY <2>1
  <2>2. CASE i \in 1..Len(stack)
    <3>1. /\ todo[stack[i]] \subseteq deps[stack[i]]
          /\ \A d \in deps[stack[i]] \ todo[stack[i]] :
                d \in visited \/ (i < Len(stack) /\ d = stack[i + 1])
      BY <2>2 DEF GraphInv, FollowedIsVisited
    <3>. QED  BY <2>2, <3>1
  <2>. QED  BY <2>1, <2>2
<1>8. EveryKeyAccountedFor'
  BY <1>1 DEF GraphInv, EveryKeyAccountedFor
<1>. QED  BY <1>2, <1>3, <1>4, <1>5, <1>6, <1>7, <1>8 DEF GraphInv

LEMMA GraphInvStep == GraphInv /\ [GraphNext]_graphVars => GraphInv'
<1>. SUFFICES ASSUME GraphInv, [GraphNext]_graphVars PROVE GraphInv'
  OBVIOUS
<1>. USE KeyAssumption
<1>1. ASSUME CheckNames PROVE GraphInv'
  <2>. UNCHANGED <<deps, roots, stack, todo, visited>>
    BY <1>1 DEF CheckNames
  <2>1. /\ verdict' = "VISITING" => \A k \in Key : deps[k] \subseteq Key \ {k}
        /\ verdict' \in {"VISITING", "UNKNOWN_OR_SELF"}
    BY <1>1 DEF CheckNames
  <2>2. GraphTypeOK' /\ NamesChecked' /\ VerdictIsRight'
    BY <2>1 DEF GraphInv, GraphTypeOK, NamesChecked, VerdictIsRight
  <2>3. RecursionBounded' /\ VisitedIsFinished' /\ StackIsPath' /\ EveryKeyAccountedFor'
    BY DEF GraphInv, RecursionBounded, VisitedIsFinished, StackIsPath,
           EveryKeyAccountedFor, Visiting
  <2>4. FollowedIsVisited'
    <3>1. stack = <<>>
      BY <1>1 DEF CheckNames, GraphInv, NotStarted
    <3>. QED  BY <3>1 DEF FollowedIsVisited
  <2>5. NotStarted'
    BY <2>1 DEF NotStarted
  <2>. QED  BY <2>2, <2>3, <2>4, <2>5 DEF GraphInv
<1>2. ASSUME NEW k \in Key, VisitRoot(k) PROVE GraphInv'
  <2>. /\ verdict = "VISITING" /\ stack = <<>> /\ Visiting = {}
       /\ roots' = roots \ {k} /\ deps' = deps
       /\ GraphTypeOK
    BY <1>2 DEF VisitRoot, Visiting, GraphInv
  <2>1. CASE k \in visited
    <3>. UNCHANGED <<todo, stack, visited, verdict>>
      BY <1>2, <2>1 DEF VisitRoot, Visit
    <3>. QED
      BY <2>1 DEF GraphInv, GraphTypeOK, NamesChecked, RecursionBounded,
         VisitedIsFinished, StackIsPath, FollowedIsVisited, EveryKeyAccountedFor,
         NotStarted, VerdictIsRight, Visiting
  <2>2. CASE k \notin visited
    <3>1. /\ stack' = Append(stack, k) /\ UNCHANGED <<visited, verdict>>
          /\ todo' = [todo EXCEPT ![k] = deps[k]]
      BY <1>2, <2>2 DEF VisitRoot, Visit
    <3>2. todo' \in [Key -> SUBSET Name] /\ todo'[k] = deps[k]
      BY <3>1 DEF GraphTypeOK
    <3>3. \A i \in 1..Len(stack) : FALSE
      OBVIOUS
    <3>. QED  BY <2>2, <3>1, <3>2, <3>3, Push
  <2>. QED  BY <2>1, <2>2
<1>3. ASSUME NEW d \in Name, Follow(d) PROVE GraphInv'
  <2>. DEFINE top == stack[Len(stack)]
  <2>1. /\ verdict = "VISITING" /\ stack # <<>> /\ d \in todo[top]
        /\ deps' = deps /\ roots' = roots
        /\ stack \in Seq(Key) /\ Len(stack) \in Nat /\ Len(stack) # 0
        /\ GraphTypeOK
    BY <1>3 DEF Follow, GraphInv, GraphTypeOK
  <2>2. top \in Key /\ d \in deps[top] /\ d \in Key /\ d # top
    BY <2>1 DEF GraphInv, FollowedIsVisited, NamesChecked
  <2>3. todo' = [k \in Key |->
                   IF k = top THEN todo[k] \ {d}
                   ELSE IF k = d /\ d \notin visited \cup Visiting THEN deps[d]
                   ELSE todo[k]]
    BY <1>3 DEF Follow
  <2>4. todo' \in [Key -> SUBSET Name]
    BY <2>1, <2>2, <2>3 DEF GraphTypeOK
  <2>5. CASE d \in visited
    <3>. UNCHANGED <<stack, visited, verdict>>
      BY <1>3, <2>5 DEF Follow, Visit
    <3>1. FollowedIsVisited'
      <4>. SUFFICES ASSUME NEW i \in 1..Len(stack)
                    PROVE  /\ todo'[stack[i]] \subseteq deps[stack[i]]
                           /\ \A e \in deps[stack[i]] \ todo'[stack[i]] :
                                 e \in visited \/ (i < Len(stack) /\ e = stack[i + 1])
        BY <2>1 DEF FollowedIsVisited
      <4>1. stack[i] \in Key
        BY <2>1
      <4>2. todo'[stack[i]] = IF stack[i] = top THEN todo[stack[i]] \ {d} ELSE todo[stack[i]]
        BY <2>3, <2>5, <4>1
      <4>. QED  BY <2>1, <2>5, <4>2 DEF GraphInv, FollowedIsVisited
    <3>2. GraphTypeOK' /\ NamesChecked' /\ RecursionBounded' /\ NotStarted' /\ VerdictIsRight'
      BY <2>1, <2>4 DEF GraphInv, GraphTypeOK, NamesChecked, RecursionBounded, NotStarted,
         VerdictIsRight
    <3>3. VisitedIsFinished' /\ StackIsPath' /\ EveryKeyAccountedFor'
      BY <2>1 DEF GraphInv, VisitedIsFinished, StackIsPath, EveryKeyAccountedFor, Visiting
    <3>. QED  BY <3>1, <3>2, <3>3 DEF GraphInv
  <2>6. CASE d \notin visited /\ d \in Visiting
    <3>1. verdict' = "CYCLE" /\ UNCHANGED <<stack, visited>>
      BY <1>3, <2>6 DEF Follow, Visit
    <3>2. ~Acyclic(Key, deps)
      <4>1. PICK i \in 1..Len(stack) : d = stack[i]
        BY <2>6 DEF Visiting
      <4>2. \A j \in 1..(Len(stack) - 1) : stack[j + 1] \in deps[stack[j]]
        BY DEF GraphInv, StackIsPath
      <4>. QED  BY <2>1, <2>2, <4>1, <4>2, PathBackIsCycle
    <3>3. GraphTypeOK' /\ NamesChecked' /\ RecursionBounded'
      BY <2>1, <2>4, <3>1 DEF GraphInv, GraphTypeOK, NamesChecked, RecursionBounded
    <3>4. VisitedIsFinished' /\ StackIsPath' /\ EveryKeyAccountedFor'
      BY <2>1, <3>1 DEF GraphInv, VisitedIsFinished, StackIsPath, EveryKeyAccountedFor, Visiting
    <3>5. FollowedIsVisited' /\ NotStarted' /\ VerdictIsRight'
      BY <2>1, <3>1, <3>2 DEF FollowedIsVisited, NotStarted, VerdictIsRight
    <3>. QED  BY <3>3, <3>4, <3>5 DEF GraphInv
  <2>7. CASE d \notin visited /\ d \notin Visiting
    <3>1. stack' = Append(stack, d) /\ UNCHANGED <<visited, verdict>>
      BY <1>3, <2>7 DEF Follow, Visit
    <3>2. todo'[d] = deps[d]
      BY <2>2, <2>3, <2>7
    <3>3. ASSUME NEW i \in 1..Len(stack)
          PROVE  IF i = Len(stack)
                 THEN d \in deps[stack[i]] /\ todo'[stack[i]] = todo[stack[i]] \ {d}
                 ELSE todo'[stack[i]] = todo[stack[i]]
      <4>1. stack[i] \in Key /\ stack[i] # d
        BY <2>1, <2>7 DEF Visiting
      <4>2. CASE i = Len(stack)
        BY <2>2, <2>3, <4>2
      <4>3. CASE i # Len(stack)
        <5>1. stack[i] # top
          BY <2>1, <4>3 DEF GraphInv, RecursionBounded
        <5>. QED  BY <2>3, <4>1, <4>3, <5>1
      <4>. QED  BY <4>2, <4>3
    <3>. HIDE DEF top
    <3>. QED  BY <2>1, <2>2, <2>4, <2>7, <3>1, <3>2, <3>3, Push
  <2>. QED  BY <2>5, <2>6, <2>7
<1>4. ASSUME Return PROVE GraphInv'
  <2>. DEFINE n == Len(stack) - 1
              top == stack[Len(stack)]
  <2>1. /\ verdict = "VISITING" /\ stack # <<>> /\ todo[top] = {}
        /\ UNCHANGED <<deps, roots, todo, verdict>>
        /\ visited' = visited \cup {top}
        /\ stack \in Seq(Key) /\ Len(stack) \in Nat /\ Len(stack) # 0
        /\ GraphTypeOK /\ top \in Key
    BY <1>4 DEF Return, GraphInv, GraphTypeOK
  <2>2. /\ n \in Nat /\ stack' \in Seq(Key) /\ Len(stack') = n
        /\ \A i \in 1..n : stack'[i] = stack[i]
    <3>1. stack' = SubSeq(stack, 1, n) /\ n \in Nat /\ n <= Len(stack)
      BY <1>4, <2>1 DEF Return
    <3>2. \A i \in 1..n : stack[i] \in Key
      BY <2>1, <3>1
    <3>3. /\ SubSeq(stack, 1, n) \in Seq(Key)
          /\ Len(SubSeq(stack, 1, n)) = IF 1 <= n THEN n - 1 + 1 ELSE 0
          /\ \A i \in 1..(n - 1 + 1) : SubSeq(stack, 1, n)[i] = stack[1 + i - 1]
      <4>. HIDE DEF n
      <4>. QED  BY <3>1, <3>2, SubSeqProperties
    <3>. HIDE DEF n
    <3>4. \A i \in 1..n : i \in 1..(n - 1 + 1) /\ 1 + i - 1 = i
      BY <3>1
    <3>5. Len(stack') = n
      BY <3>1, <3>3
    <3>. QED  BY <3>1, <3>3, <3>4, <3>5, Zenon
  <2>. HIDE DEF top
  <2>3. \A i \in 1..n : stack[i] # top
    BY <2>1, <2>2 DEF GraphInv, RecursionBounded, top
  <2>4. Visiting' = Visiting \ {top}
    BY <2>1, <2>2, <2>3 DEF Visiting, top
  <2>5. deps[top] \subseteq visited
    BY <2>1 DEF GraphInv, FollowedIsVisited, top
  <2>6. GraphTypeOK' /\ NamesChecked' /\ NotStarted' /\ VerdictIsRight'
    BY <2>1, <2>2 DEF GraphInv, GraphTypeOK, NamesChecked, NotStarted, VerdictIsRight
  <2>7. VisitedIsFinished'
    <3>1. top \notin visited
      BY <2>1 DEF GraphInv, VisitedIsFinished, Visiting, top
    <3>2. Acyclic(visited \cup {top}, deps)
      BY <2>5, <3>1, AcyclicExtends DEF GraphInv, VisitedIsFinished
    <3>. QED  BY <2>1, <2>4, <2>5, <3>2 DEF GraphInv, VisitedIsFinished
  <2>8. RecursionBounded' /\ StackIsPath'
    BY <2>1, <2>2 DEF GraphInv, RecursionBounded, StackIsPath
  <2>9. FollowedIsVisited'
    <3>. SUFFICES ASSUME NEW i \in 1..n
                  PROVE  /\ todo[stack[i]] \subseteq deps[stack[i]]
                         /\ \A d \in deps[stack[i]] \ todo[stack[i]] :
                               \/ d \in visited \cup {top}
                               \/ i < n /\ d = stack'[i + 1]
      BY <2>1, <2>2 DEF FollowedIsVisited
    <3>1. /\ todo[stack[i]] \subseteq deps[stack[i]]
          /\ \A d \in deps[stack[i]] \ todo[stack[i]] :
                d \in visited \/ (i < Len(stack) /\ d = stack[i + 1])
      BY <2>1, <2>2 DEF GraphInv, FollowedIsVisited
    <3>2. ASSUME i = n, NEW d, d = stack[i + 1] PROVE d = top
      BY <2>1, <3>2 DEF top
    <3>3. n \in Nat /\ \A j \in 1..n : stack'[j] = stack[j]
      BY <2>2
    <3>. HIDE DEF n
    <3>4. ASSUME i # n PROVE i < n /\ stack'[i + 1] = stack[i + 1]
      <4>1. i < n /\ i + 1 \in 1..n
        BY <3>3, <3>4
      <4>. QED  BY <3>3, <4>1
    <3>. QED  BY <3>1, <3>2, <3>4, Zenon
  <2>10. EveryKeyAccountedFor'
    BY <2>1, <2>4 DEF GraphInv, EveryKeyAccountedFor
  <2>. QED  BY <2>6, <2>7, <2>8, <2>9, <2>10 DEF GraphInv
<1>5. ASSUME Accept PROVE GraphInv'
  <2>. /\ UNCHANGED <<deps, roots, stack, todo, visited>>
       /\ verdict = "VISITING" /\ verdict' = "ACCEPTED" /\ stack = <<>> /\ roots = {}
    BY <1>5 DEF Accept
  <2>1. visited = Key
    <3>1. Visiting = {}
      BY DEF Visiting
    <3>2. EveryKeyAccountedFor /\ GraphTypeOK
      BY DEF GraphInv
    <3>. QED  BY <3>1, <3>2 DEF EveryKeyAccountedFor, GraphTypeOK
  <2>2. GraphTypeOK' /\ NamesChecked' /\ NotStarted' /\ VerdictIsRight'
    BY <2>1 DEF GraphInv, GraphTypeOK, NamesChecked, NotStarted, VerdictIsRight
  <2>3. RecursionBounded' /\ StackIsPath' /\ FollowedIsVisited' /\ EveryKeyAccountedFor'
    BY DEF GraphInv, RecursionBounded, StackIsPath, FollowedIsVisited,
           EveryKeyAccountedFor, Visiting
  <2>4. VisitedIsFinished'
    <3>1. VisitedIsFinished /\ Visiting' = Visiting
      BY DEF GraphInv, Visiting
    <3>. QED  BY <3>1 DEF VisitedIsFinished
  <2>. QED  BY <2>2, <2>3, <2>4 DEF GraphInv
<1>6. ASSUME UNCHANGED graphVars PROVE GraphInv'
  BY <1>6 DEF graphVars, GraphInv, GraphTypeOK, NamesChecked, RecursionBounded,
     VisitedIsFinished, StackIsPath, FollowedIsVisited, EveryKeyAccountedFor,
     NotStarted, VerdictIsRight, Visiting
<1>. QED  BY <1>1, <1>2, <1>3, <1>4, <1>5, <1>6 DEF GraphNext

(***************************************************************************)
(* What the validation accepts is an acyclic graph over the revision's own  *)
(* steps, and what it rejects for a cycle has one.                          *)
(***************************************************************************)
THEOREM ValidationIsRight == GraphSpec => [](AcceptedIsAcyclic /\ RejectedHasCycle)
<1>1. GraphInv => AcceptedIsAcyclic /\ RejectedHasCycle
  BY DEF GraphInv, AcceptedIsAcyclic, RejectedHasCycle, NamesChecked, VerdictIsRight,
     VisitedIsFinished
<1>. QED  BY <1>1, GraphInvInit, GraphInvStep, PTL DEF GraphSpec

(***************************************************************************)
(* The recursion is never deeper than the revision has steps.               *)
(***************************************************************************)
THEOREM RecursionIsBounded == GraphSpec => []RecursionBounded
<1>1. GraphInv => RecursionBounded
  BY DEF GraphInv
<1>. QED  BY <1>1, GraphInvInit, GraphInvStep, PTL DEF GraphSpec

-----------------------------------------------------------------------------
(* The sweeps.                                                              *)

(* What a sweep that has picked nothing knows of the candidates behind it.  *)
PassedOver ==
    ~progressed => \A c \in 1..(next - 1) :
                      c \in Eligible \ Selected => ~taskLeaseDependenciesSatisfied(c)

DoneMeansSwept == done => next = N + 1 /\ ~progressed

ReadyInv ==
    /\ ReadyTypeOK
    /\ Acyclic(Candidates, dependencies)
    /\ BatchInDependencyOrder
    /\ BatchOfDistinctPendingSteps
    /\ PassedOver
    /\ DoneMeansSwept

(***************************************************************************)
(* A closed set of eligible steps that contains every step whose            *)
(* dependencies it satisfies is the batch: this is where acyclicity is      *)
(* needed.                                                                  *)
(***************************************************************************)
LEMMA ClosedAndSaturatedIsBatch ==
    ASSUME NEW V, NEW dep \in [V -> SUBSET V], Acyclic(V, dep),
           NEW E \in SUBSET V, NEW sat \in SUBSET V, NEW R \in SUBSET E,
           Closed(R, sat, dep),
           \A e \in E \ R : ~(dep[e] \subseteq sat \cup R)
    PROVE  R = Batch(E, sat, dep)
<1>1. R \subseteq Batch(E, sat, dep)
  BY DEF Batch
<1>2. ASSUME NEW S \in SUBSET E, Closed(S, sat, dep)
      PROVE  S \subseteq R
  <2>1. SUFFICES ASSUME S \ R # {} PROVE FALSE
    OBVIOUS
  <2>2. PICK s \in S \ R : dep[s] \cap (S \ R) = {}
    BY <2>1 DEF Acyclic
  <2>3. dep[s] \subseteq sat \cup S
    BY <1>2 DEF Closed
  <2>4. dep[s] \subseteq sat \cup R
    BY <2>2, <2>3
  <2>. QED  BY <2>2, <2>4
<1>3. Batch(E, sat, dep) \subseteq R
  BY <1>2 DEF Batch
<1>. QED  BY <1>1, <1>3

LEMMA ReadyInvInit == ReadyInit => ReadyInv
<1>. SUFFICES ASSUME ReadyInit PROVE ReadyInv
  OBVIOUS
<1>1. ReadyTypeOK
  <2>1. dependencies \in [Candidates -> SUBSET Candidates]
    BY Zenon DEF ReadyInit
  <2>2. next \in 1..(N + 1) /\ ready \in Seq(Candidates)
    BY NAssumption DEF ReadyInit
  <2>. QED  BY <2>1, <2>2, Zenon DEF ReadyInit, ReadyTypeOK
<1>2. Acyclic(Candidates, dependencies)
  BY DEF ReadyInit, Acyclic
<1>3. BatchInDependencyOrder /\ BatchOfDistinctPendingSteps
  BY DEF ReadyInit, BatchInDependencyOrder, BatchOfDistinctPendingSteps
<1>4. PassedOver /\ DoneMeansSwept
  BY DEF ReadyInit, PassedOver, DoneMeansSwept
<1>. QED  BY <1>1, <1>2, <1>3, <1>4 DEF ReadyInv

LEMMA ReadyInvStep == ReadyInv /\ [ReadyNext]_readyVars => ReadyInv'
<1>. SUFFICES ASSUME ReadyInv, [ReadyNext]_readyVars PROVE ReadyInv'
  OBVIOUS
<1>. USE NAssumption
<1>1. ASSUME NEW c \in Candidates, Pick(c) PROVE ReadyInv'
  <2>. /\ ready' = Append(ready, c) /\ progressed' = TRUE /\ next' = next + 1 /\ next = c
       /\ UNCHANGED <<dependencies, run, here, done>>
       /\ c \in Eligible \ Selected
       /\ dependencies[c] \subseteq SatisfiedRuns \cup Selected
    BY <1>1 DEF Pick, taskLeaseDependenciesSatisfied
  <2>. /\ ReadyTypeOK
       /\ Len(ready) \in Nat
       /\ Len(ready') = Len(ready) + 1
       /\ ready'[Len(ready) + 1] = c
       /\ \A i \in 1..Len(ready) : ready'[i] = ready[i]
    BY DEF ReadyInv, ReadyTypeOK
  <2>1. ReadyTypeOK'
    BY DEF ReadyTypeOK, Candidates
  <2>2. BatchInDependencyOrder'
    <3>. SUFFICES ASSUME NEW i \in 1..(Len(ready) + 1), NEW d \in dependencies[ready'[i]],
                         d \notin SatisfiedRuns
                  PROVE  \E j \in 1..(i - 1) : ready'[j] = d
      BY DEF BatchInDependencyOrder, SatisfiedRuns
    <3>1. CASE i = Len(ready) + 1
      BY <3>1 DEF Selected
    <3>2. CASE i \in 1..Len(ready)
      BY <3>2 DEF ReadyInv, BatchInDependencyOrder
    <3>. QED  BY <3>1, <3>2
  <2>3. BatchOfDistinctPendingSteps'
    <3>1. \A i \in 1..Len(ready) : ready[i] # c
      BY DEF Selected
    <3>. QED  BY <3>1 DEF ReadyInv, BatchOfDistinctPendingSteps, Eligible
  <2>. QED
    BY <2>1, <2>2, <2>3 DEF ReadyInv, PassedOver, DoneMeansSwept, ReadyTypeOK, Candidates
<1>2. ASSUME NEW c \in Candidates, Continue(c) PROVE ReadyInv'
  <2>. /\ UNCHANGED <<dependencies, run, here, progressed, ready, done>>
       /\ next' = next + 1 /\ next = c
       /\ ~(c \in Eligible \ Selected /\ taskLeaseDependenciesSatisfied(c))
    BY <1>2 DEF Continue
  <2>1. ReadyTypeOK' /\ BatchInDependencyOrder' /\ BatchOfDistinctPendingSteps'
    BY DEF ReadyInv, ReadyTypeOK, Candidates, BatchInDependencyOrder,
           BatchOfDistinctPendingSteps, SatisfiedRuns
  <2>2. PassedOver'
    <3>1. /\ Eligible' = Eligible /\ Selected' = Selected
          /\ \A x : taskLeaseDependenciesSatisfied(x)' <=> taskLeaseDependenciesSatisfied(x)
      BY DEF Eligible, Selected, SatisfiedRuns, taskLeaseDependenciesSatisfied
    <3>2. \A x \in 1..(next' - 1) : x \in 1..(next - 1) \/ x = c
      BY DEF Candidates
    <3>. QED  BY <3>1, <3>2 DEF ReadyInv, PassedOver
  <2>3. DoneMeansSwept'
    BY DEF ReadyInv, DoneMeansSwept, Candidates
  <2>. QED  BY <2>1, <2>2, <2>3 DEF ReadyInv
<1>3. ASSUME EndSweep PROVE ReadyInv'
  <2>. UNCHANGED <<dependencies, run, here, ready>> /\ next = N + 1 /\ ~done
    BY <1>3 DEF EndSweep
  <2>1. BatchInDependencyOrder' /\ BatchOfDistinctPendingSteps'
    <3>1. BatchInDependencyOrder /\ BatchOfDistinctPendingSteps
      BY DEF ReadyInv
    <3>2. BatchInDependencyOrder'
      BY <3>1 DEF BatchInDependencyOrder, SatisfiedRuns
    <3>3. BatchOfDistinctPendingSteps'
      BY <3>1 DEF BatchOfDistinctPendingSteps
    <3>. QED  BY <3>2, <3>3
  <2>2. Acyclic(Candidates, dependencies)'
    BY DEF ReadyInv
  <2>3. ReadyTypeOK' /\ PassedOver' /\ DoneMeansSwept'
    <3>1. CASE progressed
      <4>. next' = 1 /\ progressed' = FALSE /\ done' = done
        BY <1>3, <3>1 DEF EndSweep
      <4>1. PassedOver'
        BY DEF PassedOver
      <4>2. ReadyTypeOK'
        <5>1. 1 \in 1..(N + 1)
          OBVIOUS
        <5>. QED  BY <5>1, Zenon DEF ReadyInv, ReadyTypeOK
      <4>. QED  BY <4>1, <4>2 DEF DoneMeansSwept
    <3>2. CASE ~progressed
      <4>. UNCHANGED <<next, progressed>> /\ done' = TRUE
        BY <1>3, <3>2 DEF EndSweep
      <4>1. PassedOver'
        BY DEF ReadyInv, PassedOver, Eligible, Selected, SatisfiedRuns,
               taskLeaseDependenciesSatisfied
      <4>2. ReadyTypeOK'
        BY DEF ReadyInv, ReadyTypeOK
      <4>. QED  BY <3>2, <4>1, <4>2 DEF DoneMeansSwept
    <3>. QED  BY <3>1, <3>2
  <2>. QED  BY <2>1, <2>2, <2>3 DEF ReadyInv
<1>4. ASSUME UNCHANGED readyVars PROVE ReadyInv'
  <2>. UNCHANGED <<dependencies, run, here, next, progressed, ready, done>>
    BY <1>4 DEF readyVars
  <2>1. BatchInDependencyOrder' /\ BatchOfDistinctPendingSteps' /\ ReadyTypeOK'
    BY DEF ReadyInv, ReadyTypeOK, BatchInDependencyOrder, BatchOfDistinctPendingSteps,
           SatisfiedRuns
  <2>2. Acyclic(Candidates, dependencies)' /\ DoneMeansSwept'
    BY DEF ReadyInv, DoneMeansSwept
  <2>3. PassedOver'
    BY DEF ReadyInv, PassedOver, Eligible, Selected, SatisfiedRuns,
           taskLeaseDependenciesSatisfied
  <2>. QED  BY <2>1, <2>2, <2>3 DEF ReadyInv
<1>. QED  BY <1>1, <1>2, <1>3, <1>4 DEF ReadyNext

LEMMA ReadyInvGivesBatch == ReadyInv => ReturnsBatch
<1>. SUFFICES ASSUME ReadyInv, done
              PROVE  Selected = Batch(Eligible, SatisfiedRuns, dependencies)
  BY DEF ReturnsBatch
<1>1. /\ Eligible \in SUBSET Candidates
      /\ SatisfiedRuns \in SUBSET Candidates
      /\ dependencies \in [Candidates -> SUBSET Candidates]
      /\ Acyclic(Candidates, dependencies)
  BY DEF ReadyInv, ReadyTypeOK, Eligible, SatisfiedRuns
<1>2. Selected \in SUBSET Eligible
  BY DEF ReadyInv, BatchOfDistinctPendingSteps, Selected, Eligible
<1>3. Closed(Selected, SatisfiedRuns, dependencies)
  <2>. SUFFICES ASSUME NEW i \in 1..Len(ready), NEW d \in dependencies[ready[i]]
                PROVE  d \in SatisfiedRuns \cup Selected
    BY DEF Closed, Selected
  <2>1. CASE d \in SatisfiedRuns
    BY <2>1
  <2>2. ASSUME NEW j \in 1..(i - 1), ready[j] = d PROVE d \in Selected
    BY <2>2 DEF Selected, ReadyInv, ReadyTypeOK
  <2>. QED  BY <2>1, <2>2 DEF ReadyInv, BatchInDependencyOrder
<1>4. \A e \in Eligible \ Selected : ~(dependencies[e] \subseteq SatisfiedRuns \cup Selected)
  <2>1. ~progressed /\ next - 1 = N
    BY NAssumption DEF ReadyInv, DoneMeansSwept
  <2>. QED
    BY <1>1, <2>1 DEF ReadyInv, PassedOver, taskLeaseDependenciesSatisfied, Candidates
<1>. HIDE DEF Eligible, SatisfiedRuns, Selected, Closed
<1>. QED  BY <1>1, <1>2, <1>3, <1>4, ClosedAndSaturatedIsBatch

(***************************************************************************)
(* The result of readyTaskLeaseStepCandidates is the batch.                 *)
(***************************************************************************)
THEOREM SweepsReturnBatch == ReadySpec => []ReturnsBatch
  BY ReadyInvInit, ReadyInvStep, ReadyInvGivesBatch, PTL DEF ReadySpec

(***************************************************************************)
(* The batch is in dependency order, without repetitions and made of        *)
(* pending steps of the executor's location.                                *)
(***************************************************************************)
THEOREM BatchOrdered ==
    ReadySpec => [](BatchInDependencyOrder /\ BatchOfDistinctPendingSteps)
<1>1. ReadyInv => BatchInDependencyOrder /\ BatchOfDistinctPendingSteps
  BY DEF ReadyInv
<1>. QED  BY <1>1, ReadyInvInit, ReadyInvStep, PTL DEF ReadySpec
-----------------------------------------------------------------------------
(* The rollouts: any number of targets, windows and configurations.         *)

Targets == 1..RolloutSize
Started == {t \in Targets : window[t] = currentWindow}
FailedEarlier == {t \in Targets : state[t] = "FAILED" /\ window[t] # currentWindow}

(* What is in progress was started with the current window, which has at    *)
(* most as many targets as a window may have, and earlier targets never     *)
(* wait for later ones.                                                     *)
RollingInv ==
    /\ config \in RolloutConfigs
    /\ phase \in Late!Phase
    /\ currentWindow \in Nat
    /\ state \in [Targets -> Late!TargetState]
    /\ window \in [Targets -> 0..currentWindow]
    /\ \A t \in Targets : state[t] = "IN_PROGRESS" => window[t] = currentWindow /\ window[t] > 0
    /\ \A t \in Targets : window[t] > 0 => state[t] # "PENDING"
    /\ Late!StartedInOrder
    /\ currentWindow > 0 => Cardinality(Started) <= Late!effectiveWindowSize

(* While the rollout goes on its failures are below the threshold, and so   *)
(* are for ever those of earlier windows.                                   *)
FailuresInv ==
    /\ \A t \in Targets : state[t] = "FAILED" => window[t] > 0
    /\ config.maxFailedTargets > 0 =>
          /\ phase \notin Late!Stopped => Late!failed(state) < config.maxFailedTargets
          /\ Cardinality(FailedEarlier) < config.maxFailedTargets

LEMMA SameCardinality == \A S : Late!Cardinality(S) = Cardinality(S)
  BY DEF Late!Cardinality, Cardinality, Late!IsFiniteSet, IsFiniteSet

LEMMA TargetsAreNumbers == RolloutSize \in Nat /\ Targets \subseteq Nat
  BY RolloutAssumption DEF Targets

LEMMA SubsetsOfTargets ==
  ASSUME NEW S \in SUBSET Targets
  PROVE  IsFiniteSet(S) /\ Cardinality(S) \in Nat
<1>1. IsFiniteSet(Targets)
  BY TargetsAreNumbers, FS_Interval DEF Targets
<1>2. IsFiniteSet(S)
  BY <1>1, FS_Subset
<1>. QED  BY <1>2, FS_CardinalityType

LEMMA SmallerSubset ==
  ASSUME NEW S \in SUBSET Targets, NEW T \in SUBSET S
  PROVE  Cardinality(T) <= Cardinality(S)
<1>1. IsFiniteSet(S)
  BY SubsetsOfTargets
<1>. QED  BY <1>1, FS_Subset

(* What comes before a target of S, counted, tells the targets of S apart.  *)
LEMMA CountsGrow ==
  ASSUME NEW S \in SUBSET Targets, NEW t \in S, NEW u \in S, t < u
  PROVE  Cardinality({v \in S : v < t}) < Cardinality({v \in S : v < u})
<1>. DEFINE B(x) == {v \in S : v < x}
<1>1. /\ IsFiniteSet(B(t)) /\ IsFiniteSet(B(t) \cup {t}) /\ Cardinality(B(t)) \in Nat
      /\ Cardinality(B(u)) \in Nat
  BY SubsetsOfTargets, FS_AddElement
<1>2. t \notin B(t) /\ B(t) \cup {t} \subseteq B(u)
  <2>1. S \subseteq Nat
    BY TargetsAreNumbers
  <2>2. ~(t < t) /\ \A v \in S : v < t => v < u
    BY <2>1
  <2>. QED  BY <2>2
<1>3. Cardinality(B(t) \cup {t}) = Cardinality(B(t)) + 1
  BY <1>1, <1>2, FS_AddElement
<1>4. Cardinality(B(t) \cup {t}) <= Cardinality(B(u))
  BY <1>2, SmallerSubset
<1>. QED  BY <1>1, <1>3, <1>4

(* FirstOf takes no more than it may.                                       *)
LEMMA FirstOfSize ==
  ASSUME NEW S \in SUBSET Targets, NEW k \in Nat
  PROVE  /\ Late!FirstOf(S, k) \subseteq S
         /\ Cardinality(Late!FirstOf(S, k)) <= k
<1>. DEFINE F == Late!FirstOf(S, k)
            c == [t \in F |-> Cardinality({v \in S : v < t})]
            K == 0..(k - 1)
<1>1. F \subseteq S
  BY DEF Late!FirstOf
<1>2. \A t \in F : c[t] \in K
  <2>. SUFFICES ASSUME NEW t \in F PROVE c[t] \in K
    OBVIOUS
  <2>1. Cardinality({v \in S : v < t}) \in Nat
    BY SubsetsOfTargets
  <2>2. Cardinality({v \in S : v < t}) < k
    BY SameCardinality DEF Late!FirstOf
  <2>. QED  BY <2>1, <2>2
<1>3. \A t, u \in F : c[t] = c[u] => t = u
  <2>. SUFFICES ASSUME NEW t \in F, NEW u \in F, t # u
                PROVE  c[t] # c[u]
    OBVIOUS
  <2>1. t \in S /\ u \in S /\ t \in Nat /\ u \in Nat
    BY <1>1, TargetsAreNumbers
  <2>2. CASE t < u
    BY <1>2, <2>1, <2>2, CountsGrow
  <2>3. CASE u < t
    <3>1. Cardinality({v \in S : v < u}) < Cardinality({v \in S : v < t})
      BY <2>1, <2>3, CountsGrow
    <3>. QED  BY <1>2, <3>1
  <2>. QED  BY <2>1, <2>2, <2>3
<1>4. c \in Injection(F, K)
  BY <1>2, <1>3 DEF Injection, IsInjective
<1>5. IsFiniteSet(K) /\ Cardinality(K) = k
  BY FS_Interval
<1>6. Cardinality(F) <= Cardinality(K)
  BY <1>4, <1>5, FS_Injection
<1>. QED  BY <1>1, <1>5, <1>6

(* ... and leaves out no target before one that it takes.                   *)
LEMMA FirstOfIsFirst ==
  ASSUME NEW S \in SUBSET Targets, NEW k \in Nat, NEW u \in Late!FirstOf(S, k),
         NEW t \in S, t < u
  PROVE  t \in Late!FirstOf(S, k)
<1>. DEFINE B(x) == {v \in S : v < x}
<1>1. u \in S /\ Cardinality(B(u)) < k
  BY SameCardinality DEF Late!FirstOf
<1>2. Cardinality(B(t)) < Cardinality(B(u))
  BY <1>1, CountsGrow
<1>3. Cardinality(B(t)) \in Nat /\ Cardinality(B(u)) \in Nat
  BY SubsetsOfTargets
<1>4. Cardinality(B(t)) < k
  BY <1>1, <1>2, <1>3
<1>. QED  BY <1>4, SameCardinality DEF Late!FirstOf

LEMMA ConfigIsValid ==
  ASSUME config \in RolloutConfigs
  PROVE  /\ config.windowSize \in Nat \ {0}
         /\ config.maximumUnavailable \in Nat
         /\ config.maxFailedTargets \in Nat
         /\ Late!effectiveWindowSize \in Nat
         /\ Late!effectiveWindowSize <= config.windowSize
         /\ config.maximumUnavailable > 0 =>
                Late!effectiveWindowSize <= config.maximumUnavailable
<1>1. /\ config.windowSize \in Nat \ {0}
      /\ config.maximumUnavailable \in Nat
      /\ config.maxFailedTargets \in Nat
  BY RolloutAssumption DEF Once!ValidConfig
<1>. QED  BY <1>1 DEF Late!effectiveWindowSize

(* The reports made once are among those made late.                         *)
LEMMA OnceIsLate ==
  /\ Once!StartNextWindow => Late!StartNextWindow
  /\ Once!CompleteRollout => Late!CompleteRollout
  /\ \A t, s : Once!TransitionTarget(t, s) => Late!TransitionTarget(t, s)
  /\ \A st : Once!failed(st) = Late!failed(st)
  /\ Once!Targets = Targets /\ Late!Targets = Targets
<1>1. \A S : Once!Cardinality(S) = Late!Cardinality(S)
  BY DEF Once!Cardinality, Late!Cardinality, Once!IsFiniteSet, Late!IsFiniteSet
<1>2. /\ \A S, k : Once!FirstOf(S, k) = Late!FirstOf(S, k)
      /\ \A st : Once!failed(st) = Late!failed(st)
  BY <1>1 DEF Once!FirstOf, Late!FirstOf, Once!failed, Late!failed, Once!Targets, Late!Targets
<1>3. /\ Once!MayStart <=> Late!MayStart
      /\ Once!pendingTargets = Late!pendingTargets
      /\ Once!effectiveWindowSize = Late!effectiveWindowSize
      /\ Once!Targets = Late!Targets /\ Late!Targets = Targets
  BY DEF Once!MayStart, Late!MayStart, Once!currentWindowTerminal, Late!currentWindowTerminal,
         Once!pendingTargets, Late!pendingTargets, Once!effectiveWindowSize,
         Late!effectiveWindowSize, Once!Targets, Late!Targets, Once!Stopped, Late!Stopped,
         Once!Terminal, Late!Terminal, Targets
<1>4. Once!StartNextWindow => Late!StartNextWindow
  BY <1>2, <1>3 DEF Once!StartNextWindow, Late!StartNextWindow
<1>5. Once!CompleteRollout => Late!CompleteRollout
  BY <1>3 DEF Once!CompleteRollout, Late!CompleteRollout
<1>6. \A st : Once!updatePhase(st) = Late!updatePhase(st)
  BY <1>2, <1>3 DEF Once!updatePhase, Late!updatePhase, Once!failureThresholdPhase,
       Late!failureThresholdPhase, Once!AllTerminal, Late!AllTerminal, Once!thresholdAction,
       Late!thresholdAction, Once!currentWindowTerminal, Late!currentWindowTerminal,
       Once!Terminal, Late!Terminal
<1>7. \A t, s : Once!MayReport(t, s) => Late!MayReport(t, s)
  BY DEF Once!MayReport, Late!MayReport, Once!Terminal, Late!Terminal
<1>8. \A t, s : Once!TransitionTarget(t, s) => Late!TransitionTarget(t, s)
  BY <1>6, <1>7 DEF Once!TransitionTarget, Late!TransitionTarget
<1>. QED  BY <1>2, <1>3, <1>4, <1>5, <1>8

LEMMA RollingInvInit ==
  MCInit => RollingInv /\ FailuresInv
<1>. SUFFICES ASSUME MCInit PROVE RollingInv /\ FailuresInv
  OBVIOUS
<1>1. /\ config \in RolloutConfigs /\ phase = "PENDING" /\ currentWindow = 0
      /\ state = [t \in Targets |-> "PENDING"] /\ window = [t \in Targets |-> 0]
  BY RolloutAssumption DEF MCInit, IdleRolling, Late!Init, Late!Targets, Targets
<1>2. RollingInv
  BY <1>1 DEF RollingInv, Late!StartedInOrder, Late!Phase, Late!TargetState, Late!Targets, Targets
<1>3. FailedEarlier = {} /\ Late!failed(state) = 0
  <2>1. FailedEarlier = {} /\ {t \in Targets : state[t] = "FAILED"} = {}
    BY <1>1 DEF FailedEarlier
  <2>. QED  BY <2>1, SameCardinality, FS_EmptySet DEF Late!failed, Late!Targets, Targets
<1>4. config.maxFailedTargets \in Nat
  BY <1>1, ConfigIsValid
<1>5. Cardinality(FailedEarlier) = 0
  BY <1>3, FS_EmptySet
<1>. QED  BY <1>1, <1>2, <1>3, <1>4, <1>5 DEF FailuresInv

(* A window is started when no target is in progress.                       *)
LEMMA WindowStarts ==
  ASSUME RollingInv, Late!StartNextWindow
  PROVE  RollingInv'
<1>. DEFINE k == Late!effectiveWindowSize
            P == {t \in Targets : state[t] = "PENDING"}
            S == Late!FirstOf(P, k)
<1>1. /\ config' = config /\ phase' = "IN_PROGRESS" /\ currentWindow' = currentWindow + 1
      /\ state' = [t \in Targets |-> IF t \in S THEN "IN_PROGRESS" ELSE state[t]]
      /\ window' = [t \in Targets |-> IF t \in S THEN currentWindow + 1 ELSE window[t]]
      /\ Late!currentWindowTerminal(state)
  BY DEF Late!StartNextWindow, Late!MayStart, Late!pendingTargets, Late!Targets, Targets
<1>2. k \in Nat /\ P \in SUBSET Targets
  BY ConfigIsValid DEF RollingInv
<1>3. S \subseteq P /\ Cardinality(S) <= k
  BY <1>2, FirstOfSize
<1>4. \A t, u \in P : t < u /\ u \in S => t \in S
  BY <1>2, FirstOfIsFirst
<1>5. \A t \in Targets : state[t] # "IN_PROGRESS"
  BY <1>1 DEF RollingInv, Late!currentWindowTerminal, Late!Terminal, Late!Targets, Targets
<1>. HIDE DEF S, P, k
<1>6. Started' = S
  BY <1>1, <1>3 DEF Started, RollingInv, P
<1>7. Late!effectiveWindowSize' = k
  BY <1>1 DEF Late!effectiveWindowSize, k
<1>8. Late!StartedInOrder'
  <2>. SUFFICES ASSUME NEW t \in Targets, NEW u \in Targets, t < u, window'[u] > 0
                PROVE  state'[t] # "PENDING"
    BY DEF Late!StartedInOrder, Late!Targets, Targets
  <2>1. CASE u \in S
    BY <1>1, <1>3, <1>4, <2>1 DEF P
  <2>2. CASE u \notin S
    BY <1>1, <2>2 DEF RollingInv, Late!StartedInOrder, Late!Targets, Targets
  <2>. QED  BY <2>1, <2>2
<1>9. /\ config' \in RolloutConfigs /\ phase' \in Late!Phase /\ currentWindow' \in Nat
      /\ state' \in [Targets -> Late!TargetState]
      /\ window' \in [Targets -> 0..currentWindow']
  BY <1>1 DEF RollingInv, Late!Phase, Late!TargetState
<1>10. /\ \A t \in Targets : state'[t] = "IN_PROGRESS" => window'[t] = currentWindow' /\ window'[t] > 0
       /\ \A t \in Targets : window'[t] > 0 => state'[t] # "PENDING"
  BY <1>1, <1>5 DEF RollingInv
<1>. QED  BY <1>3, <1>6, <1>7, <1>8, <1>9, <1>10 DEF RollingInv

LEMMA ReportKeepsRolling ==
  ASSUME RollingInv, NEW t \in Targets, NEW s, Late!TransitionTarget(t, s)
  PROVE  /\ RollingInv'
         /\ state' = [state EXCEPT ![t] = s] /\ s \in Late!Terminal
<1>1. /\ config' = config /\ currentWindow' = currentWindow /\ window' = window
      /\ state' = [state EXCEPT ![t] = s]
      /\ phase' = Late!updatePhase(state')
      /\ s \in Late!Terminal
  BY DEF Late!TransitionTarget, Late!MayReport, Late!Terminal
<1>2. phase' \in Late!Phase
  BY <1>1 DEF Late!updatePhase, Late!Phase, Late!thresholdAction, Late!Stopped
<1>3. s \in Late!TargetState /\ s # "PENDING" /\ s # "IN_PROGRESS"
  BY <1>1 DEF Late!TargetState, Late!Terminal
<1>4. state' \in [Targets -> Late!TargetState]
  BY <1>1, <1>3 DEF RollingInv
<1>5. \A u \in Targets : state'[u] \in {"PENDING", "IN_PROGRESS"} => state'[u] = state[u]
  BY <1>1, <1>3 DEF RollingInv
<1>6. Late!StartedInOrder'
  BY <1>1, <1>5 DEF RollingInv, Late!StartedInOrder, Late!Targets, Targets
<1>7. Started' = Started /\ Late!effectiveWindowSize' = Late!effectiveWindowSize
  BY <1>1 DEF Started, Late!effectiveWindowSize
<1>. QED  BY <1>1, <1>2, <1>4, <1>5, <1>6, <1>7 DEF RollingInv

LEMMA RollingInvStep ==
  ASSUME RollingInv, Late!Next \/ UNCHANGED rollingVars
  PROVE  RollingInv'
<1>1. CASE Late!StartNextWindow
  BY <1>1, WindowStarts
<1>2. CASE Late!CompleteRollout
  BY <1>2 DEF Late!CompleteRollout, RollingInv, Late!Phase, Late!Stopped, Late!StartedInOrder,
         Late!effectiveWindowSize, Started
<1>3. ASSUME NEW t \in Late!Targets, NEW s \in Late!TargetState, Late!TransitionTarget(t, s)
      PROVE  RollingInv'
  BY <1>3, ReportKeepsRolling DEF Late!Targets, Targets
<1>4. CASE UNCHANGED rollingVars
  BY <1>4 DEF rollingVars, RollingInv, Late!StartedInOrder, Late!effectiveWindowSize, Started
<1>. QED  BY <1>1, <1>2, <1>3, <1>4 DEF Late!Next

(* The threshold is checked after each report, and what is in progress when *)
(* it is reached belongs to the current window.                             *)
LEMMA FailuresInvStep ==
  ASSUME RollingInv, FailuresInv, Once!Next
  PROVE  FailuresInv'
<1>1. CASE Once!StartNextWindow
  <2>1. Late!StartNextWindow
    BY <1>1, OnceIsLate
  <2>. DEFINE F == {t \in Targets : state[t] = "FAILED"}
              S == Late!FirstOf(Late!pendingTargets, Late!effectiveWindowSize)
  <2>2. /\ config' = config /\ phase' = "IN_PROGRESS" /\ currentWindow' = currentWindow + 1
        /\ state' = [t \in Targets |-> IF t \in S THEN "IN_PROGRESS" ELSE state[t]]
        /\ window' = [t \in Targets |-> IF t \in S THEN currentWindow + 1 ELSE window[t]]
        /\ phase \notin Late!Stopped
    BY <2>1 DEF Late!StartNextWindow, Late!MayStart, Late!Targets, Targets
  <2>3. S \subseteq {t \in Targets : state[t] = "PENDING"}
    BY DEF Late!FirstOf, Late!pendingTargets, Late!Targets, Targets
  <2>. HIDE DEF S
  <2>4. {t \in Targets : state'[t] = "FAILED"} = F /\ FailedEarlier' = F
    BY <2>2, <2>3 DEF RollingInv, FailedEarlier
  <2>5. /\ Late!failed(state') = Late!failed(state)
        /\ Cardinality(F) = Late!failed(state)
    BY <2>4, SameCardinality DEF Late!failed, Late!Targets, Targets
  <2>6. \A t \in Targets : state'[t] = "FAILED" => window'[t] > 0
    BY <2>2 DEF FailuresInv, RollingInv
  <2>. QED  BY <2>2, <2>4, <2>5, <2>6 DEF FailuresInv
<1>2. CASE Once!CompleteRollout
  <2>1. /\ phase \notin Late!Stopped /\ UNCHANGED <<config, currentWindow, state, window>>
    BY <1>2, OnceIsLate DEF Late!CompleteRollout, Late!MayStart
  <2>2. FailedEarlier' = FailedEarlier
    BY <2>1 DEF FailedEarlier
  <2>. QED  BY <2>1, <2>2 DEF FailuresInv
<1>3. ASSUME NEW t \in Once!Targets, NEW s \in Once!TargetState, Once!TransitionTarget(t, s)
      PROVE  FailuresInv'
  <2>1. t \in Targets /\ Late!TransitionTarget(t, s)
    BY <1>3, OnceIsLate
  <2>2. /\ config' = config /\ currentWindow' = currentWindow /\ window' = window
        /\ phase' = Late!updatePhase(state')
    BY <2>1 DEF Late!TransitionTarget
  <2>3. state' = [state EXCEPT ![t] = s]
    BY <2>1, ReportKeepsRolling
  <2>4. \/ state[t] = "IN_PROGRESS"
        \/ state[t] = "PENDING" /\ s = "SKIPPED"
    BY <1>3 DEF Once!TransitionTarget, Once!MayReport
  <2>5. FailedEarlier' = FailedEarlier
    BY <2>1, <2>2, <2>3, <2>4 DEF FailedEarlier, RollingInv
  <2>6. \A u \in Targets : state'[u] = "FAILED" => window'[u] > 0
    BY <2>1, <2>2, <2>3, <2>4 DEF FailuresInv, RollingInv
  <2>7. ASSUME config.maxFailedTargets > 0, phase' \notin Late!Stopped
        PROVE  Late!failed(state') < config.maxFailedTargets
    <3>1. ~Late!failureThresholdPhase(state')
      BY <2>2, <2>7 DEF Late!updatePhase, Late!thresholdAction, Late!Stopped
    <3>2. ~(Late!failed(state') >= config.maxFailedTargets)
      BY <3>1, <2>7 DEF Late!failureThresholdPhase
    <3>3. Late!failed(state') \in Nat /\ config.maxFailedTargets \in Nat
      <4>1. {u \in Targets : state'[u] = "FAILED"} \in SUBSET Targets
        OBVIOUS
      <4>. QED  BY <4>1, SubsetsOfTargets, SameCardinality, ConfigIsValid
                DEF Late!failed, Late!Targets, Targets, RollingInv
    <3>. QED  BY <3>2, <3>3
  <2>. QED  BY <2>2, <2>5, <2>6, <2>7 DEF FailuresInv
<1>. QED  BY <1>1, <1>2, <1>3 DEF Once!Next

LEMMA FailuresInvStutter ==
  ASSUME FailuresInv, UNCHANGED rollingVars
  PROVE  FailuresInv'
<1>1. FailedEarlier' = FailedEarlier
  BY DEF rollingVars, FailedEarlier
<1>. QED  BY <1>1 DEF FailuresInv, rollingVars

LEMMA RollingIsContained ==
  ASSUME RollingInv
  PROVE  Late!AtMostOneWindowInProgress /\ Late!StartedInOrder /\ Late!CanAdvance
<1>. DEFINE B == {t \in Targets : state[t] = "IN_PROGRESS"}
<1>1. /\ config.windowSize \in Nat \ {0} /\ config.maximumUnavailable \in Nat
      /\ Late!effectiveWindowSize \in Nat
      /\ Late!effectiveWindowSize <= config.windowSize
      /\ config.maximumUnavailable > 0 => Late!effectiveWindowSize <= config.maximumUnavailable
  BY ConfigIsValid DEF RollingInv
<1>2. Cardinality(B) \in Nat /\ Cardinality(B) <= Late!effectiveWindowSize
  <2>1. Cardinality(B) \in Nat
    BY SubsetsOfTargets
  <2>2. CASE currentWindow > 0
    <3>1. Started \in SUBSET Targets /\ B \subseteq Started
      BY DEF Started, RollingInv
    <3>2. Cardinality(B) <= Cardinality(Started) /\ Cardinality(Started) \in Nat
      BY <3>1, SmallerSubset, SubsetsOfTargets
    <3>. QED  BY <1>1, <2>1, <2>2, <3>2 DEF RollingInv
  <2>3. CASE currentWindow = 0
    <3>1. B = {}
      BY <2>3 DEF RollingInv
    <3>2. Cardinality(B) = 0
      BY <3>1, FS_EmptySet
    <3>. QED  BY <1>1, <3>2
  <2>. QED  BY <2>1, <2>2, <2>3 DEF RollingInv
<1>3. Late!AtMostOneWindowInProgress
  <2>1. {t \in Late!Targets : state[t] = "IN_PROGRESS"} = B
    BY DEF Late!Targets, Targets
  <2>. HIDE DEF B
  <2>. QED  BY <1>1, <1>2, <2>1, SameCardinality DEF Late!AtMostOneWindowInProgress
<1>4. Late!CanAdvance
  BY DEF RollingInv, Late!CanAdvance, Late!currentWindowTerminal, Late!TargetState,
         Late!Terminal, Late!Targets, Targets
<1>. QED  BY <1>3, <1>4 DEF RollingInv

LEMMA FailuresAreContained ==
  ASSUME RollingInv, FailuresInv
  PROVE  Once!FailuresContained
<1>. SUFFICES ASSUME config.maxFailedTargets > 0
              PROVE  Late!failed(state) <= config.maxFailedTargets - 1 + config.windowSize
  BY OnceIsLate DEF Once!FailuresContained
<1>. DEFINE F == {t \in Targets : state[t] = "FAILED"}
            Now == {t \in Targets : state[t] = "FAILED" /\ window[t] = currentWindow}
<1>1. /\ config.windowSize \in Nat \ {0} /\ config.maxFailedTargets \in Nat
      /\ Late!effectiveWindowSize \in Nat
      /\ Late!effectiveWindowSize <= config.windowSize
  BY ConfigIsValid DEF RollingInv
<1>2. /\ F = FailedEarlier \cup Now
      /\ FailedEarlier \in SUBSET Targets /\ Now \in SUBSET Targets
      /\ Started \in SUBSET Targets /\ Now \subseteq Started
      /\ FailedEarlier \cap Now = {}
  BY DEF FailedEarlier, Started
<1>3. Late!failed(state) = Cardinality(F)
  BY SameCardinality DEF Late!failed, Late!Targets, Targets
<1>. HIDE DEF F, Now
<1>4. /\ IsFiniteSet(FailedEarlier) /\ IsFiniteSet(Now)
      /\ Cardinality(FailedEarlier) \in Nat /\ Cardinality(Now) \in Nat
      /\ Cardinality(Started) \in Nat
  BY <1>2, SubsetsOfTargets
<1>5. Cardinality(F) = Cardinality(FailedEarlier) + Cardinality(Now)
  <2>1. Cardinality(FailedEarlier \cup Now)
           = Cardinality(FailedEarlier) + Cardinality(Now) - Cardinality(FailedEarlier \cap Now)
    BY <1>4, FS_Union
  <2>2. Cardinality(FailedEarlier \cap Now) = 0
    BY <1>2, FS_EmptySet
  <2>. QED  BY <1>2, <1>4, <2>1, <2>2
<1>6. Cardinality(Now) <= config.windowSize
  <2>1. CASE currentWindow = 0
    <3>1. Now = {}
      BY <2>1 DEF Now, FailuresInv, RollingInv
    <3>2. Cardinality(Now) = 0
      BY <3>1, FS_EmptySet
    <3>. QED  BY <1>1, <3>2
  <2>2. CASE currentWindow > 0
    <3>1. Cardinality(Now) <= Cardinality(Started)
      BY <1>2, SmallerSubset
    <3>. QED  BY <1>1, <1>4, <2>2, <3>1 DEF RollingInv
  <2>. QED  BY <2>1, <2>2 DEF RollingInv
<1>. QED  BY <1>1, <1>3, <1>4, <1>5, <1>6 DEF FailuresInv

(* A shift remembers the slot that serves, so a rollback restores it.       *)
BlueInv ==
    /\ {activeSlot, inactiveSlot, previousActiveSlot} \subseteq Blue!Slot
    /\ lifecycle \in {"SHIFT", "OBSERVE"} => previousActiveSlot = activeSlot

LEMMA BlueInvInit == MCInit => BlueInv
<1>. SUFFICES ASSUME MCInit PROVE BlueInv
  OBVIOUS
<1>1. /\ activeSlot = [name |-> "blue", state |-> "ACTIVE"]
      /\ inactiveSlot = [name |-> "green", state |-> "INACTIVE"]
      /\ previousActiveSlot = Blue!noSlot
      /\ lifecycle = "CREATE"
  BY DEF MCInit, IdleBlue, Blue!Init
<1>2. [name |-> "blue", state |-> "ACTIVE"] \in Blue!Slot
  BY DEF Blue!Slot, Blue!SlotName, Blue!SlotState
<1>3. [name |-> "green", state |-> "INACTIVE"] \in Blue!Slot
  BY DEF Blue!Slot, Blue!SlotName, Blue!SlotState
<1>4. Blue!noSlot \in Blue!Slot
  BY DEF Blue!Slot, Blue!SlotName, Blue!SlotState, Blue!noSlot
<1>. QED  BY <1>1, <1>2, <1>3, <1>4 DEF BlueInv

LEMMA BlueStep ==
  ASSUME BlueInv, Blue!Next \/ UNCHANGED blueVars
  PROVE  /\ BlueInv'
         /\ activeSlot'.name # activeSlot.name =>
               /\ lifecycle = "OBSERVE" /\ lifecycle' = "COMPLETED"
               /\ activeSlot'.name = inactiveSlot.name
<1>. DEFINE Moves ==
              activeSlot'.name # activeSlot.name =>
                 /\ lifecycle = "OBSERVE" /\ lifecycle' = "COMPLETED"
                 /\ activeSlot'.name = inactiveSlot.name
<1>. USE DEF BlueInv, Blue!Slot, Blue!SlotName, Blue!SlotState
<1>1. CASE Blue!StartDeployInactive
  BY <1>1 DEF Blue!StartDeployInactive
<1>2. CASE Blue!MarkInactiveDeployed
  BY <1>2 DEF Blue!MarkInactiveDeployed
<1>3. ASSUME NEW c, NEW s, Blue!RecordHealthCheck(c, s) \/ Blue!RecordObservation(c, s)
      PROVE  BlueInv' /\ Moves
  BY <1>3 DEF Blue!RecordHealthCheck, Blue!RecordObservation
<1>4. CASE Blue!PlanTrafficShift
  BY <1>4 DEF Blue!PlanTrafficShift
<1>5. CASE Blue!MarkTrafficShifted
  BY <1>5 DEF Blue!MarkTrafficShifted
<1>6. CASE Blue!Promote
  <2>1. Blue!retainedSlotState \in Blue!SlotState
    BY DEF Blue!retainedSlotState
  <2>2. /\ activeSlot' = [inactiveSlot EXCEPT !.state = "ACTIVE"]
        /\ inactiveSlot' = [name |-> "", state |-> ""]
        /\ previousActiveSlot' = [activeSlot EXCEPT !.state = Blue!retainedSlotState]
        /\ lifecycle = "OBSERVE" /\ lifecycle' = "COMPLETED"
    BY <1>6 DEF Blue!Promote, Blue!noSlot
  <2>3. /\ activeSlot'.name = inactiveSlot.name
        /\ activeSlot' \in Blue!Slot /\ inactiveSlot' \in Blue!Slot
    BY <2>2
  <2>4. previousActiveSlot' \in Blue!Slot
    BY <2>1, <2>2
  <2>. QED  BY <2>2, <2>3, <2>4
<1>7. CASE Blue!PlanRollback
  <2>1. /\ lifecycle \in {"SHIFT", "OBSERVE"} /\ lifecycle' = "ROLLBACK"
        /\ activeSlot' = [activeSlot EXCEPT !.state = "ACTIVE"]
        /\ inactiveSlot' = [inactiveSlot EXCEPT !.state = "ROLLED_BACK"]
        /\ previousActiveSlot' = previousActiveSlot
    BY <1>7 DEF Blue!PlanRollback
  <2>. QED  BY <2>1
<1>8. CASE UNCHANGED blueVars
  BY <1>8 DEF blueVars
<1>. QED  BY <1>1, <1>2, <1>3, <1>4, <1>5, <1>6, <1>7, <1>8 DEF Blue!Next

(* Each part moves its own variables.                                       *)
LEMMA PartsMove ==
  ASSUME [MCNext]_mcVars
  PROVE  /\ part' = part
         /\ Late!Next \/ UNCHANGED rollingVars
         /\ part = "rolling" => Once!Next \/ UNCHANGED rollingVars
         /\ Blue!Next \/ UNCHANGED blueVars
<1>1. CASE UNCHANGED mcVars
  BY <1>1 DEF mcVars, rolloutVars
<1>2. CASE MCNext /\ part # "rolling"
  BY <1>2 DEF MCNext, rolloutVars
<1>3. CASE MCNext /\ part = "rolling"
  <2>1. part' = part /\ Once!Next /\ UNCHANGED blueVars
    BY <1>3 DEF MCNext
  <2>2. Late!Next
    BY <2>1, OnceIsLate DEF Once!Next, Late!Next, Once!TargetState, Late!TargetState,
         Once!Terminal, Late!Terminal
  <2>. QED  BY <2>1, <2>2
<1>. QED  BY <1>1, <1>2, <1>3

(***************************************************************************)
(* The strategies contain the damage, for any number of targets, any window *)
(* and threshold and any order of calls (TransitionTarget,                  *)
(* StartNextWindow; PlanTrafficShift, Promote, PlanRollback).               *)
(***************************************************************************)
THEOREM RolloutsAreContained == MCSpec => RolloutContained
<1>. DEFINE Inv == RollingInv /\ (part = "rolling" => FailuresInv) /\ BlueInv
            Safe == /\ part = "rolling" => Once!FailuresContained
                    /\ Late!AtMostOneWindowInProgress /\ Late!StartedInOrder /\ Late!CanAdvance
            Moves == activeSlot'.name # activeSlot.name =>
                       /\ lifecycle = "OBSERVE" /\ lifecycle' = "COMPLETED"
                       /\ activeSlot'.name = inactiveSlot.name
<1>1. MCInit => Inv
  BY RollingInvInit, BlueInvInit
<1>2. ASSUME Inv, [MCNext]_mcVars
      PROVE  Inv' /\ [Moves]_Blue!vars
  <2>1. RollingInv'
    BY <1>2, PartsMove, RollingInvStep
  <2>2. part' = "rolling" => FailuresInv'
    BY <1>2, PartsMove, FailuresInvStep, FailuresInvStutter
  <2>3. BlueInv' /\ Moves
    BY <1>2, PartsMove, BlueStep
  <2>. QED  BY <2>1, <2>2, <2>3
<1>3. Inv => Safe
  BY RollingIsContained, FailuresAreContained
<1>4. MCSpec => []Safe /\ [][Moves]_Blue!vars
  <2>. HIDE DEF Inv, Safe, Moves
  <2>. QED  BY <1>1, <1>2, <1>3, PTL DEF MCSpec
<1>. QED  BY <1>4, PTL DEF RolloutContained, Blue!OnlyPromotionMovesTraffic
=============================================================================
