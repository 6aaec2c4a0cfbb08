---------------------------- MODULE WalkProofs ------------------------------
(***************************************************************************)
(* The recursive function Walk is well defined in every graph.  In a graph *)
(* without cycles it is the least closed set that holds its first node.    *)
(***************************************************************************)
EXTENDS Walks, TLAPS

\* The least solution of the equation that defines a walk: the objects in
\* every set that holds the first and is closed under the edges.
Least(nodes, edges) ==
    [o \in nodes |-> {x \in nodes : \A S \in SUBSET nodes :
        o \in S /\ (\A y \in S : edges[y] \subseteq S) => x \in S}]

\* One step of a walk.
Stepped(nodes, edges, f) == [o \in nodes |-> {o} \cup UNION {f[e] : e \in edges[o]}]

\* The least solution is a solution: with o it holds what o leads to, and the
\* set of o and all that its edges lead to is closed.
LEMMA LeastSolves ==
    ASSUME NEW nodes, NEW edges \in [nodes -> SUBSET nodes]
    PROVE  Least(nodes, edges) = Stepped(nodes, edges, Least(nodes, edges))
<1> DEFINE L == Least(nodes, edges)
<1> SUFFICES ASSUME NEW o \in nodes PROVE L[o] = {o} \cup UNION {L[e] : e \in edges[o]}
    BY Zenon DEF Least, Stepped
<1> DEFINE T == {o} \cup UNION {L[e] : e \in edges[o]}
<1>1. \A e \in edges[o] : e \in nodes
    BY Zenon
<1>2. \A p \in nodes : L[p] \subseteq nodes
    BY Zenon DEF Least
<1>3. T \subseteq L[o]
  <2>1. o \in L[o]
    BY Zenon DEF Least
  <2>2. ASSUME NEW e \in edges[o], NEW x \in L[e] PROVE x \in L[o]
    <3>1. e \in nodes /\ x \in nodes
        BY <1>1, <1>2, <2>2, Zenon
    <3>2. SUFFICES ASSUME NEW S \in SUBSET nodes, o \in S, \A y \in S : edges[y] \subseteq S
                   PROVE  x \in S
        BY <3>1, Zenon DEF Least
    <3>3. e \in S
        BY <3>2, Zenon
    <3> QED BY <2>2, <3>1, <3>2, <3>3, Zenon DEF Least
  <2> QED BY <2>1, <2>2, Zenon
<1>4. L[o] \subseteq T
  <2>1. T \in SUBSET nodes /\ o \in T
    BY <1>1, <1>2, Zenon
  <2>2. ASSUME NEW y \in T, NEW z \in edges[y] PROVE z \in T
    <3>1. y \in nodes /\ z \in nodes
        BY <2>1, <2>2, Zenon
    <3>2. CASE y = o
      <4>1. z \in L[z]
        BY <3>1, Zenon DEF Least
      <4> QED BY <3>2, <4>1, <2>2, Zenon
    <3>3. CASE y # o
      <4>1. PICK e \in edges[o] : y \in L[e]
        BY <3>3, Zenon
      <4>2. z \in L[e]
        <5>1. e \in nodes
            BY <1>1, Zenon
        <5>2. SUFFICES ASSUME NEW S \in SUBSET nodes, e \in S, \A u \in S : edges[u] \subseteq S
                       PROVE  z \in S
            BY <3>1, <5>1, Zenon DEF Least
        <5>3. y \in S
            BY <4>1, <5>1, <5>2, Zenon DEF Least
        <5> QED BY <5>2, <5>3, <2>2, Zenon
      <4> QED BY <4>2, Zenon
    <3> QED BY <3>2, <3>3, Zenon
  <2>3. \A y \in T : edges[y] \subseteq T
    BY <2>2, Zenon
  <2> HIDE DEF T
  <2> QED BY <2>1, <2>3, Zenon DEF Least
<1> QED BY <1>3, <1>4, Zenon

\* So a walk is well defined, and visits its first object and what the walks
\* from there along each edge visit.
LEMMA WalkSolves ==
    ASSUME NEW nodes, NEW edges \in [nodes -> SUBSET nodes]
    PROVE  Walk(nodes, edges) = Stepped(nodes, edges, Walk(nodes, edges))
<1>1. \E f : f = [o \in nodes |-> {o} \cup UNION {f[e] : e \in edges[o]}]
    BY LeastSolves DEF Stepped
<1> QED BY <1>1, Zenon DEF Walk, Stepped

\* A walk from an object is the object and the walks from its edges.
LEMMA WalkStep ==
    ASSUME NEW nodes, NEW edges \in [nodes -> SUBSET nodes], NEW o \in nodes
    PROVE  Walk(nodes, edges)[o] = {o} \cup UNION {Walk(nodes, edges)[e] : e \in edges[o]}
BY WalkSolves DEF Stepped

\* What it visits beyond the object it visits from one of the edges.
LEMMA WalkOn ==
    ASSUME NEW nodes, NEW edges \in [nodes -> SUBSET nodes], NEW o \in nodes,
           NEW x \in Walk(nodes, edges)[o], x # o
    PROVE  \E e \in edges[o] : x \in Walk(nodes, edges)[e]
<1>1. Walk(nodes, edges)[o] = {o} \cup UNION {Walk(nodes, edges)[e] : e \in edges[o]}
    BY WalkStep
<1> QED BY <1>1, Zenon
-----------------------------------------------------------------------------
(* Graphs without cycles *)

\* No cycle: every non-empty set of nodes has one whose edges leave the set.
Acyclic(nodes, edges) == \A S \in (SUBSET nodes) \ {{}} : \E o \in S : edges[o] \cap S = {}

\* More nodes and edges leave the walks from the old nodes as they were.
LEMMA WalkStays ==
    ASSUME NEW nodes, NEW edges \in [nodes -> SUBSET nodes], Acyclic(nodes, edges),
           NEW more, NEW further \in [more -> SUBSET more],
           nodes \subseteq more, \A o \in nodes : further[o] = edges[o],
           NEW s \in nodes
    PROVE  Walk(more, further)[s] = Walk(nodes, edges)[s]
<1> DEFINE old == Walk(nodes, edges)
           new == Walk(more, further)
           Bad == {o \in nodes : new[o] # old[o]}
<1>1. old = Stepped(nodes, edges, old) /\ new = Stepped(more, further, new)
    BY WalkSolves, Zenon
<1> HIDE DEF old, new
<1>2. \A o \in nodes : old[o] = {o} \cup UNION {old[e] : e \in edges[o]}
    BY <1>1, Zenon DEF Stepped
<1>3. \A o \in nodes : new[o] = {o} \cup UNION {new[e] : e \in edges[o]}
  <2>1. \A o \in more : new[o] = {o} \cup UNION {new[e] : e \in further[o]}
    BY <1>1, Zenon DEF Stepped
  <2> QED BY <2>1, Zenon
<1>4. ASSUME Bad # {} PROVE FALSE
  <2>1. PICK o \in Bad : edges[o] \cap Bad = {}
    BY <1>4, Zenon DEF Acyclic
  <2>2. \A e \in edges[o] : e \in nodes /\ e \notin Bad
    BY <2>1, Zenon
  <2>3. \A e \in edges[o] : new[e] = old[e]
    BY <2>1, <2>2, Zenon
  <2>4. {new[e] : e \in edges[o]} = {old[e] : e \in edges[o]}
    BY <2>3, Zenon
  <2>5. o \in nodes /\ new[o] # old[o]
    BY <2>1, Zenon
  <2> QED BY <1>2, <1>3, <2>4, <2>5, Zenon
<1>5. new[s] = old[s]
    BY <1>4, Zenon
<1> QED BY <1>5, Zenon DEF old, new

\* A walk stays within every set that holds its first node and is closed
\* under the edges.
LEMMA WalkWithin ==
    ASSUME NEW nodes, NEW edges \in [nodes -> SUBSET nodes], Acyclic(nodes, edges),
           NEW S, \A y \in S \cap nodes : edges[y] \subseteq S,
           NEW s \in S \cap nodes
    PROVE  Walk(nodes, edges)[s] \subseteq S
<1> DEFINE Bad == {o \in S \cap nodes : ~(Walk(nodes, edges)[o] \subseteq S)}
<1>1. ASSUME Bad # {} PROVE FALSE
  <2>1. PICK o \in Bad : edges[o] \cap Bad = {}
    BY <1>1, Zenon DEF Acyclic
  <2>2. PICK x \in Walk(nodes, edges)[o] : x \notin S
    BY <2>1, Zenon
  <2>3. o \in nodes /\ o \in S /\ x # o
    BY <2>1, <2>2, Zenon
  <2>4. PICK e \in edges[o] : x \in Walk(nodes, edges)[e]
    BY <2>3, WalkOn, Zenon
  <2>5. e \in nodes /\ e \in S
    BY <2>3, <2>4, Zenon
  <2>6. e \in Bad
    BY <2>2, <2>4, <2>5, Zenon
  <2> QED BY <2>1, <2>4, <2>6, Zenon
<1> QED BY <1>1, Zenon

\* What a walk visits are nodes, and the walk from one of them stays inside.
LEMMA WalkThrough ==
    ASSUME NEW nodes, NEW edges \in [nodes -> SUBSET nodes], Acyclic(nodes, edges),
           NEW s \in nodes
    PROVE  \A x \in Walk(nodes, edges)[s] :
              x \in nodes /\ Walk(nodes, edges)[x] \subseteq Walk(nodes, edges)[s]
<1> DEFINE walk == Walk(nodes, edges)
           Bad == {o \in nodes : \E x \in walk[o] : ~(x \in nodes /\ walk[x] \subseteq walk[o])}
<1>1. \A o \in nodes : walk[o] = {o} \cup UNION {walk[e] : e \in edges[o]}
    BY WalkStep
<1> HIDE DEF walk
<1>2. ASSUME Bad # {} PROVE FALSE
  <2>1. PICK o \in Bad : edges[o] \cap Bad = {}
    BY <1>2, Zenon DEF Acyclic
  <2>2. PICK x \in walk[o] : ~(x \in nodes /\ walk[x] \subseteq walk[o])
    BY <2>1, Zenon
  <2>3. o \in nodes /\ x # o
    BY <2>1, <2>2, Zenon
  <2>4. PICK e \in edges[o] : x \in walk[e]
    BY <1>1, <2>2, <2>3
  <2>5. e \in nodes
    BY <2>3, <2>4, Zenon
  <2>6. e \notin Bad
    BY <2>1, <2>4, Zenon
  <2>7. x \in nodes /\ walk[x] \subseteq walk[e]
    BY <2>4, <2>5, <2>6, Zenon
  <2>8. walk[e] \subseteq walk[o]
    BY <1>1, <2>3, <2>4
  <2> QED BY <2>2, <2>7, <2>8, Zenon
<1>3. \A x \in walk[s] : x \in nodes /\ walk[x] \subseteq walk[s]
    BY <1>2, Zenon
<1> QED BY <1>3, Zenon DEF walk
=============================================================================
