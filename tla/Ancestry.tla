------------------------------ MODULE Ancestry ------------------------------
(***************************************************************************)
(* The two searches of the snapshot graph that decide whether a timeline   *)
(* may move: find_common_ancestor (repo/merge.rs), the base of a merge and *)
(* the fast-forward gate of a push, and is_ancestor (acl/hook.rs), the     *)
(* gate of the timeline policy.  A push runs both, in this order, on the   *)
(* old head a and the new head b.                                          *)
(***************************************************************************)
EXTENDS Naturals

CONSTANTS
    Snapshot,  \* snapshot ids; numbers, because a BTreeSet is read in id order
    None

ASSUME AncestryAssumption == Snapshot \subseteq Nat /\ None \notin Snapshot

VARIABLES
    parents,             \* the snapshot graph
    held,                \* the snapshots in the store; any other is a leaf
    a, b,                \* the two snapshots compared
    visitedA, visitedB, frontierA, frontierB,
    grewA,               \* whether the last expansion of A's side found anything
    common,              \* what find_common_ancestor has returned
    stack, seen,
    descends,            \* what is_ancestor has returned
    pc

input == <<parents, held, a, b>>
sideA == <<visitedA, frontierA, grewA>>
sideB == <<visitedB, frontierB>>
walk == <<stack, seen, descends>>
vars == <<input, sideA, sideB, common, walk, pc>>

TypeOK ==
    /\ parents \in [Snapshot -> SUBSET Snapshot]
    /\ held \subseteq Snapshot /\ a \in Snapshot /\ b \in Snapshot
    /\ visitedA \subseteq Snapshot /\ frontierA \subseteq visitedA
    /\ visitedB \subseteq Snapshot /\ frontierB \subseteq visitedB
    /\ grewA \in BOOLEAN
    /\ common \in Snapshot \cup {None}
    /\ stack \subseteq Snapshot /\ seen \subseteq Snapshot
    /\ descends \in BOOLEAN
    /\ pc \in {"call", "expandA", "expandB", "found", "walk", "done"}

\* x and what is reached from x along the parents of the snapshots held: the
\* least set with x that holds the parents of its members.
Closed(S) == \A x \in S \cap held : parents[x] \subseteq S
Ancestors(x) == {y \in Snapshot : \A S \in SUBSET Snapshot : x \in S /\ Closed(S) => y \in S}

\* A snapshot is named by the hash of its content, parents included, so no
\* snapshot descends from itself: every set of them has one without a parent
\* in the set.
Acyclic(graph) == \A S \in (SUBSET Snapshot) \ {{}} : \E x \in S : graph[x] \cap S = {}

Init ==
    /\ parents \in {graph \in [Snapshot -> SUBSET Snapshot] : Acyclic(graph)}
    /\ held \in SUBSET Snapshot /\ a \in Snapshot /\ b \in Snapshot
    /\ visitedA = {a} /\ frontierA = {a} /\ grewA = FALSE
    /\ visitedB = {b} /\ frontierB = {b}
    /\ common = None
    /\ stack = {b} /\ seen = {} /\ descends = FALSE
    /\ pc = "call"

-----------------------------------------------------------------------------
(* find_common_ancestor: both sides grow in turn, a level at a time.       *)

Same ==
    /\ pc = "call" /\ a = b
    /\ common' = a /\ pc' = "found"
    /\ UNCHANGED <<input, sideA, sideB, walk>>

Begin ==
    /\ pc = "call" /\ a # b
    /\ pc' = "expandA"
    /\ UNCHANGED <<input, sideA, sideB, common, walk>>

\* expand_frontier: the parents not seen before become the frontier.
Expand(frontier, visited) == (UNION {parents[x] : x \in frontier \cap held}) \ visited

\* The first common id, in id order.
Meets(S) == \E x \in S : common' = x /\ \A y \in S : x <= y

\* Mutant: the first visited id is returned, common or not.
ExpandAFirst ==
    /\ pc = "expandA"
    /\ frontierA' = Expand(frontierA, visitedA)
    /\ visitedA' = visitedA \cup frontierA'
    /\ grewA' = (frontierA' # {})
    /\ \/ visitedA' \cap visitedB # {} /\ Meets(visitedA') /\ pc' = "found"
       \/ visitedA' \cap visitedB = {} /\ UNCHANGED common /\ pc' = "expandB"
    /\ UNCHANGED <<input, sideB, walk>>

ExpandA ==
    /\ pc = "expandA"
    /\ frontierA' = Expand(frontierA, visitedA)
    /\ visitedA' = visitedA \cup frontierA'
    /\ grewA' = (frontierA' # {})
    /\ \/ Meets(visitedA' \cap visitedB) /\ pc' = "found"
       \/ visitedA' \cap visitedB = {} /\ UNCHANGED common /\ pc' = "expandB"
    /\ UNCHANGED <<input, sideB, walk>>

\* Mutant: one side that has stopped growing ends the search.
ExpandBOnce ==
    /\ pc = "expandB"
    /\ frontierB' = Expand(frontierB, visitedB)
    /\ visitedB' = visitedB \cup frontierB'
    /\ \/ Meets(visitedA \cap visitedB') /\ pc' = "found"
       \/ /\ visitedA \cap visitedB' = {} /\ UNCHANGED common
          /\ pc' = IF grewA /\ frontierB' # {} THEN "expandA" ELSE "found"
    /\ UNCHANGED <<input, sideA, walk>>

\* Mutant: the search does not notice that neither side grew.
ExpandBForever ==
    /\ pc = "expandB"
    /\ frontierB' = Expand(frontierB, visitedB)
    /\ visitedB' = visitedB \cup frontierB'
    /\ \/ Meets(visitedA \cap visitedB') /\ pc' = "found"
       \/ visitedA \cap visitedB' = {} /\ UNCHANGED common /\ pc' = "expandA"
    /\ UNCHANGED <<input, sideA, walk>>

ExpandB ==
    /\ pc = "expandB"
    /\ frontierB' = Expand(frontierB, visitedB)
    /\ visitedB' = visitedB \cup frontierB'
    /\ \/ Meets(visitedA \cap visitedB') /\ pc' = "found"
       \/ /\ visitedA \cap visitedB' = {} /\ UNCHANGED common
          /\ pc' = IF grewA \/ frontierB' # {} THEN "expandA" ELSE "found"
    /\ UNCHANGED <<input, sideA, walk>>

-----------------------------------------------------------------------------
(* is_ancestor: a walk from b that stops when it meets a.                  *)

BeginWalk ==
    /\ pc = "found"
    /\ descends' = (a = b)
    /\ pc' = IF a = b THEN "done" ELSE "walk"
    /\ UNCHANGED <<input, sideA, sideB, common, stack, seen>>

\* Mutant: the walk follows the first parent of a merge only.
PopFirstParent(x) ==
    /\ pc = "walk" /\ x \in stack
    /\ LET ps == {p \in parents[x] : x \in held /\ \A q \in parents[x] : p <= q}
       IN \/ a \in ps /\ descends' = TRUE /\ pc' = "done" /\ UNCHANGED <<stack, seen>>
          \/ /\ a \notin ps
             /\ stack' = (stack \ {x}) \cup (ps \ seen)
             /\ seen' = seen \cup ps
             /\ UNCHANGED <<descends, pc>>
    /\ UNCHANGED <<input, sideA, sideB, common>>

\* The order of the stack is left open.
Pop(x) ==
    /\ pc = "walk" /\ x \in stack
    /\ LET ps == IF x \in held THEN parents[x] ELSE {}
       IN \/ a \in ps /\ descends' = TRUE /\ pc' = "done" /\ UNCHANGED <<stack, seen>>
          \/ /\ a \notin ps
             /\ stack' = (stack \ {x}) \cup (ps \ seen)
             /\ seen' = seen \cup ps
             /\ UNCHANGED <<descends, pc>>
    /\ UNCHANGED <<input, sideA, sideB, common>>

Exhausted ==
    /\ pc = "walk" /\ stack = {}
    /\ pc' = "done"
    /\ UNCHANGED <<input, sideA, sideB, common, walk>>

-----------------------------------------------------------------------------
Next ==
    \/ Same \/ Begin \/ ExpandA \/ ExpandB
    \/ BeginWalk \/ (\E x \in Snapshot : Pop(x)) \/ Exhausted

Spec == Init /\ [][Next]_vars
FairSpec == Spec /\ WF_vars(Next)
-----------------------------------------------------------------------------
(* Properties.                                                             *)

Returned == pc \in {"found", "walk", "done"}

\* find_common_ancestor returns a snapshot only if it is reached from both,
\* so a push gate that compares it with the old head admits no rewrite.
CommonIsAncestor == Returned /\ common # None => common \in Ancestors(a) \cap Ancestors(b)

\* It returns None only for histories that share nothing in this store.
NoneIsDisjoint == Returned /\ common = None => Ancestors(a) \cap Ancestors(b) = {}

\* is_ancestor decides descent, and so agrees with every push that the first
\* gate lets through.
DescentDecided == pc = "done" => (descends <=> a \in Ancestors(b))

\* Both searches end.
SearchEnds == <>(pc = "done")

\* "Finds the nearest common ancestor": none below it is common too.
CommonIsNearest ==
    Returned /\ common # None =>
        \A c \in Ancestors(a) \cap Ancestors(b) : common \in Ancestors(c) => c = common
=============================================================================
