--------------------------- MODULE AncestryProofs ---------------------------
(***************************************************************************)
(* The searches of Ancestry, proved for every graph of snapshots: what     *)
(* find_common_ancestor and is_ancestor return is right, whatever part of  *)
(* the history the store holds.                                            *)
(***************************************************************************)
EXTENDS Ancestry, TLAPS

\* Everything one side has visited is an ancestor, and what has left its
\* frontier has had its parents visited.
SideA ==
    /\ a \in visitedA /\ visitedA \subseteq Ancestors(a)
    /\ \A x \in (visitedA \ frontierA) \cap held : parents[x] \subseteq visitedA
SideB ==
    /\ b \in visitedB /\ visitedB \subseteq Ancestors(b)
    /\ \A x \in (visitedB \ frontierB) \cap held : parents[x] \subseteq visitedB

\* While the search runs, the sides have not met.
Searching ==
    /\ pc = "call" => common = None /\ visitedA = {a} /\ visitedB = {b}
    /\ pc \in {"expandA", "expandB"} => common = None /\ visitedA \cap visitedB = {}
    /\ pc = "expandB" => grewA = (frontierA # {})

\* What a search that has returned leaves behind.
Outcome ==
    /\ Returned /\ common # None => common \in Ancestors(a) \cap Ancestors(b)
    /\ Returned /\ common = None =>
          frontierA = {} /\ frontierB = {} /\ visitedA \cap visitedB = {}

\* The walk of is_ancestor: all it has seen is an ancestor of b other than
\* a, and what has left the stack has had its parents seen.
Walked ==
    /\ seen \subseteq Ancestors(b)
    /\ stack \subseteq seen \cup {b}
    /\ \A x \in ((seen \cup {b}) \ stack) \cap held : parents[x] \subseteq seen
Walk ==
    /\ pc # "done" => Walked /\ ~descends
    /\ pc \in {"call", "expandA", "expandB", "found"} => seen = {}
    /\ pc = "walk" => a \notin seen \cup {b}
    /\ DescentDecided

IInv == TypeOK /\ SideA /\ SideB /\ Searching /\ Outcome /\ Walk

-----------------------------------------------------------------------------
\* A snapshot is among its ancestors.
LEMMA Reflexive == ASSUME NEW x \in Snapshot PROVE x \in Ancestors(x)
BY Zenon DEF Ancestors

\* So are the parents of any ancestor that is stored.
LEMMA Upward ==
    ASSUME TypeOK, NEW x \in Snapshot, NEW y \in Ancestors(x) \cap held
    PROVE  parents[y] \subseteq Ancestors(x)
<1> SUFFICES ASSUME NEW z \in parents[y], NEW S \in SUBSET Snapshot, x \in S, Closed(S)
             PROVE  z \in S
    BY Zenon DEF Ancestors, TypeOK
<1>1. y \in S
    BY Zenon DEF Ancestors
<1> QED BY <1>1, Zenon DEF Closed

\* And nothing outside a set with the snapshot that is closed under parents.
LEMMA Least ==
    ASSUME NEW x \in Snapshot, NEW S \in SUBSET Snapshot, x \in S, Closed(S)
    PROVE  Ancestors(x) \subseteq S
BY Zenon DEF Ancestors

\* The searches change neither the graph nor the ancestors in it.
LEMMA Frame ==
    ASSUME UNCHANGED input
    PROVE  \A x \in Snapshot : Ancestors(x)' = Ancestors(x)
BY Zenon DEF input, Ancestors, Closed

\* A level more of one side is still a set of ancestors.
LEMMA ExpandUp ==
    ASSUME TypeOK, NEW x \in Snapshot, NEW visited \in SUBSET Ancestors(x),
           NEW frontier \in SUBSET visited
    PROVE  Expand(frontier, visited) \subseteq Ancestors(x)
<1> SUFFICES ASSUME NEW y \in frontier \cap held PROVE parents[y] \subseteq Ancestors(x)
    BY Zenon DEF Expand
<1> QED BY Upward, Zenon

LEMMA InitInv == Init => IInv
<1> SUFFICES ASSUME Init PROVE IInv
    BY Zenon
<1>1. TypeOK
    BY Zenon DEF Init, TypeOK
<1>2. a \in Ancestors(a) /\ b \in Ancestors(b)
    BY <1>1, Reflexive, Zenon DEF TypeOK
<1>3. SideA /\ SideB
    BY <1>2, Zenon DEF Init, SideA, SideB
<1>4. Searching /\ Outcome /\ Walk
    BY Zenon DEF Init, Searching, Outcome, Returned, Walk, Walked, DescentDecided
<1> QED BY <1>1, <1>3, <1>4, Zenon DEF IInv

LEMMA StepType == TypeOK /\ [Next]_vars => TypeOK'
<1> SUFFICES ASSUME TypeOK, [Next]_vars PROVE TypeOK'
    BY Zenon
<1> USE DEF TypeOK, input, sideA, sideB, walk
<1>1. CASE Same
    BY <1>1, Zenon DEF Same
<1>2. CASE Begin
    BY <1>2, Zenon DEF Begin
<1>3. CASE ExpandA
    BY <1>3 DEF ExpandA, Expand, Meets
<1>4. CASE ExpandB
    BY <1>4 DEF ExpandB, Expand, Meets
<1>5. CASE BeginWalk
    BY <1>5, Zenon DEF BeginWalk
<1>6. ASSUME NEW x \in Snapshot, Pop(x) PROVE TypeOK'
    BY <1>6, Zenon DEF Pop
<1>7. CASE Exhausted
    BY <1>7, Zenon DEF Exhausted
<1>8. CASE UNCHANGED vars
    BY <1>8, Zenon DEF vars
<1> QED BY <1>1, <1>2, <1>3, <1>4, <1>5, <1>6, <1>7, <1>8, Zenon DEF Next

\* One level of A's side keeps its invariant.
LEMMA ExpandASide ==
    ASSUME IInv, ExpandA
    PROVE  SideA' /\ visitedA' \subseteq Ancestors(a)
<1>1. UNCHANGED <<parents, held, a, b>> /\ a \in Snapshot
    BY Zenon DEF ExpandA, input, IInv, TypeOK
<1>2. Ancestors(a)' = Ancestors(a)
    BY <1>1, Frame, Zenon DEF input
<1>3. visitedA' \subseteq Ancestors(a)
    BY <1>1, ExpandUp, Zenon DEF ExpandA, IInv, SideA, TypeOK
<1>4. \A x \in (visitedA' \ frontierA') \cap held : parents[x] \subseteq visitedA'
    BY Zenon DEF ExpandA, Expand, IInv, SideA
<1> QED BY <1>1, <1>2, <1>3, <1>4, Zenon DEF SideA, ExpandA, IInv

LEMMA ExpandBSide ==
    ASSUME IInv, ExpandB
    PROVE  SideB' /\ visitedB' \subseteq Ancestors(b)
<1>1. UNCHANGED <<parents, held, a, b>> /\ b \in Snapshot
    BY Zenon DEF ExpandB, input, IInv, TypeOK
<1>2. Ancestors(b)' = Ancestors(b)
    BY <1>1, Frame, Zenon DEF input
<1>3. visitedB' \subseteq Ancestors(b)
    BY <1>1, ExpandUp, Zenon DEF ExpandB, IInv, SideB, TypeOK
<1>4. \A x \in (visitedB' \ frontierB') \cap held : parents[x] \subseteq visitedB'
    BY DEF ExpandB, Expand, IInv, SideB
<1> QED BY <1>1, <1>2, <1>3, <1>4, Zenon DEF SideB, ExpandB, IInv

LEMMA StepInv == IInv /\ [Next]_vars => IInv'
<1> SUFFICES ASSUME IInv, [Next]_vars PROVE IInv'
    BY Zenon
<1>0. TypeOK /\ TypeOK'
    BY StepType, Zenon DEF IInv
<1>1. UNCHANGED <<parents, held, a, b>>
    BY Zenon DEF Next, vars, input, Same, Begin, ExpandA, ExpandB, BeginWalk, Pop, Exhausted
<1>2. Ancestors(a)' = Ancestors(a) /\ Ancestors(b)' = Ancestors(b)
    BY <1>0, <1>1, Frame, Zenon DEF input, TypeOK
<1>3. a \in Ancestors(a) /\ b \in Ancestors(b)
    BY <1>0, Reflexive, Zenon DEF TypeOK
<1>a. ASSUME UNCHANGED sideA PROVE SideA'
    BY <1>a, <1>1, <1>2, Zenon DEF IInv, SideA, sideA
<1>b. ASSUME UNCHANGED sideB PROVE SideB'
    BY <1>b, <1>1, <1>2, Zenon DEF IInv, SideB, sideB
<1>w. ASSUME UNCHANGED walk, pc \notin {"walk", "done"}, pc' \notin {"walk", "done"} PROVE Walk'
    BY <1>w, <1>0, <1>1, <1>2, Zenon DEF IInv, Walk, Walked, DescentDecided, walk, TypeOK
<1>4. CASE Same
  <2>1. Searching' /\ Outcome'
      BY <1>4, <1>1, <1>2, <1>3, <1>0, AncestryAssumption, Zenon
         DEF Same, Searching, Outcome, Returned, TypeOK
  <2> QED BY <1>4, <2>1, <1>0, <1>a, <1>b, <1>w, Zenon DEF Same, IInv
<1>5. CASE Begin
  <2>1. Searching' /\ Outcome'
      BY <1>5, Zenon DEF Begin, IInv, Searching, Outcome, Returned, sideA, sideB, input
  <2> QED BY <1>5, <2>1, <1>0, <1>a, <1>b, <1>w, Zenon DEF Begin, IInv
<1>6. CASE ExpandA
  <2>1. SideA' /\ visitedA' \subseteq Ancestors(a) /\ visitedB \subseteq Ancestors(b)
      BY <1>6, ExpandASide, Zenon DEF IInv, SideB
  <2>2. ASSUME Meets(visitedA' \cap visitedB), pc' = "found" PROVE Searching' /\ Outcome'
    <3>1. common' \in Ancestors(a) \cap Ancestors(b)
        BY <2>1, <2>2, Zenon DEF Meets
    <3>2. common' # None
        BY <3>1, <1>0, AncestryAssumption, Zenon DEF Ancestors
    <3> QED BY <2>2, <3>1, <3>2, <1>2, Zenon DEF Searching, Outcome, Returned
  <2>3. ASSUME visitedA' \cap visitedB = {}, UNCHANGED common, pc' = "expandB"
        PROVE  Searching' /\ Outcome'
      BY <2>3, <1>6, Zenon DEF ExpandA, IInv, Searching, Outcome, Returned, sideB
  <2>4. Searching' /\ Outcome'
      BY <1>6, <2>2, <2>3, Zenon DEF ExpandA
  <2> QED BY <1>6, <2>1, <2>4, <1>0, <1>b, <1>w, Zenon DEF ExpandA, IInv
<1>7. CASE ExpandB
  <2>1. SideB' /\ visitedB' \subseteq Ancestors(b) /\ visitedA \subseteq Ancestors(a)
      BY <1>7, ExpandBSide, Zenon DEF IInv, SideA
  <2>2. ASSUME Meets(visitedA \cap visitedB'), pc' = "found" PROVE Searching' /\ Outcome'
    <3>1. common' \in Ancestors(a) \cap Ancestors(b)
        BY <2>1, <2>2, Zenon DEF Meets
    <3>2. common' # None
        BY <3>1, <1>0, AncestryAssumption, Zenon DEF Ancestors
    <3> QED BY <2>2, <3>1, <3>2, <1>2, Zenon DEF Searching, Outcome, Returned
  <2>3. ASSUME visitedA \cap visitedB' = {}, UNCHANGED common,
               pc' = IF grewA \/ frontierB' # {} THEN "expandA" ELSE "found"
        PROVE  Searching' /\ Outcome'
      BY <2>3, <1>7, Zenon DEF ExpandB, IInv, Searching, Outcome, Returned, sideA
  <2>4. Searching' /\ Outcome'
      BY <1>7, <2>2, <2>3, Zenon DEF ExpandB
  <2> QED BY <1>7, <2>1, <2>4, <1>0, <1>a, <1>w, Zenon DEF ExpandB, IInv
<1>8. CASE BeginWalk
  <2>1. Searching' /\ Outcome'
      BY <1>8, <1>1, <1>2, Zenon DEF BeginWalk, IInv, Searching, Outcome, Returned, sideA, sideB
  <2>2. Walk'
      BY <1>8, <1>0, <1>1, <1>2, <1>3, Zenon
         DEF BeginWalk, IInv, Walk, Walked, DescentDecided, TypeOK
  <2> QED BY <1>8, <2>1, <2>2, <1>0, <1>a, <1>b, Zenon DEF BeginWalk, IInv
<1>9. ASSUME NEW x \in Snapshot, Pop(x) PROVE IInv'
  <2> DEFINE ps == IF x \in held THEN parents[x] ELSE {}
  <2>0. pc = "walk" /\ x \in stack /\ Walked /\ UNCHANGED <<sideA, sideB, common>>
      BY <1>9, Zenon DEF Pop, IInv, Walk
  <2>1. Searching' /\ Outcome'
      BY <1>9, <1>1, <1>2, Zenon DEF Pop, IInv, Searching, Outcome, Returned, sideA, sideB
  <2>2. x \in Ancestors(b)
      BY <2>0, <1>3, Zenon DEF Walked
  <2>3. ps \subseteq Ancestors(b)
      BY <2>2, <1>0, Upward, Zenon DEF TypeOK
  <2>4. ASSUME a \in ps, descends' = TRUE, pc' = "done" PROVE Walk'
      BY <2>4, <2>3, <1>1, <1>2, Zenon DEF Walk, DescentDecided
  <2>5. ASSUME a \notin ps, stack' = (stack \ {x}) \cup (ps \ seen), seen' = seen \cup ps,
               UNCHANGED <<descends, pc>>
        PROVE  Walk'
    <3>1. seen' \subseteq Ancestors(b)' /\ stack' \subseteq seen' \cup {b}
        BY <2>5, <2>0, <2>3, <1>2, Zenon DEF Walked
    <3>2. \A y \in ((seen' \cup {b}) \ stack') \cap held : parents[y] \subseteq seen'
        BY <2>5, <2>0, Zenon DEF Walked
    <3>3. a \notin seen' \cup {b}
        BY <2>5, <2>0, Zenon DEF IInv, Walk
    <3> QED BY <2>5, <2>0, <3>1, <3>2, <3>3, <1>1, Zenon DEF IInv, Walk, Walked, DescentDecided
  <2>6. Walk'
      BY <1>9, <2>4, <2>5, Zenon DEF Pop
  <2> QED BY <2>0, <2>1, <2>6, <1>0, <1>a, <1>b, Zenon DEF IInv
<1>10. CASE Exhausted
  <2>0. pc = "walk" /\ stack = {} /\ Walked /\ pc' = "done" /\ UNCHANGED <<sideA, sideB, common, walk>>
      BY <1>10, Zenon DEF Exhausted, IInv, Walk
  <2>1. Searching' /\ Outcome'
      BY <2>0, <1>1, <1>2, Zenon DEF IInv, Searching, Outcome, Returned, sideA, sideB
  <2>2. Closed(seen \cup {b})
      BY <2>0, Zenon DEF Walked, Closed
  <2>3. Ancestors(b) \subseteq seen \cup {b}
      BY <2>2, <1>0, Least, Zenon DEF TypeOK
  <2>4. a \notin Ancestors(b) /\ ~descends
      BY <2>0, <2>3, Zenon DEF IInv, Walk
  <2>5. Walk'
      BY <2>0, <2>4, <1>1, <1>2, Zenon DEF Walk, DescentDecided, walk
  <2> QED BY <2>0, <2>1, <2>5, <1>0, <1>a, <1>b, Zenon DEF IInv
<1>11. CASE UNCHANGED vars
  <2>1. Searching' /\ Outcome' /\ Walk'
      BY <1>11, <1>1, <1>2, Zenon
         DEF vars, sideA, sideB, walk, IInv, Searching, Outcome, Returned, Walk, Walked, DescentDecided
  <2> QED BY <1>11, <2>1, <1>0, <1>a, <1>b, Zenon DEF vars, IInv
<1> QED BY <1>4, <1>5, <1>6, <1>7, <1>8, <1>9, <1>10, <1>11, Zenon DEF Next

\* The invariant makes None mean that the histories are disjoint: both
\* sides are closed under parents, so they hold all the ancestors.
LEMMA Disjoint == IInv => NoneIsDisjoint
<1> SUFFICES ASSUME IInv, Returned, common = None PROVE Ancestors(a) \cap Ancestors(b) = {}
    BY Zenon DEF NoneIsDisjoint
<1>1. Closed(visitedA) /\ Closed(visitedB)
    BY Zenon DEF IInv, Outcome, SideA, SideB, Closed
<1>2. Ancestors(a) \subseteq visitedA /\ Ancestors(b) \subseteq visitedB
    BY <1>1, Least, Zenon DEF IInv, TypeOK, SideA, SideB
<1> QED BY <1>2, Zenon DEF IInv, Outcome

\* What find_common_ancestor returns is an ancestor of both snapshots, on
\* every graph and whatever part of it is stored: the push gate that compares
\* it with the old head admits no rewrite of history.
THEOREM CommonIsCommon == Spec => []CommonIsAncestor
<1>1. IInv => CommonIsAncestor
    BY Zenon DEF IInv, Outcome, CommonIsAncestor
<1> QED BY InitInv, StepInv, <1>1, PTL DEF Spec

\* When it returns None, nothing in the store is reached from both.
THEOREM NoneMeansDisjoint == Spec => []NoneIsDisjoint
BY InitInv, StepInv, Disjoint, PTL DEF Spec

\* is_ancestor, the gate of the timeline policy, decides descent exactly.
THEOREM WalkDecidesDescent == Spec => []DescentDecided
<1>1. IInv => DescentDecided
    BY Zenon DEF IInv, Walk
<1> QED BY InitInv, StepInv, <1>1, PTL DEF Spec
=============================================================================
