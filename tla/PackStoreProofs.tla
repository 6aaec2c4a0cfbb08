-------------------------- MODULE PackStoreProofs ---------------------------
(***************************************************************************)
(* Repack and collection lose nothing that a ref needs, for every object   *)
(* graph, every number of refs and tasks and any number of crashes, where  *)
(* one process works at a time or one task collects beside the writers.    *)
(***************************************************************************)
EXTENDS PackStore, WalkProofs, TLAPS

\* The task that may repack.
Keeper(t) == Alone \/ "gc" \in Ops[t]

\* Where the indexes in memory of a task's process point.
Packed(t) == UNION {Members(q) : q \in loaded[ProcessOf[t]]}

\* What must not be lost: the objects the refs need, and those that a commit
\* under way has put and will name.
Written(t) == IF pc[t] = "commit" THEN Content[target[t]] \ want[t] ELSE {}
Promised == Needed \cup UNION {Written(t) : t \in Task}

Reach(from) == Closure([x \in Id |-> Child[x] \cup PolicyChild[x]], from, Id)

\* The heads of the refs that a collection has still to read.
Ahead(t) == {heads[r] : r \in names[t]} \ {Null}

Swings == {"read", "pack", "idx", "retire"}
Marks == {"list", "unloose", "sweep"} \cup Swings

\* Between the mark and the end of a collection every promised object is kept
\* or within grace; while refs are read it is below a ref read or to be read,
\* or within grace.
Marking(t) ==
    /\ pc[t] = "roots" =>
         /\ roots[t] \subseteq Needed
         /\ Promised \subseteq Reach(roots[t] \cup Ahead(t)) \cup (loose \ stale[t])
    /\ pc[t] \in Marks => Promised \subseteq keep[t] \cup (loose \ stale[t])

\* The new pack takes over all that the old ones are to keep.
Packing(t) ==
    /\ pc[t] \in Swings => Members(frames[t]) \subseteq keep[t]
    /\ pc[t] \in Swings \ {"retire"} => Packed(t) \cap keep[t] \subseteq Members(frames[t])
    /\ pc[t] = "idx" => frames[t] \in packFiles \ retire[t]
    /\ pc[t] = "retire" => /\ Promised \subseteq loose \cup Members(frames[t])
                           /\ \/ frames[t] = <<>>
                              \/ frames[t] \in Visible \ (retire[t] \cup unpaired[t])
    /\ pc[t] # "retire" => unpaired[t] = {}

\* Loose copies go only when a pack has the object, or nobody wants it.
Dropping(t) ==
    /\ pc[t] = "unloose" => drop[t] \subseteq Packed(t) \cap keep[t]
    /\ pc[t] = "sweep" => drop[t] \cap keep[t] = {}

\* The collector's own view of the store holds every promised object.
View(t) ==
    Keeper(t) /\ ProcessOf[t] \in opened /\ pc[t] # "retire" =>
        loaded[ProcessOf[t]] \subseteq Visible /\ Promised \subseteq loose \cup Packed(t)

Keeping(t) == Marking(t) /\ Packing(t) /\ Dropping(t) /\ View(t)

\* A commit under way stores what its target needs.
Committing(t) ==
    /\ pc[t] # "idle" => ProcessOf[t] \in opened
    /\ pc[t] \in Marks \cup {"roots"} => Keeper(t)
    /\ pc[t] = "commit" => /\ target[t] \in Target
                           /\ want[t] \subseteq Content[target[t]]
                           /\ Child[target[t]] \cap Target \subseteq Needed

\* Beside writers, packs hold only what refs need, and what a commit has yet
\* to name is within the grace window.
Beside ==
    /\ \A q \in packFiles : Members(q) \subseteq Needed
    /\ \A p \in Process : \A q \in loaded[p] : Members(q) \subseteq Needed
    /\ \A t \in Task : keep[t] \subseteq Needed
    /\ \A u \in Task : pc[u] = "commit" =>
          \A y \in Content[target[u]] \ Needed :
              y \notin aged /\ \A t \in Task : y \in loose => y \notin stale[t]

\* The hypotheses, of the theorems that need them.
Coordinated == ContentStored /\ SnapshotsOnly /\ (Alone \/ OneCollector)

Safe ==
    /\ Promised \subseteq OnDisk
    /\ \A t \in Task : Keeping(t) /\ Committing(t)
    /\ ~Alone => Beside
-----------------------------------------------------------------------------
(* Closures *)

\* The closure of a set along any part of the edges between objects holds the
\* set and what the held objects in it name, and nothing that a closed set
\* around it does not.
LEMMA Closures ==
    ASSUME NEW edges \in [Id -> SUBSET Id], NEW from \in SUBSET Id, NEW held,
           \A x \in Id : edges[x] \subseteq Child[x] \cup PolicyChild[x]
    PROVE  /\ from \subseteq Closure(edges, from, held)
           /\ Closure(edges, from, held) \subseteq Id
           /\ \A x \in Closure(edges, from, held) :
                 x \in held => edges[x] \subseteq Closure(edges, from, held)
           /\ \A S : from \subseteq S /\ (\A y \in S \cap Id : edges[y] \subseteq S)
                     => Closure(edges, from, held) \subseteq S
<1> DEFINE part == [x \in Id |-> IF x \in held THEN edges[x] ELSE {}]
           walk == Walk(Id, part)
<1>1. part \in [Id -> SUBSET Id]
    BY Zenon
<1>2. \A x \in Id : part[x] \subseteq Child[x] \cup PolicyChild[x]
    BY Zenon
<1> HIDE DEF part
<1>3. Acyclic(Id, part)
  <2> SUFFICES ASSUME NEW S \in (SUBSET Id) \ {{}} PROVE \E x \in S : part[x] \cap S = {}
    BY Zenon DEF Acyclic
  <2>1. PICK x \in S : (Child[x] \cup PolicyChild[x]) \cap S = {}
    BY PackStoreAssumption, Zenon
  <2> QED BY <1>2, <2>1, Zenon
<1>5. \A x \in Id : part[x] \subseteq edges[x] /\ (x \in held => part[x] = edges[x])
    BY Zenon DEF part
<1>6. Closure(edges, from, held) = UNION {walk[x] : x \in from}
    BY Zenon DEF Closure, part
<1>7. \A x \in Id : walk[x] = {x} \cup UNION {walk[e] : e \in part[x]}
    BY <1>1, WalkStep
<1>8. \A x \in Id : \A y \in walk[x] : y \in Id /\ walk[y] \subseteq walk[x]
    BY <1>1, <1>3, WalkThrough, Zenon
<1>9. ASSUME NEW S, from \subseteq S, \A y \in S \cap Id : edges[y] \subseteq S, NEW x \in from
      PROVE  walk[x] \subseteq S
  <2>1. \A y \in S \cap Id : part[y] \subseteq S
    BY <1>5, <1>9, Zenon
  <2>2. x \in S \cap Id
    BY <1>9, Zenon
  <2> QED BY <1>1, <1>3, <2>1, <2>2, WalkWithin, Zenon
<1>10. \A x \in Id : \A y \in walk[x] : y \in held => edges[y] \subseteq walk[x]
  <2> SUFFICES ASSUME NEW x \in Id, NEW y \in walk[x], y \in held, NEW e \in edges[y]
               PROVE  e \in walk[x]
    BY Zenon
  <2>1. y \in Id /\ walk[y] \subseteq walk[x]
    BY <1>8, Zenon
  <2>2. e \in part[y] /\ e \in Id
    BY <1>5, <2>1, Zenon
  <2>3. e \in walk[e]
    BY <1>7, <2>2, Zenon
  <2>4. e \in walk[y]
    BY <1>7, <2>1, <2>2, <2>3
  <2> QED BY <2>1, <2>4, Zenon
<1> HIDE DEF walk
<1>11. from \subseteq Closure(edges, from, held)
    BY <1>6, <1>7
<1>12. Closure(edges, from, held) \subseteq Id
    BY <1>6, <1>8
<1>13. \A x \in Closure(edges, from, held) :
          x \in held => edges[x] \subseteq Closure(edges, from, held)
    BY <1>6, <1>10, Zenon
<1>14. \A S : from \subseteq S /\ (\A y \in S \cap Id : edges[y] \subseteq S)
              => Closure(edges, from, held) \subseteq S
    BY <1>6, <1>9
<1> QED BY <1>11, <1>12, <1>13, <1>14, Zenon

\* What a set of ids reaches holds them and is closed, and is the least such
\* set.
LEMMA Reaches ==
    ASSUME NEW from \in SUBSET Id
    PROVE  /\ from \subseteq Reach(from) /\ Reach(from) \subseteq Id
           /\ \A x \in Reach(from) : Child[x] \cup PolicyChild[x] \subseteq Reach(from)
           /\ \A S : from \subseteq S /\ (\A y \in S \cap Id : Child[y] \cup PolicyChild[y] \subseteq S)
                     => Reach(from) \subseteq S
<1> DEFINE edges == [x \in Id |-> Child[x] \cup PolicyChild[x]]
<1>1. edges \in [Id -> SUBSET Id] /\ \A x \in Id : edges[x] = Child[x] \cup PolicyChild[x]
    BY PackStoreAssumption, Zenon
<1>2. Reach(from) = Closure(edges, from, Id)
    BY Zenon DEF Reach
<1> HIDE DEF edges
<1>3. /\ from \subseteq Closure(edges, from, Id)
      /\ Closure(edges, from, Id) \subseteq Id
      /\ \A x \in Closure(edges, from, Id) :
            x \in Id => edges[x] \subseteq Closure(edges, from, Id)
      /\ \A S : from \subseteq S /\ (\A y \in S \cap Id : edges[y] \subseteq S)
                => Closure(edges, from, Id) \subseteq S
    BY <1>1, Closures
<1> QED BY <1>1, <1>2, <1>3

\* What is reached from inside a reached set is in it.
LEMMA ReachWithin ==
    ASSUME NEW A \in SUBSET Id, NEW B \in SUBSET Id, A \subseteq Reach(B)
    PROVE  Reach(A) \subseteq Reach(B)
<1>1. \A y \in Reach(B) \cap Id : Child[y] \cup PolicyChild[y] \subseteq Reach(B)
    BY Reaches, Zenon
<1> QED BY <1>1, Reaches

\* A mark from ids that reach only readable objects keeps all they reach.
LEMMA MarkIsReach ==
    ASSUME SnapshotsOnly, NEW from \in SUBSET Id, NEW held, Reach(from) \subseteq held
    PROVE  Closure(Child, from, held) = Reach(from)
<1> DEFINE mk == Closure(Child, from, held)
<1>1. /\ from \subseteq mk /\ mk \subseteq Id
      /\ \A x \in mk : x \in held => Child[x] \subseteq mk
      /\ \A S : from \subseteq S /\ (\A y \in S \cap Id : Child[y] \subseteq S) => mk \subseteq S
    BY Closures, PackStoreAssumption, ZenonT(30)
<1> HIDE DEF mk
<1>2. mk \subseteq Reach(from)
    BY <1>1, Reaches, Zenon
<1>3. \A y \in mk \cap Id : Child[y] \cup PolicyChild[y] \subseteq mk
    BY <1>1, <1>2, Zenon DEF SnapshotsOnly
<1>4. Reach(from) \subseteq mk
    BY <1>1, <1>3, Reaches, Zenon
<1> QED BY <1>2, <1>4, Zenon DEF mk
-----------------------------------------------------------------------------
(* Packs *)

\* The empty sequence is a pack of nothing.
LEMMA EmptyPack == <<>> \in Pack /\ Members(<<>>) = {}
BY DEF Pack, Members

\* An ordering of a set of ids is a pack of them.
LEMMA OrderingIsPack ==
    ASSUME NEW S \in SUBSET Id, NEW q \in Orderings(S)
    PROVE  q \in Pack /\ Members(q) = S
<1>1. PICK n \in 0 .. Cardinality(S) : q \in [1 .. n -> S]
    BY Zenon DEF Orderings
<1>2. n \in Nat
    BY <1>1
<1>3. q \in Seq(S)
    BY <1>1, <1>2
<1>4. q \in Seq(Id)
    BY <1>1, <1>2
<1> QED BY <1>4, Zenon DEF Pack, Orderings

\* A pack holds ids.
LEMMA PackHoldsIds == \A q \in Pack : Members(q) \subseteq Id
BY DEF Pack, Members

\* The loose ids and then those only packs hold make a pack.
LEMMA AppendedPack ==
    ASSUME NEW A \in SUBSET Id, NEW B \in SUBSET Id, A \cap B = {},
           NEW l \in Orderings(A), NEW q \in Orderings(B)
    PROVE  l \o q \in Pack /\ Members(l \o q) = A \cup B
<1>1. l \in Seq(Id) /\ q \in Seq(Id) /\ Members(l) = A /\ Members(q) = B
    BY OrderingIsPack, Zenon DEF Pack
<1>2. l \o q \in Seq(Id) /\ Len(l \o q) = Len(l) + Len(q)
    BY <1>1
<1>3. \A i \in 1 .. Len(l) : (l \o q)[i] = l[i]
    BY <1>1
<1>4. \A i \in 1 .. Len(q) : (l \o q)[Len(l) + i] = q[i]
    BY <1>1
<1>5. DOMAIN l = 1 .. Len(l) /\ DOMAIN q = 1 .. Len(q) /\ Len(l) \in Nat /\ Len(q) \in Nat
    BY <1>1
<1>6. DOMAIN (l \o q) = 1 .. Len(l) + Len(q)
    BY <1>2
<1>7. A \cup B \subseteq Members(l \o q)
  <2>1. ASSUME NEW x \in A PROVE x \in Members(l \o q)
    <3>1. PICK i \in 1 .. Len(l) : l[i] = x
        BY <1>1, <1>5, Zenon DEF Members
    <3>2. i \in DOMAIN (l \o q) /\ (l \o q)[i] = x
        BY <1>3, <1>5, <1>6, <3>1
    <3> QED BY <3>2, Zenon DEF Members
  <2>2. ASSUME NEW x \in B PROVE x \in Members(l \o q)
    <3>1. PICK i \in 1 .. Len(q) : q[i] = x
        BY <1>1, <1>5, Zenon DEF Members
    <3>2. Len(l) + i \in DOMAIN (l \o q) /\ (l \o q)[Len(l) + i] = x
        BY <1>4, <1>5, <1>6, <3>1
    <3> QED BY <3>2, Zenon DEF Members
  <2> QED BY <2>1, <2>2, Zenon
<1>8. Members(l \o q) \subseteq A \cup B
  <2> SUFFICES ASSUME NEW i \in 1 .. Len(l) + Len(q) PROVE (l \o q)[i] \in A \cup B
    BY <1>6, Zenon DEF Members
  <2>1. CASE i \in 1 .. Len(l)
    BY <1>1, <1>3, <1>5, <2>1, Zenon DEF Members
  <2>2. CASE i \notin 1 .. Len(l)
    <3>1. PICK j \in 1 .. Len(q) : i = Len(l) + j
        <4>1. i - Len(l) \in 1 .. Len(q) /\ i = Len(l) + (i - Len(l))
            BY <1>5, <2>2
        <4> QED BY <4>1, Zenon
    <3>2. (l \o q)[i] = q[j] /\ j \in DOMAIN q
        BY <1>4, <1>5, <3>1, Zenon
    <3> QED BY <1>1, <3>2, Zenon DEF Members
  <2> QED BY <2>1, <2>2, Zenon
<1> QED BY <1>2, <1>7, <1>8, Zenon DEF Pack

\* A pack without some of its ids is a pack of the others.
LEMMA RestrictedPack ==
    ASSUME NEW q \in Pack, NEW S \in SUBSET Id, NEW k \in Restricted(q, S)
    PROVE  k \in Pack /\ Members(k) = Members(q) \cap S
<1>1. CASE Members(q) \subseteq S
    BY <1>1, Zenon DEF Restricted
<1>2. CASE ~(Members(q) \subseteq S)
  <2>1. k \in Orderings(Members(q) \cap S)
    BY <1>2, Zenon DEF Restricted
  <2> QED BY <2>1, OrderingIsPack, Zenon
<1> QED BY <1>1, <1>2, Zenon

-----------------------------------------------------------------------------
(* Types *)

\* A task that ends is idle with nothing in hand; the others keep what they
\* have.
LEMMA Ending ==
    ASSUME TypeOK, NEW T, End(T)
    PROVE  /\ \A t \in Task \cap T :
                 /\ pc'[t] = "idle" /\ target'[t] = Null /\ want'[t] = {} /\ names'[t] = {}
                 /\ roots'[t] = {} /\ stale'[t] = {} /\ keep'[t] = {} /\ frames'[t] = <<>>
                 /\ retire'[t] = {} /\ unpaired'[t] = {} /\ drop'[t] = {}
           /\ \A t \in Task \ T :
                 /\ pc'[t] = pc[t] /\ target'[t] = target[t] /\ want'[t] = want[t]
                 /\ names'[t] = names[t] /\ roots'[t] = roots[t] /\ stale'[t] = stale[t]
                 /\ keep'[t] = keep[t] /\ frames'[t] = frames[t] /\ retire'[t] = retire[t]
                 /\ unpaired'[t] = unpaired[t] /\ drop'[t] = drop[t]
           /\ pc' \in [Task -> {"idle", "commit", "roots", "list", "read", "pack", "idx",
                                "retire", "unloose", "sweep"}]
           /\ target' \in [Task -> Target \cup {Null}]
           /\ want' \in [Task -> SUBSET Id] /\ names' \in [Task -> SUBSET RefName]
           /\ roots' \in [Task -> SUBSET Target] /\ stale' \in [Task -> SUBSET Id]
           /\ keep' \in [Task -> SUBSET Id] /\ frames' \in [Task -> Pack]
           /\ retire' \in [Task -> SUBSET Pack] /\ unpaired' \in [Task -> SUBSET Pack]
           /\ drop' \in [Task -> SUBSET Id]
<1>1. /\ pc' = [t \in Task |-> IF t \in T THEN "idle" ELSE pc[t]]
      /\ target' = [t \in Task |-> IF t \in T THEN Null ELSE target[t]]
      /\ want' = [t \in Task |-> IF t \in T THEN {} ELSE want[t]]
      /\ names' = [t \in Task |-> IF t \in T THEN {} ELSE names[t]]
      /\ roots' = [t \in Task |-> IF t \in T THEN {} ELSE roots[t]]
      /\ stale' = [t \in Task |-> IF t \in T THEN {} ELSE stale[t]]
      /\ keep' = [t \in Task |-> IF t \in T THEN {} ELSE keep[t]]
      /\ frames' = [t \in Task |-> IF t \in T THEN <<>> ELSE frames[t]]
      /\ retire' = [t \in Task |-> IF t \in T THEN {} ELSE retire[t]]
      /\ unpaired' = [t \in Task |-> IF t \in T THEN {} ELSE unpaired[t]]
      /\ drop' = [t \in Task |-> IF t \in T THEN {} ELSE drop[t]]
    BY Zenon DEF End
<1>2. \A t \in Task \cap T :
         /\ pc'[t] = "idle" /\ target'[t] = Null /\ want'[t] = {} /\ names'[t] = {}
         /\ roots'[t] = {} /\ stale'[t] = {} /\ keep'[t] = {} /\ frames'[t] = <<>>
         /\ retire'[t] = {} /\ unpaired'[t] = {} /\ drop'[t] = {}
    BY <1>1, Zenon
<1>3. \A t \in Task \ T :
         /\ pc'[t] = pc[t] /\ target'[t] = target[t] /\ want'[t] = want[t]
         /\ names'[t] = names[t] /\ roots'[t] = roots[t] /\ stale'[t] = stale[t]
         /\ keep'[t] = keep[t] /\ frames'[t] = frames[t] /\ retire'[t] = retire[t]
         /\ unpaired'[t] = unpaired[t] /\ drop'[t] = drop[t]
    BY <1>1, Zenon
<1>4. /\ pc' \in [Task -> {"idle", "commit", "roots", "list", "read", "pack", "idx",
                           "retire", "unloose", "sweep"}]
      /\ target' \in [Task -> Target \cup {Null}]
      /\ want' \in [Task -> SUBSET Id] /\ names' \in [Task -> SUBSET RefName]
    BY <1>1, Zenon DEF TypeOK
<1>5. /\ roots' \in [Task -> SUBSET Target] /\ stale' \in [Task -> SUBSET Id]
      /\ keep' \in [Task -> SUBSET Id] /\ drop' \in [Task -> SUBSET Id]
    BY <1>1, Zenon DEF TypeOK
<1>6. /\ frames' \in [Task -> Pack]
      /\ retire' \in [Task -> SUBSET Pack] /\ unpaired' \in [Task -> SUBSET Pack]
    BY <1>1, EmptyPack, Zenon DEF TypeOK
<1> QED BY <1>2, <1>3, <1>4, <1>5, <1>6, Zenon

\* A step that ends tasks and changes no file, ref or pack set keeps the types.
LEMMA EndingTypes ==
    ASSUME TypeOK, NEW T, End(T), UNCHANGED <<disk, loaded, reused, ops>>,
           heads' \in [RefName -> Target \cup {Null}], opened' \subseteq Process,
           faults' \in 0 .. MaxFaults
    PROVE  TypeOK'
BY Ending, Zenon DEF TypeOK, disk

\* The operations of writers keep the types.
LEMMA WriteTypes ==
    ASSUME TypeOK, NEW t \in Task, Write(t)
    PROVE  TypeOK'
<1>1. ASSUME NEW x \in Target, BeginCommit(t, x) PROVE TypeOK'
  <2>1. ops' \in 0 .. MaxOps
    BY <1>1, PackStoreAssumption DEF TypeOK, BeginCommit, Begin
  <2>2. Content[x] \subseteq Id
    BY PackStoreAssumption, Zenon
  <2> QED BY <1>1, <2>1, <2>2, Zenon DEF TypeOK, BeginCommit, Go, disk, mark, pack
<1>2. ASSUME NEW x \in Id, Put(t, x) PROVE TypeOK'
    BY <1>2 DEF TypeOK, Put, pack
<1>3. ASSUME NEW r \in RefName, CreateRef(t, r) \/ AdvanceRef(t, r) PROVE TypeOK'
  <2>1. /\ heads' = [heads EXCEPT ![r] = target[t]] /\ End({t})
        /\ UNCHANGED <<disk, loaded, opened, reused, ops, faults>>
    BY <1>3, Zenon DEF CreateRef, AdvanceRef
  <2>2. heads' \in [RefName -> Target \cup {Null}] /\ opened' \subseteq Process
    BY <2>1, Zenon DEF TypeOK
  <2>3. faults' \in 0 .. MaxFaults
    BY <2>1, Zenon DEF TypeOK
  <2> QED BY <2>1, <2>2, <2>3, EndingTypes, Zenon
<1>4. ASSUME NEW r \in RefName, Prune(t, r) PROVE TypeOK'
  <2>1. heads' \in [RefName -> Target \cup {Null}]
    BY <1>4, Zenon DEF TypeOK, Prune
  <2>2. ops' \in 0 .. MaxOps
    BY <1>4, PackStoreAssumption DEF TypeOK, Prune, Begin
  <2> QED BY <1>4, <2>1, <2>2, Zenon DEF TypeOK, Prune, disk, mark, pack
<1>5. ASSUME NEW r \in RefName, NEW new \in RefName, Branch(t, r, new) PROVE TypeOK'
  <2>1. heads' \in [RefName -> Target \cup {Null}]
    BY <1>5, Zenon DEF TypeOK, Branch
  <2>2. ops' \in 0 .. MaxOps
    BY <1>5, PackStoreAssumption DEF TypeOK, Branch, Begin
  <2> QED BY <1>5, <2>1, <2>2, Zenon DEF TypeOK, Branch, disk, mark, pack
<1>6. ASSUME RefuseCommit(t) PROVE TypeOK'
    BY <1>6, EndingTypes, Zenon DEF TypeOK, RefuseCommit
<1> QED BY <1>1, <1>2, <1>3, <1>4, <1>5, <1>6, Zenon DEF Write

\* Marking and sweeping keep the types.
LEMMA CollectTypes ==
    ASSUME TypeOK, NEW t \in Task, Collect(t)
    PROVE  TypeOK'
<1>1. ASSUME BeginGc(t) PROVE TypeOK'
  <2>1. ops' \in 0 .. MaxOps
    BY <1>1, PackStoreAssumption DEF TypeOK, BeginGc, Begin
  <2> QED BY <1>1, <2>1, Zenon DEF TypeOK, BeginGc, Go, disk, pack
<1>2. ASSUME NEW r \in RefName, ReadRoot(t, r) PROVE TypeOK'
    BY <1>2, Zenon DEF TypeOK, ReadRoot, disk, pack
<1>3. ASSUME Mark(t) PROVE TypeOK'
  <2>1. Closure(Child, roots[t], {x \in Id : Readable(t, x)}) \subseteq Id
    <3>1. roots[t] \in SUBSET Id
        BY PackStoreAssumption, Zenon DEF TypeOK
    <3> QED BY <3>1, Closures, PackStoreAssumption
  <2> QED BY <1>3, <2>1, Zenon DEF TypeOK, Mark, Go, disk, pack
<1>4. ASSUME MarkFails(t) \/ Swept(t) PROVE TypeOK'
    BY <1>4, EndingTypes, Zenon DEF TypeOK, MarkFails, Swept
<1>5. ASSUME NEW x \in Id, SweepLoose(t, x) PROVE TypeOK'
    BY <1>5, Zenon DEF TypeOK, SweepLoose, mark
<1> QED BY <1>1, <1>2, <1>3, <1>4, <1>5, Zenon DEF Collect

\* What a repack lists: the loose and the packed ids to keep.
LEMMA Listing ==
    ASSUME TypeOK, NEW t \in Task, List(t)
    PROVE  /\ frames' \in [Task -> Pack]
           /\ Members(frames'[t]) = (loose \cup Packed(t)) \cap keep[t]
           /\ \A u \in Task \ {t} : frames'[u] = frames[u]
<1> DEFINE packs == loaded[ProcessOf[t]]
           packed == (UNION {Members(q) : q \in packs}) \ loose
<1>1. PICK l \in Orderings(loose \cap keep[t]), q \in IndexOrders(packs, packed \cap keep[t]) :
          frames' = [frames EXCEPT ![t] = l \o q]
    BY Zenon DEF List
<1>2. packs \subseteq Pack /\ packed \subseteq Id
    BY PackHoldsIds, PackStoreAssumption DEF TypeOK
<1>3. q \in Orderings(packed \cap keep[t])
    BY Zenon DEF IndexOrders
<1>4. loose \cap keep[t] \in SUBSET Id /\ packed \cap keep[t] \in SUBSET Id
    BY <1>2, Zenon DEF TypeOK
<1>5. (loose \cap keep[t]) \cap (packed \cap keep[t]) = {}
    BY Zenon
<1>6. /\ l \o q \in Pack
      /\ Members(l \o q) = (loose \cap keep[t]) \cup (packed \cap keep[t])
    BY <1>3, <1>4, <1>5, AppendedPack
<1>7. (loose \cap keep[t]) \cup (packed \cap keep[t]) = (loose \cup Packed(t)) \cap keep[t]
    BY Zenon DEF Packed
<1>8. frames'[t] = l \o q /\ \A u \in Task \ {t} : frames'[u] = frames[u]
    BY <1>1, Zenon DEF TypeOK
<1>9. frames' \in [Task -> Pack]
    BY <1>1, <1>6, Zenon DEF TypeOK
<1> QED BY <1>6, <1>7, <1>8, <1>9, Zenon

\* Repacking keeps the types.
LEMMA RepackTypes ==
    ASSUME TypeOK, NEW t \in Task, Repack(t)
    PROVE  TypeOK'
<1>1. ASSUME BeginCompact(t) PROVE TypeOK'
  <2>1. ops' \in 0 .. MaxOps
    BY <1>1, PackStoreAssumption DEF TypeOK, BeginCompact, Begin
  <2> QED BY <1>1, <2>1, Zenon DEF TypeOK, BeginCompact, Go, disk, pack
<1>2. ASSUME List(t) PROVE TypeOK'
    BY <1>2, Listing, Zenon DEF TypeOK, List, Go, disk, mark
<1>3. ASSUME Read(t) PROVE TypeOK'
  <2>1. PICK kept \in Restricted(frames[t], {x \in Id : Readable(t, x)}) :
          /\ frames' = [frames EXCEPT ![t] = kept]
          /\ IF kept = <<>>
             THEN /\ retire' = [retire EXCEPT ![t] = loaded[ProcessOf[t]]]
                  /\ Go(t, "retire")
             ELSE UNCHANGED retire /\ Go(t, "pack")
    BY <1>3, Zenon DEF Read
  <2>2. kept \in Pack
    BY RestrictedPack, Zenon DEF TypeOK
  <2>3. loaded[ProcessOf[t]] \subseteq Pack
    BY PackStoreAssumption, Zenon DEF TypeOK
  <2> QED BY <1>3, <2>1, <2>2, <2>3 DEF TypeOK, Read, Go, disk, mark
<1>4. ASSUME ReadError(t) PROVE TypeOK'
    BY <1>4, EndingTypes, Zenon DEF TypeOK, ReadError
<1>5. ASSUME WritePack(t) PROVE TypeOK'
  <2>1. loaded[ProcessOf[t]] \subseteq Pack
    BY PackStoreAssumption, Zenon DEF TypeOK
  <2>2. reused' \in BOOLEAN
    BY <1>5, Zenon DEF WritePack
  <2> QED BY <1>5, <2>1, <2>2, Zenon DEF TypeOK, WritePack, Go, mark
<1>6. ASSUME WriteIdx(t) PROVE TypeOK'
    BY <1>6, Zenon DEF TypeOK, WriteIdx, Go, mark, pack
<1>7. ASSUME NEW q \in retire[t], UnlinkPack(t, q) PROVE TypeOK'
    BY <1>7, Zenon DEF TypeOK, UnlinkPack, mark
<1>8. ASSUME UnlinkIdx(t) PROVE TypeOK'
    BY <1>8, Zenon DEF TypeOK, UnlinkIdx, mark
<1>9. ASSUME Reload(t) PROVE TypeOK'
    BY <1>9, EmptyPack, PackHoldsIds, PackStoreAssumption, Zenon
    DEF TypeOK, Reload, Go, Visible, disk, mark
<1>10. ASSUME NEW x \in Id, DeleteLoose(t, x) PROVE TypeOK'
    BY <1>10, Zenon DEF TypeOK, DeleteLoose, mark
<1>11. ASSUME Repacked(t) PROVE TypeOK'
    BY <1>11, Zenon DEF TypeOK, Repacked, Go, disk, mark
<1> QED BY <1>1, <1>2, <1>3, <1>4, <1>5, <1>6, <1>7, <1>8, <1>9, <1>10, <1>11, Zenon DEF Repack

\* Every step keeps the types.
LEMMA StepTypes == TypeOK /\ [Next]_vars => TypeOK'
<1> SUFFICES ASSUME TypeOK, [Next]_vars PROVE TypeOK'
    BY Zenon
<1>1. ASSUME NEW t \in Task, WriteFails(t) PROVE TypeOK'
    BY <1>1, EndingTypes, PackStoreAssumption DEF TypeOK, WriteFails
<1>2. ASSUME NEW p \in Process, Open(p) PROVE TypeOK'
    BY <1>2, Zenon DEF TypeOK, Open, Visible, disk, mark, pack
<1>3. ASSUME NEW p \in Process, Crash(p) PROVE TypeOK'
  <2>1. opened' \subseteq Process /\ faults' \in 0 .. MaxFaults
    BY <1>3, PackStoreAssumption DEF TypeOK, Crash
  <2>2. heads' \in [RefName -> Target \cup {Null}]
    BY <1>3, Zenon DEF TypeOK, Crash
  <2> QED BY <1>3, <2>1, <2>2, EndingTypes, Zenon DEF Crash
<1>4. ASSUME NEW x \in Id, Age(x) PROVE TypeOK'
    BY <1>4, Zenon DEF TypeOK, Age, mark, pack
<1>5. CASE UNCHANGED vars
    BY <1>5, Zenon DEF TypeOK, vars, disk, mark, pack
<1> QED BY <1>1, <1>2, <1>3, <1>4, <1>5, WriteTypes, CollectTypes, RepackTypes, Zenon DEF Next

\* The empty store has the shape.
LEMMA InitTypes == Init => TypeOK
<1>1. 0 \in 0 .. MaxOps /\ 0 \in 0 .. MaxFaults
    BY PackStoreAssumption
<1> SUFFICES ASSUME Init PROVE TypeOK
    BY Zenon
<1>2. /\ loose \subseteq Id /\ aged \subseteq loose /\ packFiles \subseteq Pack
        /\ idxFiles \subseteq Pack /\ opened \subseteq Process
        /\ loaded \in [Process -> SUBSET Pack] /\ heads \in [RefName -> Target \cup {Null}]
    BY Zenon DEF Init
<1>3. /\ pc \in [Task -> {"idle", "commit", "roots", "list", "read", "pack", "idx",
                            "retire", "unloose", "sweep"}]
        /\ target \in [Task -> Target \cup {Null}] /\ want \in [Task -> SUBSET Id]
        /\ names \in [Task -> SUBSET RefName] /\ roots \in [Task -> SUBSET Target]
        /\ stale \in [Task -> SUBSET Id] /\ keep \in [Task -> SUBSET Id]
    BY Zenon DEF Init
<1>4. /\ frames \in [Task -> Pack] /\ retire \in [Task -> SUBSET Pack]
        /\ unpaired \in [Task -> SUBSET Pack] /\ drop \in [Task -> SUBSET Id]
    BY EmptyPack, Zenon DEF Init
<1>5. reused \in BOOLEAN /\ ops \in 0 .. MaxOps /\ faults \in 0 .. MaxFaults
    BY <1>1, Zenon DEF Init
<1> QED BY <1>2, <1>3, <1>4, <1>5, Zenon DEF TypeOK

\* TypeOK: the files, the refs and the tasks keep the shape of PackStore, for
\* any number of each.
THEOREM TypeCorrect == Spec => []TypeOK
BY InitTypes, StepTypes, PTL DEF Spec

-----------------------------------------------------------------------------
(* What is needed, and who keeps it *)

\* Who may do what, under either discipline.
LEMMA Disciplines ==
    ASSUME Coordinated, NEW t \in Task, NEW u \in Task
    PROVE  /\ Keeper(t) /\ Keeper(u) => t = u
           /\ Alone => t = u
           /\ "gc" \in Ops[t] \/ "compact" \in Ops[t] => Keeper(t)
           /\ "prune" \in Ops[t] \/ "compact" \in Ops[t] \/ Reuse => Alone
<1>1. CASE Alone
    BY <1>1 DEF Alone, Keeper
<1>2. CASE ~Alone
    BY <1>2, Zenon DEF Coordinated, OneCollector, Keeper
<1> QED BY <1>1, <1>2, Zenon

\* What the refs need: their heads and all below.
LEMMA Needs ==
    ASSUME TypeOK
    PROVE  /\ {heads[r] : r \in RefName} \ {Null} \in SUBSET Id
           /\ Needed = Reach({heads[r] : r \in RefName} \ {Null})
           /\ Needed \subseteq Id
           /\ \A r \in RefName : heads[r] # Null => heads[r] \in Needed
           /\ \A x \in Needed : Child[x] \cup PolicyChild[x] \subseteq Needed
<1> DEFINE H == {heads[r] : r \in RefName} \ {Null}
<1>1. H \in SUBSET Id
  <2>1. \A r \in RefName : heads[r] \in Target \cup {Null}
    BY Zenon DEF TypeOK
  <2>2. Target \subseteq Id
    BY PackStoreAssumption, Zenon
  <2> QED BY <2>1, <2>2, Zenon
<1>2. Needed = Reach(H)
    BY Zenon DEF Needed, Reach
<1>3. \A r \in RefName : heads[r] # Null => heads[r] \in H
    BY Zenon
<1> HIDE DEF H
<1>4. /\ H \subseteq Reach(H) /\ Reach(H) \subseteq Id
      /\ \A x \in Reach(H) : Child[x] \cup PolicyChild[x] \subseteq Reach(H)
    BY <1>1, Reaches, Zenon
<1>5. /\ Needed \subseteq Id
      /\ \A r \in RefName : heads[r] # Null => heads[r] \in Needed
      /\ \A x \in Needed : Child[x] \cup PolicyChild[x] \subseteq Needed
    BY <1>2, <1>3, <1>4, Zenon
<1> QED BY <1>1, <1>2, <1>5, Zenon DEF H

\* What does not change with the variables it is about.
LEMMA Same ==
    /\ UNCHANGED heads => UNCHANGED Needed
    /\ UNCHANGED <<packFiles, idxFiles>> => UNCHANGED Visible
    /\ UNCHANGED disk => UNCHANGED OnDisk
    /\ \A t \in Task :
         /\ loaded'[ProcessOf[t]] = loaded[ProcessOf[t]] => Packed(t)' = Packed(t)
         /\ UNCHANGED heads /\ names'[t] = names[t] => Ahead(t)' = Ahead(t)
         /\ pc'[t] = pc[t] /\ target'[t] = target[t] /\ want'[t] = want[t] => Written(t)' = Written(t)
<1>1. UNCHANGED heads => UNCHANGED Needed
    BY Zenon DEF Needed
<1>2. UNCHANGED <<packFiles, idxFiles>> => UNCHANGED Visible
    BY Zenon DEF Visible
<1>3. UNCHANGED disk => UNCHANGED OnDisk
    BY Zenon DEF OnDisk, Visible, disk
<1>4. \A t \in Task : loaded'[ProcessOf[t]] = loaded[ProcessOf[t]] => Packed(t)' = Packed(t)
    BY Zenon DEF Packed
<1>5. \A t \in Task : UNCHANGED heads /\ names'[t] = names[t] => Ahead(t)' = Ahead(t)
    BY Zenon DEF Ahead
<1>6. \A t \in Task : pc'[t] = pc[t] /\ target'[t] = target[t] /\ want'[t] = want[t]
                        => Written(t)' = Written(t)
    BY Zenon DEF Written
<1> QED BY <1>1, <1>2, <1>3, <1>4, <1>5, <1>6, Zenon
-----------------------------------------------------------------------------
(* Steps seen from the other tasks *)

\* Nothing is promised of an empty store.
LEMMA InitSafe == Init => Safe
<1> SUFFICES ASSUME Init PROVE Safe
    BY Zenon
<1>1. TypeOK
    BY InitTypes, Zenon
<1>2. Needed = {}
  <2>1. {heads[r] : r \in RefName} \ {Null} = {}
    BY Zenon DEF Init
  <2>2. Reach({}) \subseteq {}
    BY Reaches
  <2> QED BY <1>1, <2>1, <2>2, Needs, Zenon
<1>3. \A t \in Task : pc[t] = "idle" /\ unpaired[t] = {} /\ keep[t] = {} /\ ProcessOf[t] \notin opened
    BY Zenon DEF Init
<1>4. \A t \in Task : Written(t) = {}
    BY <1>3, Zenon DEF Written
<1>5. Promised = {}
    BY <1>2, <1>4, Zenon DEF Promised
<1>6. \A t \in Task : Keeping(t)
    BY <1>3, Zenon DEF Keeping, Marking, Packing, Dropping, View, Marks, Swings
<1>7. \A t \in Task : Committing(t)
    BY <1>3, Zenon DEF Committing, Marks, Swings
<1>8. Beside
    BY <1>3, Zenon DEF Beside, Init
<1> QED BY <1>5, <1>6, <1>7, <1>8, Zenon DEF Safe

\* Tasks that end, by an error, a refusal or a crash, take nothing with them.
LEMMA EndSafe ==
    ASSUME TypeOK, Safe, NEW T, End(T), UNCHANGED <<disk, loaded, heads>>, opened' \subseteq opened,
           \A t \in Task \ T : ProcessOf[t] \in opened => ProcessOf[t] \in opened',
           \A t \in Task \cap T : pc[t] # "retire" \/ ProcessOf[t] \notin opened'
    PROVE  Safe'
<1>1. UNCHANGED <<Needed, Visible, OnDisk, loose, aged, packFiles>>
    BY Same, Zenon DEF disk
<1>2. \A t \in Task : Written(t)' \subseteq Written(t)
    BY Ending, Zenon DEF Written
<1>3. Promised' \subseteq Promised
    BY <1>1, <1>2 DEF Promised
<1>4. ASSUME NEW t \in Task, t \in T PROVE Keeping(t)' /\ Committing(t)'
  <2>1. pc'[t] = "idle" /\ unpaired'[t] = {}
    BY <1>4, Ending
  <2>2. Marking(t)' /\ Packing(t)' /\ Dropping(t)' /\ Committing(t)'
    BY <2>1, Zenon DEF Marking, Packing, Dropping, Committing, Marks, Swings
  <2>3. View(t)'
    <3>1. Packed(t)' = Packed(t)
        BY Same, Zenon
    <3>2. View(t)
        BY Zenon DEF Safe, Keeping
    <3> QED BY <1>1, <1>3, <1>4, <3>1, <3>2, Zenon DEF View, Keeper
  <2> QED BY <2>2, <2>3, Zenon DEF Keeping
<1>5. ASSUME NEW t \in Task, t \notin T PROVE Keeping(t)' /\ Committing(t)'
  <2>1. /\ pc'[t] = pc[t] /\ target'[t] = target[t] /\ want'[t] = want[t]
        /\ names'[t] = names[t] /\ roots'[t] = roots[t] /\ stale'[t] = stale[t]
        /\ keep'[t] = keep[t] /\ frames'[t] = frames[t] /\ retire'[t] = retire[t]
        /\ unpaired'[t] = unpaired[t] /\ drop'[t] = drop[t]
    BY <1>5, Ending
  <2>2. Packed(t)' = Packed(t) /\ Ahead(t)' = Ahead(t)
    BY <2>1, Same, Zenon
  <2>3. Marking(t) /\ Packing(t) /\ Dropping(t) /\ View(t) /\ Committing(t)
    BY Zenon DEF Safe, Keeping
  <2>4. Marking(t)'
    BY <1>1, <1>3, <2>1, <2>2, <2>3, Zenon DEF Marking
  <2>5. Packing(t)' /\ Dropping(t)'
    BY <1>1, <1>3, <2>1, <2>2, <2>3, Zenon DEF Packing, Dropping
  <2>6. View(t)' /\ Committing(t)'
    BY <1>1, <1>3, <1>5, <2>1, <2>2, <2>3, Zenon DEF View, Committing, Keeper
  <2> QED BY <2>4, <2>5, <2>6, Zenon DEF Keeping
<1>6. ASSUME ~Alone PROVE Beside'
  <2>1. Beside
    BY <1>6, Zenon DEF Safe
  <2>2. \A t \in Task : keep'[t] \subseteq keep[t] /\ stale'[t] \subseteq stale[t]
    BY Ending, Zenon
  <2>3. \A t \in Task : pc'[t] = "commit" => pc[t] = "commit" /\ target'[t] = target[t]
    BY Ending, Zenon
  <2> QED BY <1>1, <2>1, <2>2, <2>3, Zenon DEF Beside
<1>7. Promised' \subseteq OnDisk'
    BY <1>1, <1>3, Zenon DEF Safe
<1> QED BY <1>4, <1>5, <1>6, <1>7, Zenon DEF Safe

\* What a collection holds stays true while others put objects that are within
\* its window and move refs forward.
LEMMA Bystander ==
    ASSUME TypeOK, Safe, NEW t \in Task,
           pc'[t] = pc[t], names'[t] = names[t], roots'[t] = roots[t], keep'[t] = keep[t],
           frames'[t] = frames[t], retire'[t] = retire[t], unpaired'[t] = unpaired[t],
           drop'[t] = drop[t], stale'[t] \subseteq stale[t],
           UNCHANGED <<packFiles, idxFiles, loaded, opened>>, loose \subseteq loose',
           Needed \subseteq Needed', Promised' \subseteq Promised \cup (loose' \ stale'[t]),
           Reach(roots[t] \cup Ahead(t)) \subseteq Reach(roots[t] \cup Ahead(t)')
    PROVE  Keeping(t)'
<1>1. Visible' = Visible /\ Packed(t)' = Packed(t)
    BY Same, Zenon
<1>2. Marking(t) /\ Packing(t) /\ Dropping(t) /\ View(t)
    BY Zenon DEF Safe, Keeping
<1>3. Marking(t)'
    BY <1>2, Zenon DEF Marking
<1>4. Packing(t)' /\ Dropping(t)'
    BY <1>1, <1>2, Zenon DEF Packing, Dropping
<1>5. View(t)'
    BY <1>1, <1>2, Zenon DEF View, Keeper
<1> QED BY <1>3, <1>4, <1>5, Zenon DEF Keeping

\* A step of the collector leaves what the refs need, what is promised and
\* what the other tasks hold.
LEMMA KeeperStep ==
    ASSUME TypeOK, Safe, Coordinated, NEW k \in Task,
           pc[k] \in Marks \cup {"roots"}, pc'[k] \in Marks \cup {"roots"},
           \A t \in Task \ {k} : pc'[t] = pc[t] /\ unpaired'[t] = unpaired[t],
           UNCHANGED <<heads, opened, target, want>>
    PROVE  /\ Needed' = Needed /\ Promised' = Promised
           /\ \A t \in Task \ {k} : Keeping(t)'
           /\ \A t \in Task : Committing(t)'
           /\ ProcessOf[k] \in opened /\ Keeper(k)
<1>1. Needed' = Needed
    BY Same, Zenon
<1>2. Written(k) = {} /\ Written(k)' = {}
    BY Zenon DEF Written, Marks, Swings
<1>3. \A t \in Task \ {k} : Written(t)' = Written(t)
    BY Same, Zenon
<1>4. Promised' = Promised
    BY <1>1, <1>2, <1>3, Zenon DEF Promised
<1>5. \A t \in Task : Committing(t) /\ Packing(t)
    BY Zenon DEF Safe, Keeping
<1>6. pc[k] # "idle" /\ pc'[k] # "idle" /\ pc'[k] # "commit"
    BY Zenon DEF Marks, Swings
<1>7. ProcessOf[k] \in opened /\ Keeper(k)
    BY <1>5, <1>6, Zenon DEF Committing
<1>8. \A t \in Task : Committing(t)'
    BY <1>1, <1>5, <1>6, <1>7, Zenon DEF Committing, Keeper
<1>9. ASSUME NEW t \in Task \ {k} PROVE Keeping(t)'
  <2>1. ~Keeper(t)
    BY <1>7, Disciplines, Zenon
  <2>2. pc'[t] \notin Marks \cup {"roots"}
    BY <1>5, <2>1, Zenon DEF Committing
  <2>3. unpaired'[t] = {}
    BY <1>5, <2>2, Zenon DEF Packing, Marks, Swings
  <2>4. Marking(t)' /\ Packing(t)' /\ Dropping(t)'
    BY <2>2, <2>3, Zenon DEF Marking, Packing, Dropping, Marks, Swings
  <2>5. View(t)'
    BY <2>1, Zenon DEF View, Keeper
  <2> QED BY <2>4, <2>5, Zenon DEF Keeping
<1> QED BY <1>1, <1>4, <1>7, <1>8, <1>9, Zenon
-----------------------------------------------------------------------------
(* Writers *)

\* A ref that is created, or moved to a child of its head, leaves reachable
\* what was, from any of the refs.
LEMMA ForwardMove ==
    ASSUME TypeOK, TypeOK', NEW r \in RefName, NEW x \in Id,
           heads' = [heads EXCEPT ![r] = x], heads[r] = Null \/ heads[r] \in Child[x],
           NEW N \in SUBSET RefName, NEW R \in SUBSET Id
    PROVE  Reach(R \cup ({heads[n] : n \in N} \ {Null}))
             \subseteq Reach(R \cup ({heads'[n] : n \in N} \ {Null}))
<1> DEFINE A == R \cup ({heads[n] : n \in N} \ {Null})
           B == R \cup ({heads'[n] : n \in N} \ {Null})
<1>1. A \in SUBSET Id
  <2>1. {heads[n] : n \in RefName} \ {Null} \in SUBSET Id
    BY Needs, Zenon
  <2> QED BY <2>1, Zenon
<1>2. B \in SUBSET Id
  <2>1. \A n \in RefName : heads'[n] \in Target \cup {Null}
    BY Zenon DEF TypeOK
  <2>2. Target \subseteq Id
    BY PackStoreAssumption, Zenon
  <2> QED BY <2>1, <2>2, Zenon
<1>3. \A n \in RefName : heads'[n] = IF n = r THEN x ELSE heads[n]
    BY Zenon DEF TypeOK
<1>4. x # Null
    BY PackStoreAssumption, Zenon
<1>5. B \subseteq Reach(B) /\ \A y \in Reach(B) : Child[y] \subseteq Reach(B)
  <2> HIDE DEF B
  <2> QED BY <1>2, Reaches, Zenon
<1>6. ASSUME NEW y \in A PROVE y \in Reach(B)
  <2>1. CASE y \in R
    BY <1>5, <2>1, Zenon
  <2>2. CASE y \notin R
    <3>1. PICK n \in N : y = heads[n] /\ y # Null
        BY <1>6, <2>2, Zenon
    <3>2. CASE n # r
        BY <1>3, <1>5, <3>1, <3>2, ZenonT(30)
    <3>3. CASE n = r
      <4>1. x \in B
        BY <1>3, <1>4, <3>3, Zenon
      <4>2. y \in Child[x]
        BY <3>1, <3>3, Zenon
      <4> HIDE DEF B
      <4> QED BY <1>5, <4>1, <4>2, Zenon
    <3> QED BY <3>2, <3>3, Zenon
  <2> QED BY <2>1, <2>2, Zenon
<1> HIDE DEF A, B
<1>7. Reach(A) \subseteq Reach(B)
    BY <1>1, <1>2, <1>6, ReachWithin, Zenon
<1> QED BY <1>7, Zenon DEF A, B

\* The same for what all refs need and for what a collection has in view.
LEMMA ForwardNeeds ==
    ASSUME TypeOK, TypeOK', NEW r \in RefName, NEW x \in Id,
           heads' = [heads EXCEPT ![r] = x], heads[r] = Null \/ heads[r] \in Child[x]
    PROVE  /\ Needed \subseteq Needed'
           /\ \A t \in Task : names'[t] = names[t] =>
                 Reach(roots[t] \cup Ahead(t)) \subseteq Reach(roots[t] \cup Ahead(t)')
<1>1. Needed \subseteq Needed'
  <2>1. {} \cup ({heads[n] : n \in RefName} \ {Null}) = {heads[n] : n \in RefName} \ {Null}
    BY Zenon
  <2>2. {} \cup ({heads'[n] : n \in RefName} \ {Null}) = {heads'[n] : n \in RefName} \ {Null}
    BY Zenon
  <2>3. Reach({} \cup ({heads[n] : n \in RefName} \ {Null}))
          \subseteq Reach({} \cup ({heads'[n] : n \in RefName} \ {Null}))
    BY ForwardMove, Zenon
  <2>4. Needed = Reach({heads[n] : n \in RefName} \ {Null})
    BY Needs, Zenon
  <2>5. Needed' = Reach({heads'[n] : n \in RefName} \ {Null})
    BY Zenon DEF Needed, Reach
  <2> QED BY <2>1, <2>2, <2>3, <2>4, <2>5, Zenon
<1>2. ASSUME NEW t \in Task, names'[t] = names[t]
      PROVE  Reach(roots[t] \cup Ahead(t)) \subseteq Reach(roots[t] \cup Ahead(t)')
  <2>1. roots[t] \in SUBSET Id /\ names[t] \in SUBSET RefName
    BY PackStoreAssumption, Zenon DEF TypeOK
  <2>2. Ahead(t) = {heads[n] : n \in names[t]} \ {Null}
    BY Zenon DEF Ahead
  <2>3. Ahead(t)' = {heads'[n] : n \in names[t]} \ {Null}
    BY <1>2, Zenon DEF Ahead
  <2>4. Reach(roots[t] \cup ({heads[n] : n \in names[t]} \ {Null}))
          \subseteq Reach(roots[t] \cup ({heads'[n] : n \in names[t]} \ {Null}))
    BY <2>1, ForwardMove, Zenon
  <2> QED BY <2>2, <2>3, <2>4, Zenon
<1> QED BY <1>1, <1>2, Zenon

\* After a commit has named its target, the refs need what they needed and
\* what the commit stored.
LEMMA CommittedNeeds ==
    ASSUME TypeOK, TypeOK', Coordinated, NEW r \in RefName, NEW x \in Target,
           heads' = [heads EXCEPT ![r] = x], Child[x] \cap Target \subseteq Needed
    PROVE  Needed' \subseteq Needed \cup Content[x]
<1> DEFINE S == Needed \cup Content[x]
           B == {heads'[n] : n \in RefName} \ {Null}
<1>1. x \in Content[x] /\ \A y \in Content[x] : Child[y] \subseteq Content[x] \cup (Child[x] \cap Target)
    BY Zenon DEF Coordinated, ContentStored
<1>2. \A y \in S \cap Id : Child[y] \cup PolicyChild[y] \subseteq S
    BY <1>1, Needs, Zenon DEF Coordinated, SnapshotsOnly
<1>3. \A n \in RefName : heads'[n] = IF n = r THEN x ELSE heads[n]
    BY Zenon DEF TypeOK
<1>4. B \subseteq S
    BY <1>1, <1>3, Needs, Zenon
<1>5. B \in SUBSET Id
  <2>1. \A n \in RefName : heads'[n] \in Target \cup {Null}
    BY Zenon DEF TypeOK
  <2>2. Target \subseteq Id
    BY PackStoreAssumption, Zenon
  <2> QED BY <2>1, <2>2, Zenon
<1>6. Needed' = Reach(B)
    BY Zenon DEF Needed, Reach
<1> HIDE DEF B, S
<1>7. Reach(B) \subseteq S
    BY <1>2, <1>4, <1>5, Reaches, Zenon
<1> QED BY <1>6, <1>7, Zenon DEF S

\* A commit that names its target turns what it wrote into what refs need.
LEMMA NameSafe ==
    ASSUME TypeOK, TypeOK', Safe, Coordinated, NEW t \in Task, NEW r \in RefName,
           CreateRef(t, r) \/ AdvanceRef(t, r)
    PROVE  Safe'
<1> DEFINE x == target[t]
<1>1. /\ pc[t] = "commit" /\ want[t] = {} /\ (heads[r] = Null \/ heads[r] \in Child[x])
      /\ heads' = [heads EXCEPT ![r] = x] /\ End({t})
      /\ UNCHANGED <<disk, loaded, opened>>
    BY Zenon DEF CreateRef, AdvanceRef
<1>2. x \in Target /\ Child[x] \cap Target \subseteq Needed /\ x \in Id /\ ProcessOf[t] \in opened
    BY <1>1, PackStoreAssumption, Zenon DEF Safe, Committing
<1> HIDE DEF x
<1>3. /\ Needed \subseteq Needed' /\ Needed' \subseteq Needed \cup Content[x]
      /\ \A u \in Task : names'[u] = names[u] =>
            Reach(roots[u] \cup Ahead(u)) \subseteq Reach(roots[u] \cup Ahead(u)')
    BY <1>1, <1>2, ForwardNeeds, CommittedNeeds, Zenon
<1>4. Written(t) = Content[x]
    BY <1>1, Zenon DEF Written, x
<1>5. \A u \in Task : Written(u)' \subseteq Written(u)
    BY <1>1, Ending DEF Written
<1>6. Promised' \subseteq Promised
    BY <1>3, <1>4, <1>5, ZenonT(30) DEF Promised
<1>7. UNCHANGED <<loose, aged, packFiles, idxFiles, Visible, OnDisk>>
    BY <1>1, Same, Zenon DEF disk
<1>8. Keeping(t)' /\ Committing(t)'
  <2>1. pc'[t] = "idle" /\ unpaired'[t] = {}
    BY <1>1, Ending
  <2>2. Marking(t)' /\ Packing(t)' /\ Dropping(t)' /\ Committing(t)'
    BY <2>1, Zenon DEF Marking, Packing, Dropping, Committing, Marks, Swings
  <2>3. Packed(t)' = Packed(t)
    BY <1>1, Same, Zenon
  <2>4. View(t)'
    BY <1>1, <1>6, <1>7, <2>3, Zenon DEF View, Keeper, Safe, Keeping
  <2> QED BY <2>2, <2>4, Zenon DEF Keeping
<1>9. ASSUME NEW u \in Task \ {t} PROVE Keeping(u)' /\ Committing(u)'
  <2>1. /\ pc'[u] = pc[u] /\ target'[u] = target[u] /\ want'[u] = want[u]
        /\ names'[u] = names[u] /\ roots'[u] = roots[u] /\ stale'[u] = stale[u]
        /\ keep'[u] = keep[u] /\ frames'[u] = frames[u] /\ retire'[u] = retire[u]
        /\ unpaired'[u] = unpaired[u] /\ drop'[u] = drop[u]
    BY <1>1, Ending
  <2>2. Keeping(u)'
    BY <1>1, <1>3, <1>6, <1>7, <2>1, Bystander, Zenon
  <2>3. Committing(u)'
    BY <1>1, <1>3, <2>1, Zenon DEF Committing, Safe, Keeper
  <2> QED BY <2>2, <2>3, Zenon
<1>10. ASSUME ~Alone PROVE Beside'
  <2>1. Beside
    BY <1>10, Zenon DEF Safe
  <2>2. \A u \in Task : keep'[u] \subseteq keep[u] /\ stale'[u] \subseteq stale[u]
    BY <1>1, Ending, Zenon
  <2>3. \A u \in Task : pc'[u] = "commit" => pc[u] = "commit" /\ target'[u] = target[u]
    BY <1>1, Ending, Zenon
  <2> QED BY <1>1, <1>3, <1>7, <2>1, <2>2, <2>3, Zenon DEF Beside
<1>11. Promised' \subseteq OnDisk'
    BY <1>6, <1>7, Zenon DEF Safe
<1> QED BY <1>8, <1>9, <1>10, <1>11, Zenon DEF Safe

\* A ref at the head of another adds nothing to what refs need.
LEMMA BranchSafe ==
    ASSUME TypeOK, TypeOK', Safe, Coordinated, NEW t \in Task,
           NEW r \in RefName, NEW new \in RefName, Branch(t, r, new)
    PROVE  Safe'
<1>1. /\ heads[r] # Null /\ heads[new] = Null /\ heads' = [heads EXCEPT ![new] = heads[r]]
      /\ UNCHANGED <<disk, loaded, opened, pc, target, want, mark, pack>>
    BY Zenon DEF Branch
<1>2. heads[r] \in Id
    BY <1>1, Needs, Zenon
<1>3. /\ Needed \subseteq Needed'
      /\ \A u \in Task : Reach(roots[u] \cup Ahead(u)) \subseteq Reach(roots[u] \cup Ahead(u)')
    BY <1>1, <1>2, ForwardNeeds, Zenon DEF mark
<1>4. Needed' \subseteq Needed
  <2> DEFINE B == {heads'[n] : n \in RefName} \ {Null}
  <2>1. \A n \in RefName : heads'[n] = IF n = new THEN heads[r] ELSE heads[n]
    BY <1>1, Zenon DEF TypeOK
  <2>2. B \subseteq Needed /\ B \in SUBSET Id
    BY <1>1, <2>1, Needs, Zenon
  <2>3. Needed' = Reach(B)
    BY Zenon DEF Needed, Reach
  <2>4. \A y \in Needed \cap Id : Child[y] \cup PolicyChild[y] \subseteq Needed
    BY Needs, Zenon
  <2> HIDE DEF B
  <2> QED BY <2>2, <2>3, <2>4, Reaches, Zenon
<1>5. UNCHANGED Promised
  <2>1. \A u \in Task : Written(u)' = Written(u)
    BY <1>1, Same, Zenon
  <2> QED BY <1>3, <1>4, <2>1, Zenon DEF Promised
<1>6. UNCHANGED <<loose, aged, packFiles, idxFiles, OnDisk, names, roots, stale, keep,
                  frames, retire, unpaired, drop>>
    BY <1>1, Same, Zenon DEF disk, mark, pack
<1>7. \A u \in Task : Keeping(u)'
    BY <1>1, <1>3, <1>5, <1>6, Bystander, Zenon
<1>8. \A u \in Task : Committing(u)'
    BY <1>1, <1>3, Zenon DEF Committing, Safe, Keeper
<1>9. ~Alone => Beside'
    BY <1>1, <1>3, <1>6, Zenon DEF Beside, Safe
<1> QED BY <1>5, <1>6, <1>7, <1>8, <1>9, Zenon DEF Safe

\* A ref is deleted by a process that works alone, between its operations.
LEMMA PruneSafe ==
    ASSUME TypeOK, TypeOK', Safe, Coordinated, NEW t \in Task, NEW r \in RefName, Prune(t, r)
    PROVE  Safe'
<1>1. /\ heads' = [heads EXCEPT ![r] = Null] /\ pc[t] = "idle" /\ "prune" \in Ops[t]
      /\ UNCHANGED <<disk, loaded, opened, pc, target, want, mark, pack>>
    BY Zenon DEF Prune, Begin
<1>2. Alone /\ \A u \in Task : u = t
    BY <1>1, Disciplines, Zenon
<1>3. Needed' \subseteq Needed
  <2> DEFINE B == {heads'[n] : n \in RefName} \ {Null}
  <2>1. \A n \in RefName : heads'[n] = IF n = r THEN Null ELSE heads[n]
    BY <1>1, Zenon DEF TypeOK
  <2>2. B \subseteq Needed /\ B \in SUBSET Id
    BY <1>1, <2>1, Needs, Zenon
  <2>3. Needed' = Reach(B)
    BY Zenon DEF Needed, Reach
  <2>4. \A y \in Needed \cap Id : Child[y] \cup PolicyChild[y] \subseteq Needed
    BY Needs, Zenon
  <2> HIDE DEF B
  <2> QED BY <2>2, <2>3, <2>4, Reaches, Zenon
<1>4. Promised' \subseteq Promised
  <2>1. \A u \in Task : Written(u)' = Written(u)
    BY <1>1, Same, Zenon
  <2> QED BY <1>3, <2>1, Zenon DEF Promised
<1>5. UNCHANGED <<loose, packFiles, idxFiles, Visible, OnDisk, unpaired>>
    BY <1>1, Same, Zenon DEF disk, pack
<1>6. Keeping(t)'
  <2>1. Packing(t) /\ View(t) /\ Packed(t)' = Packed(t)
    BY <1>1, Same, Zenon DEF Safe, Keeping
  <2>2. Marking(t)' /\ Packing(t)' /\ Dropping(t)'
    BY <1>1, <1>5, <2>1, Zenon DEF Marking, Packing, Dropping, Marks, Swings
  <2>3. View(t)'
    BY <1>1, <1>4, <1>5, <2>1, Zenon DEF View
  <2> QED BY <2>2, <2>3, Zenon DEF Keeping
<1>7. Committing(t)'
    BY <1>1, Zenon DEF Committing, Marks, Swings
<1>8. Promised' \subseteq OnDisk'
    BY <1>4, <1>5, Zenon DEF Safe
<1> QED BY <1>2, <1>6, <1>7, <1>8, Zenon DEF Safe

\* A commit begins with nothing written, and beside others with nothing stored.
LEMMA BeginCommitSafe ==
    ASSUME TypeOK, TypeOK', Safe, Coordinated, NEW t \in Task, NEW x \in Target, BeginCommit(t, x)
    PROVE  Safe'
<1>1. /\ pc[t] = "idle" /\ ProcessOf[t] \in opened
      /\ Child[x] \cap Target \subseteq {heads[r] : r \in RefName}
      /\ Reuse \/ Content[x] \cap OnDisk = {}
      /\ pc' = [pc EXCEPT ![t] = "commit"] /\ target' = [target EXCEPT ![t] = x]
      /\ want' = [want EXCEPT ![t] = Content[x]]
      /\ UNCHANGED <<disk, loaded, heads, opened, mark, pack>>
    BY Zenon DEF BeginCommit, Begin, Go
<1>2. /\ pc'[t] = "commit" /\ target'[t] = x /\ want'[t] = Content[x]
      /\ \A u \in Task \ {t} : pc'[u] = pc[u] /\ target'[u] = target[u] /\ want'[u] = want[u]
    BY <1>1, Zenon DEF TypeOK
<1>3. UNCHANGED <<loose, aged, packFiles, idxFiles, Visible, OnDisk, Needed, names, roots, stale,
                  keep, frames, retire, unpaired, drop>>
    BY <1>1, Same, Zenon DEF disk, mark, pack
<1>4. Promised' = Promised
  <2>1. Written(t)' = {} /\ Written(t) = {}
    BY <1>1, <1>2, Zenon DEF Written
  <2>2. \A u \in Task \ {t} : Written(u)' = Written(u)
    BY <1>2, Same, Zenon
  <2> QED BY <1>3, <2>1, <2>2, Zenon DEF Promised
<1>5. Keeping(t)'
  <2>1. Packing(t) /\ View(t) /\ Packed(t)' = Packed(t)
    BY <1>1, Same, Zenon DEF Safe, Keeping
  <2>2. Marking(t)' /\ Packing(t)' /\ Dropping(t)'
    BY <1>1, <1>2, <1>3, <2>1, Zenon DEF Marking, Packing, Dropping, Marks, Swings
  <2>3. View(t)'
    BY <1>1, <1>2, <1>3, <1>4, <2>1, Zenon DEF View, Keeper
  <2> QED BY <2>2, <2>3, Zenon DEF Keeping
<1>6. Committing(t)'
  <2>1. Child[x] \cap Target \subseteq Needed
    <3>1. \A r \in RefName : heads[r] # Null => heads[r] \in Needed
        BY Needs, Zenon
    <3>2. Null \notin Target
        BY PackStoreAssumption, Zenon
    <3> QED BY <1>1, <3>1, <3>2, Zenon
  <2> QED BY <1>1, <1>2, <1>3, <2>1, Zenon DEF Committing, Marks, Swings
<1>7. ASSUME NEW u \in Task \ {t} PROVE Keeping(u)' /\ Committing(u)'
  <2>1. Ahead(u)' = Ahead(u)
    BY <1>1, <1>3, Same, Zenon
  <2>2. Keeping(u)'
    BY <1>1, <1>2, <1>3, <1>4, <2>1, Bystander, Zenon
  <2>3. Committing(u)'
    BY <1>1, <1>2, <1>3, Zenon DEF Committing, Safe, Keeper
  <2> QED BY <2>2, <2>3, Zenon
<1>8. ASSUME ~Alone PROVE Beside'
  <2>1. Beside
    BY <1>8, Zenon DEF Safe
  <2>2. Content[x] \cap loose = {} /\ aged \subseteq loose
    BY <1>1, <1>8, Disciplines, Zenon DEF OnDisk, TypeOK
  <2>3. \A u \in Task : pc'[u] = "commit" =>
          u = t \/ (pc[u] = "commit" /\ target'[u] = target[u])
    BY <1>2, Zenon
  <2> QED BY <1>1, <1>2, <1>3, <2>1, <2>2, <2>3, Zenon DEF Beside
<1>9. Promised' \subseteq OnDisk'
    BY <1>3, <1>4, Zenon DEF Safe
<1> QED BY <1>5, <1>6, <1>7, <1>8, <1>9, Zenon DEF Safe

\* An object put is on disk, in the collector's view, and within its window
\* unless a ref needs it already.
LEMMA PutSafe ==
    ASSUME TypeOK, TypeOK', Safe, Coordinated, NEW t \in Task, NEW x \in Id, Put(t, x)
    PROVE  Safe'
<1>1. /\ pc[t] = "commit" /\ x \in want[t] /\ want' = [want EXCEPT ![t] = @ \ {x}]
      /\ UNCHANGED <<aged, packFiles, idxFiles, loaded, heads, opened, pc, target, names, roots, keep>>
      /\ UNCHANGED <<frames, retire, unpaired, drop>>
    BY Zenon DEF Put, pack
<1>2. /\ loose \subseteq loose' /\ loose' \subseteq loose \cup {x}
      /\ \A u \in Task : stale'[u] \subseteq stale[u]
      /\ x \in loose' \/ InPack(t, x) # {}
      /\ ~Exists(t, x) => \A u \in Task : x \notin stale'[u]
      /\ Exists(t, x) => UNCHANGED <<loose, stale>>
    BY Zenon DEF Put, Exists
<1>3. /\ target[t] \in Target /\ want[t] \subseteq Content[target[t]] /\ ProcessOf[t] \in opened
      /\ Child[target[t]] \cap Target \subseteq Needed
    BY <1>1, Zenon DEF Safe, Committing
<1>4. want'[t] = want[t] \ {x} /\ \A u \in Task \ {t} : want'[u] = want[u]
    BY <1>1, Zenon DEF TypeOK
<1>5. /\ UNCHANGED <<Needed, Visible>>
      /\ \A u \in Task : Packed(u)' = Packed(u) /\ Ahead(u)' = Ahead(u)
    BY <1>1, Same, Zenon
<1>6. Promised' \subseteq Promised \cup {x}
  <2>1. Written(t)' \subseteq Written(t) \cup {x}
    BY <1>1, <1>4, Zenon DEF Written
  <2>2. \A u \in Task \ {t} : Written(u)' = Written(u)
    BY <1>1, <1>4, Same, Zenon
  <2> QED BY <1>5, <2>1, <2>2, Zenon DEF Promised
<1>7. InPack(t, x) # {} => x \in Packed(t)
    BY Zenon DEF InPack, Packed
<1>8. ASSUME ~Alone, InPack(t, x) # {} PROVE x \in Needed
    BY <1>8, PackStoreAssumption, Zenon DEF Safe, Beside, InPack
<1>9. Promised' \subseteq OnDisk'
  <2>1. Promised \subseteq OnDisk /\ OnDisk \subseteq OnDisk'
    BY <1>2, <1>5, Zenon DEF Safe, OnDisk
  <2>2. CASE x \in loose'
    BY <1>6, <2>1, <2>2, Zenon DEF OnDisk
  <2>3. CASE x \notin loose' /\ ~Alone
    <3>1. x \in Promised
        BY <1>2, <1>8, <2>3, Zenon DEF Promised
    <3> QED BY <1>6, <2>1, <3>1, Zenon
  <2>4. CASE x \notin loose' /\ Alone
    <3>1. loaded[ProcessOf[t]] \subseteq Visible
        BY <1>1, <1>3, <2>4, Zenon DEF Safe, Keeping, View, Keeper
    <3>2. x \in OnDisk
        BY <1>2, <1>7, <2>4, <3>1, Zenon DEF Packed, OnDisk
    <3> QED BY <1>6, <2>1, <3>2, Zenon
  <2> QED BY <2>2, <2>3, <2>4, Zenon
<1>10. Keeping(t)'
  <2>1. Packing(t) /\ View(t)
    BY Zenon DEF Safe, Keeping
  <2>2. Marking(t)' /\ Packing(t)' /\ Dropping(t)'
    BY <1>1, <2>1, Zenon DEF Marking, Packing, Dropping, Marks, Swings
  <2>3. View(t)'
    BY <1>1, <1>2, <1>5, <1>6, <1>7, <2>1, Zenon DEF View, Keeper
  <2> QED BY <2>2, <2>3, Zenon DEF Keeping
<1>11. ASSUME NEW u \in Task \ {t} PROVE Keeping(u)'
  <2>1. ~Alone
    BY Disciplines, Zenon
  <2>2. x \in Needed \/ x \in loose' \ stale'[u]
    <3>1. CASE ~Exists(t, x)
        BY <1>2, <3>1, Zenon DEF Exists
    <3>2. CASE Exists(t, x) /\ x \notin Needed
      <4>1. x \in loose /\ x \in Content[target[t]] \ Needed
        BY <1>1, <1>3, <1>8, <2>1, <3>2, Zenon DEF Exists
      <4> QED BY <1>1, <1>2, <2>1, <3>2, <4>1, Zenon DEF Safe, Beside
    <3> QED BY <3>1, <3>2, Zenon
  <2>3. Promised' \subseteq Promised \cup (loose' \ stale'[u])
    BY <1>6, <2>2, Zenon DEF Promised
  <2> QED BY <1>1, <1>2, <1>5, <2>3, Bystander, Zenon
<1>12. \A u \in Task : Committing(u)'
    BY <1>1, <1>3, <1>4, <1>5, Zenon DEF Committing, Safe, Keeper
<1>13. ASSUME ~Alone PROVE Beside'
  <2>1. Beside
    BY <1>13, Zenon DEF Safe
  <2>2. \A y : y \in loose' => y \in loose \/ \A u \in Task : y \notin stale'[u]
    BY <1>2, Zenon
  <2> QED BY <1>1, <1>2, <1>5, <2>1, <2>2, Zenon DEF Beside
<1> QED BY <1>9, <1>10, <1>11, <1>12, <1>13, Zenon DEF Safe

\* A file that outlives the window is of no commit under way.
LEMMA AgeSafe ==
    ASSUME TypeOK, Safe, NEW x \in Id, Age(x)
    PROVE  Safe'
<1>1. /\ \A t \in Task : pc[t] = "commit" => x \notin Content[target[t]]
      /\ aged' = aged \cup {x}
      /\ UNCHANGED <<loose, packFiles, idxFiles, loaded, heads, opened, pc, target, want, mark, pack>>
    BY Zenon DEF Age
<1>2. UNCHANGED <<names, roots, stale, keep, frames, retire, unpaired, drop>>
    BY <1>1, Zenon DEF mark, pack
<1>3. /\ UNCHANGED <<Needed, Visible>>
      /\ \A t \in Task : Packed(t)' = Packed(t) /\ Ahead(t)' = Ahead(t) /\ Written(t)' = Written(t)
    BY <1>1, <1>2, Same, Zenon
<1>4. Promised' = Promised /\ OnDisk' = OnDisk
    BY <1>1, <1>3, Zenon DEF Promised, OnDisk
<1>5. \A t \in Task : Keeping(t)'
    BY <1>1, <1>2, <1>3, <1>4, Bystander, Zenon
<1>6. \A t \in Task : Committing(t)'
    BY <1>1, <1>3, Zenon DEF Committing, Safe, Keeper
<1>7. ~Alone => Beside'
    BY <1>1, <1>2, <1>3, Zenon DEF Safe, Beside
<1> QED BY <1>4, <1>5, <1>6, <1>7, Zenon DEF Safe

\* A process that opens the repository sees all that is on disk.
LEMMA OpenSafe ==
    ASSUME TypeOK, Safe, NEW p \in Process, Open(p)
    PROVE  Safe'
<1>1. /\ p \notin opened /\ opened' = opened \cup {p} /\ loaded' = [loaded EXCEPT ![p] = Visible]
      /\ UNCHANGED <<disk, heads, pc, target, want, mark, pack>>
    BY Zenon DEF Open
<1>2. UNCHANGED <<loose, aged, packFiles, idxFiles, Visible, OnDisk, Needed, names, roots, stale,
                  keep, frames, retire, unpaired, drop>>
    BY <1>1, Same, Zenon DEF disk, mark, pack
<1>3. \A t \in Task : Ahead(t)' = Ahead(t) /\ Written(t)' = Written(t)
    BY <1>1, <1>2, Same, Zenon
<1>4. Promised' = Promised
    BY <1>2, <1>3, Zenon DEF Promised
<1>5. \A o \in Process : loaded'[o] = IF o = p THEN Visible ELSE loaded[o]
    BY <1>1, Zenon DEF TypeOK
<1>6. ASSUME NEW t \in Task, ProcessOf[t] = p PROVE Keeping(t)' /\ Committing(t)'
  <2>1. Packing(t) /\ Committing(t)
    BY Zenon DEF Safe, Keeping
  <2>2. pc[t] = "idle" /\ pc'[t] = "idle" /\ unpaired'[t] = {}
    BY <1>1, <1>2, <1>6, <2>1, Zenon DEF Committing, Packing
  <2>3. Marking(t)' /\ Packing(t)' /\ Dropping(t)' /\ Committing(t)'
    BY <2>2, Zenon DEF Marking, Packing, Dropping, Committing, Marks, Swings
  <2>4. Packed(t)' = UNION {Members(q) : q \in Visible}
    BY <1>5, <1>6, Zenon DEF Packed
  <2>5. Promised \subseteq loose \cup UNION {Members(q) : q \in Visible}
    BY Zenon DEF Safe, OnDisk
  <2>6. View(t)'
    BY <1>2, <1>4, <1>5, <1>6, <2>4, <2>5, Zenon DEF View
  <2> QED BY <2>3, <2>6, Zenon DEF Keeping
<1>7. ASSUME NEW t \in Task, ProcessOf[t] # p PROVE Keeping(t)' /\ Committing(t)'
  <2>1. loaded'[ProcessOf[t]] = loaded[ProcessOf[t]] /\ (ProcessOf[t] \in opened' <=> ProcessOf[t] \in opened)
    BY <1>1, <1>5, <1>7, PackStoreAssumption, Zenon
  <2>2. Packed(t)' = Packed(t)
    BY <2>1, Same, Zenon
  <2>3. Marking(t) /\ Packing(t) /\ Dropping(t) /\ View(t) /\ Committing(t)
    BY Zenon DEF Safe, Keeping
  <2>4. Marking(t)' /\ Packing(t)' /\ Dropping(t)'
    BY <1>1, <1>2, <1>3, <1>4, <2>2, <2>3, Zenon DEF Marking, Packing, Dropping
  <2>5. View(t)' /\ Committing(t)'
    BY <1>1, <1>2, <1>4, <2>1, <2>2, <2>3, Zenon DEF View, Committing, Keeper
  <2> QED BY <2>4, <2>5, Zenon DEF Keeping
<1>8. ASSUME ~Alone PROVE Beside'
  <2>1. Beside /\ Visible \subseteq packFiles
    BY <1>8, Zenon DEF Safe, Visible
  <2> QED BY <1>1, <1>2, <1>5, <2>1, Zenon DEF Beside
<1>9. Promised' \subseteq OnDisk'
    BY <1>2, <1>4, Zenon DEF Safe
<1> QED BY <1>6, <1>7, <1>8, <1>9, Zenon DEF Safe
-----------------------------------------------------------------------------
(* Collections *)

\* A collection that begins has every ref still to read, and what a commit has
\* written and not yet named is within its window.
LEMMA BeginGcSafe ==
    ASSUME TypeOK, TypeOK', Safe, Coordinated, NEW t \in Task, BeginGc(t)
    PROVE  Safe'
<1>1. /\ "gc" \in Ops[t] /\ pc[t] = "idle" /\ ProcessOf[t] \in opened
      /\ names' = [names EXCEPT ![t] = {r \in RefName : heads[r] # Null}]
      /\ roots' = [roots EXCEPT ![t] = {}] /\ stale' = [stale EXCEPT ![t] = aged]
      /\ pc' = [pc EXCEPT ![t] = "roots"]
      /\ UNCHANGED <<disk, loaded, heads, opened, target, want, keep, pack>>
    BY Zenon DEF BeginGc, Begin, Go
<1>2. /\ pc'[t] = "roots" /\ roots'[t] = {} /\ stale'[t] = aged
      /\ names'[t] = {r \in RefName : heads[r] # Null}
      /\ \A u \in Task \ {t} : /\ pc'[u] = pc[u] /\ names'[u] = names[u]
                               /\ roots'[u] = roots[u] /\ stale'[u] = stale[u]
    BY <1>1, ZenonT(30) DEF TypeOK
<1>3. UNCHANGED <<loose, aged, packFiles, idxFiles, Visible, OnDisk, Needed, frames, retire,
                  unpaired, drop>>
    BY <1>1, Same, Zenon DEF disk, pack
<1>4. Keeper(t)
    BY <1>1, Disciplines, Zenon
<1>5. Promised' = Promised
  <2>1. Written(t)' = {} /\ Written(t) = {}
    BY <1>1, <1>2, Zenon DEF Written
  <2>2. \A u \in Task \ {t} : Written(u)' = Written(u)
    BY <1>1, <1>2, Same, Zenon
  <2> QED BY <1>3, <2>1, <2>2, Zenon DEF Promised
<1>6. Keeping(t)'
  <2>1. Packing(t) /\ View(t) /\ Packed(t)' = Packed(t)
    BY <1>1, Same, Zenon DEF Safe, Keeping
  <2>2. Packing(t)' /\ Dropping(t)'
    BY <1>1, <1>2, <1>3, <2>1, Zenon DEF Packing, Dropping, Marks, Swings
  <2>3. View(t)'
    BY <1>1, <1>2, <1>3, <1>5, <2>1, Zenon DEF View, Keeper
  <2>4. Needed = Reach(roots'[t] \cup Ahead(t)')
    <3>1. roots'[t] \cup Ahead(t)' = {heads[r] : r \in RefName} \ {Null}
        BY <1>1, <1>2 DEF Ahead
    <3> QED BY <3>1, Needs, Zenon
  <2>5. ASSUME NEW y \in Promised, y \notin Needed PROVE y \in loose \ aged
    <3>1. PICK u \in Task : y \in Written(u)
        BY <2>5, Zenon DEF Promised
    <3>2. pc[u] = "commit" /\ y \in Content[target[u]] \ Needed /\ u # t
        BY <1>1, <2>5, <3>1, Zenon DEF Written
    <3>3. ~Alone
        BY <3>2, Disciplines, Zenon
    <3>4. Beside
        BY <3>3, Zenon DEF Safe
    <3>5. y \notin aged
        BY <3>2, <3>4, Zenon DEF Beside
    <3>6. y \notin Packed(t)
        BY <2>5, <3>4, PackStoreAssumption DEF Beside, Packed
    <3>7. y \in loose
        BY <1>1, <1>4, <2>1, <2>5, <3>6, Zenon DEF View
    <3> QED BY <3>5, <3>7, Zenon
  <2>6. Marking(t)'
    BY <1>2, <1>3, <1>5, <2>4, <2>5, Zenon DEF Marking, Marks, Swings
  <2> QED BY <2>2, <2>3, <2>6, Zenon DEF Keeping
<1>7. Committing(t)'
    BY <1>1, <1>2, <1>4, Zenon DEF Committing, Keeper
<1>8. ASSUME NEW u \in Task \ {t} PROVE Keeping(u)' /\ Committing(u)'
  <2>1. Ahead(u)' = Ahead(u)
    BY <1>1, <1>2, Same, Zenon
  <2>2. Keeping(u)'
    BY <1>1, <1>2, <1>3, <1>5, <2>1, Bystander, Zenon
  <2>3. Committing(u)'
    BY <1>1, <1>2, <1>3, Zenon DEF Committing, Safe, Keeper
  <2> QED BY <2>2, <2>3, Zenon
<1>9. ASSUME ~Alone PROVE Beside'
  <2>1. Beside
    BY <1>9, Zenon DEF Safe
  <2>2. \A u \in Task : pc'[u] = "commit" => pc[u] = "commit"
    BY <1>2, Zenon
  <2>3. \A u \in Task : stale'[u] = aged \/ stale'[u] = stale[u]
    BY <1>2, Zenon
  <2> QED BY <1>1, <1>3, <2>1, <2>2, <2>3 DEF Beside
<1>10. Promised' \subseteq OnDisk'
    BY <1>3, <1>5, Zenon DEF Safe
<1> QED BY <1>6, <1>7, <1>8, <1>9, <1>10, Zenon DEF Safe

\* A compaction keeps everything.
LEMMA BeginCompactSafe ==
    ASSUME TypeOK, TypeOK', Safe, Coordinated, NEW t \in Task, BeginCompact(t)
    PROVE  Safe'
<1>1. /\ "compact" \in Ops[t] /\ pc[t] = "idle" /\ ProcessOf[t] \in opened
      /\ keep' = [keep EXCEPT ![t] = Id] /\ pc' = [pc EXCEPT ![t] = "list"]
      /\ UNCHANGED <<disk, loaded, heads, opened, target, want, names, roots, stale, pack>>
    BY Zenon DEF BeginCompact, Begin, Go
<1>2. pc'[t] = "list" /\ keep'[t] = Id
    BY <1>1, Zenon DEF TypeOK
<1>3. Alone /\ \A u \in Task : u = t
    BY <1>1, Disciplines, Zenon
<1>4. UNCHANGED <<loose, packFiles, idxFiles, Visible, OnDisk, Needed, unpaired>>
    BY <1>1, Same, Zenon DEF disk, pack
<1>5. Promised' = Needed /\ Promised = Needed
  <2>1. \A u \in Task : Written(u)' = {} /\ Written(u) = {}
    BY <1>1, <1>2, <1>3, Zenon DEF Written
  <2> QED BY <1>4, <2>1, Zenon DEF Promised
<1>6. Keeping(t)'
  <2>1. Packing(t) /\ View(t) /\ Packed(t)' = Packed(t)
    BY <1>1, Same, Zenon DEF Safe, Keeping
  <2>2. Needed \subseteq Id
    BY Needs, Zenon
  <2>3. Marking(t)' /\ Packing(t)' /\ Dropping(t)'
    BY <1>1, <1>2, <1>4, <1>5, <2>1, <2>2, Zenon DEF Marking, Packing, Dropping, Marks, Swings
  <2>4. View(t)'
    BY <1>1, <1>2, <1>4, <1>5, <2>1, Zenon DEF View, Keeper
  <2> QED BY <2>3, <2>4, Zenon DEF Keeping
<1>7. Committing(t)'
    BY <1>1, <1>2, <1>3, Zenon DEF Committing, Keeper
<1>8. Promised' \subseteq OnDisk'
    BY <1>4, <1>5, Zenon DEF Safe
<1> QED BY <1>3, <1>6, <1>7, <1>8, Zenon DEF Safe

\* A ref that is read passes from those to read to those read.
LEMMA ReadRootSafe ==
    ASSUME TypeOK, TypeOK', Safe, Coordinated, NEW t \in Task, NEW r \in RefName, ReadRoot(t, r)
    PROVE  Safe'
<1>1. /\ pc[t] = "roots" /\ r \in names[t] /\ names' = [names EXCEPT ![t] = @ \ {r}]
      /\ roots' = [roots EXCEPT ![t] = @ \cup ({heads[r]} \ {Null})]
      /\ UNCHANGED <<disk, loaded, heads, opened, pc, target, want, stale, keep, pack>>
    BY Zenon DEF ReadRoot
<1>2. UNCHANGED <<loose, aged, packFiles, idxFiles, Visible, OnDisk, frames, retire, unpaired, drop>>
    BY <1>1, Same, Zenon DEF disk, pack
<1>3. /\ Needed' = Needed /\ Promised' = Promised
      /\ \A u \in Task \ {t} : Keeping(u)'
      /\ \A u \in Task : Committing(u)'
    BY <1>1, <1>2, KeeperStep, Zenon
<1>4. names'[t] = names[t] \ {r} /\ roots'[t] = roots[t] \cup ({heads[r]} \ {Null})
    BY <1>1, Zenon DEF TypeOK
<1>5. Keeping(t)'
  <2>1. Marking(t) /\ Packing(t) /\ View(t) /\ Packed(t)' = Packed(t)
    BY <1>1, Same, Zenon DEF Safe, Keeping
  <2>2. roots'[t] \cup Ahead(t)' = roots[t] \cup Ahead(t)
    BY <1>1, <1>4, Zenon DEF Ahead
  <2>3. roots'[t] \subseteq Needed
    BY <1>1, <1>4, <2>1, Needs, ZenonT(30) DEF Marking
  <2>4. Marking(t)'
    BY <1>1, <1>2, <1>3, <2>1, <2>2, <2>3, Zenon DEF Marking, Marks, Swings
  <2>5. Packing(t)' /\ Dropping(t)'
    BY <1>1, <1>2, <2>1, Zenon DEF Packing, Dropping, Marks, Swings
  <2>6. View(t)'
    BY <1>1, <1>2, <1>3, <2>1, Zenon DEF View
  <2> QED BY <2>4, <2>5, <2>6, Zenon DEF Keeping
<1>6. ~Alone => Beside'
    BY <1>1, <1>2, <1>3, Zenon DEF Safe, Beside
<1>7. Promised' \subseteq OnDisk'
    BY <1>2, <1>3, Zenon DEF Safe
<1> QED BY <1>3, <1>5, <1>6, <1>7, Zenon DEF Safe

\* What a keeper's view holds can be read.
LEMMA ViewReads ==
    ASSUME NEW t \in Task, NEW x, x \in loose \cup Packed(t), loaded[ProcessOf[t]] \subseteq Visible
    PROVE  Readable(t, x)
BY Zenon DEF Readable, InPack, Packed, Visible

\* A mark whose reads find every object keeps all that the refs it read need.
LEMMA MarkSafe ==
    ASSUME TypeOK, TypeOK', Safe, Coordinated, NEW t \in Task, Mark(t)
    PROVE  Safe'
<1> DEFINE held == {x \in Id : Readable(t, x)}
<1>1. /\ pc[t] = "roots" /\ names[t] = {}
      /\ keep' = [keep EXCEPT ![t] = Closure(Child, roots[t], held)]
      /\ roots' = [roots EXCEPT ![t] = {}] /\ pc' = [pc EXCEPT ![t] = "list"]
      /\ UNCHANGED <<disk, loaded, heads, opened, target, want, names, stale, pack>>
    BY Zenon DEF Mark, Go
<1>2. UNCHANGED <<loose, aged, packFiles, idxFiles, Visible, OnDisk, frames, retire, unpaired, drop>>
    BY <1>1, Same, Zenon DEF disk, pack
<1>3. /\ pc'[t] = "list" /\ keep'[t] = Closure(Child, roots[t], held)
      /\ \A u \in Task \ {t} : pc'[u] = pc[u] /\ keep'[u] = keep[u]
    BY <1>1 DEF TypeOK
<1>4. /\ Needed' = Needed /\ Promised' = Promised
      /\ \A u \in Task \ {t} : Keeping(u)'
      /\ \A u \in Task : Committing(u)'
      /\ ProcessOf[t] \in opened /\ Keeper(t)
  <2>1. pc[t] \in Marks \cup {"roots"} /\ pc'[t] \in Marks \cup {"roots"}
    BY <1>1, <1>3, Zenon DEF Marks
  <2> QED BY <1>1, <1>2, <1>3, <2>1, KeeperStep, Zenon
<1>5. Marking(t) /\ Packing(t) /\ View(t) /\ Packed(t)' = Packed(t)
    BY <1>1, Same, Zenon DEF Safe, Keeping
<1>6. /\ loaded[ProcessOf[t]] \subseteq Visible /\ Promised \subseteq loose \cup Packed(t)
      /\ roots[t] \subseteq Needed
      /\ Promised \subseteq Reach(roots[t] \cup Ahead(t)) \cup (loose \ stale[t])
    BY <1>1, <1>4, <1>5, Zenon DEF View, Marking
<1>7. roots[t] \in SUBSET Id
    BY PackStoreAssumption, Zenon DEF TypeOK
<1>8. Reach(roots[t]) \subseteq Needed /\ Reach(roots[t]) \subseteq Id
    BY <1>6, <1>7, Needs, ReachWithin, Zenon
<1>9. Reach(roots[t]) \subseteq held
  <2>1. \A x \in Reach(roots[t]) : x \in Id /\ x \in loose \cup Packed(t)
    BY <1>6, <1>8, Zenon DEF Promised
  <2> QED BY <1>6, <2>1, ViewReads, Zenon
<1> HIDE DEF held
<1>10. keep'[t] = Reach(roots[t])
    BY <1>3, <1>7, <1>9, MarkIsReach, Zenon DEF Coordinated
<1>11. Promised \subseteq keep'[t] \cup (loose \ stale[t])
  <2>1. roots[t] \cup Ahead(t) = roots[t]
    BY <1>1, Zenon DEF Ahead
  <2> QED BY <1>6, <1>10, <2>1, Zenon
<1>12. Keeping(t)'
  <2>1. Marking(t)' /\ Packing(t)' /\ Dropping(t)'
    BY <1>1, <1>2, <1>3, <1>4, <1>5, <1>11, Zenon DEF Marking, Packing, Dropping, Swings
  <2>2. View(t)'
    BY <1>1, <1>2, <1>4, <1>5, <1>6, Zenon DEF View
  <2> QED BY <2>1, <2>2, Zenon DEF Keeping
<1>13. ASSUME ~Alone PROVE Beside'
  <2>1. Beside
    BY <1>13, Zenon DEF Safe
  <2>2. \A u \in Task : keep'[u] \subseteq Needed
    BY <1>3, <1>8, <1>10, <2>1, Zenon DEF Beside
  <2>3. \A u \in Task : pc'[u] = "commit" => pc[u] = "commit"
    BY <1>3, Zenon
  <2> QED BY <1>1, <1>2, <1>4, <2>1, <2>2, <2>3, Zenon DEF Beside
<1>14. Promised' \subseteq OnDisk'
    BY <1>2, <1>4, Zenon DEF Safe
<1> QED BY <1>4, <1>12, <1>13, <1>14, Zenon DEF Safe
-----------------------------------------------------------------------------
(* Repacks *)

\* Beside writers, a step of the collector that takes away files, or adds a
\* pack of what refs need, spoils nothing.
LEMMA BesideStep ==
    ASSUME Safe, ~Alone, Needed' = Needed, UNCHANGED <<target, stale, keep>>,
           \A u \in Task : pc'[u] = "commit" => pc[u] = "commit",
           loose' \subseteq loose, aged' \subseteq aged,
           \A q \in packFiles' : q \in packFiles \/ Members(q) \subseteq Needed,
           \A p \in Process : loaded'[p] = loaded[p] \/ loaded'[p] \subseteq packFiles
    PROVE  Beside'
<1>1. Beside
    BY Zenon DEF Safe
<1>2. \A q \in packFiles' : Members(q) \subseteq Needed'
    BY <1>1, Zenon DEF Beside
<1>3. \A p \in Process : \A q \in loaded'[p] : Members(q) \subseteq Needed'
    BY <1>1, Zenon DEF Beside
<1>4. \A t \in Task : keep'[t] \subseteq Needed'
    BY <1>1, Zenon DEF Beside
<1>5. \A u \in Task : pc'[u] = "commit" =>
          \A y \in Content[target'[u]] \ Needed' :
              y \notin aged' /\ \A t \in Task : y \in loose' => y \notin stale'[t]
    BY <1>1, Zenon DEF Beside
<1> QED BY <1>2, <1>3, <1>4, <1>5, Zenon DEF Beside

\* What is listed is all that is kept and can be seen.
LEMMA ListSafe ==
    ASSUME TypeOK, TypeOK', Safe, Coordinated, NEW t \in Task, List(t)
    PROVE  Safe'
<1>1. /\ pc[t] = "list" /\ pc' = [pc EXCEPT ![t] = "read"]
      /\ UNCHANGED <<disk, loaded, heads, opened, target, want, mark, retire, unpaired, drop>>
    BY Zenon DEF List, Go
<1>2. UNCHANGED <<loose, aged, packFiles, idxFiles, Visible, OnDisk, names, roots, stale, keep>>
    BY <1>1, Same, Zenon DEF disk, mark
<1>3. pc'[t] = "read" /\ \A u \in Task \ {t} : pc'[u] = pc[u]
    BY <1>1, Zenon DEF TypeOK
<1>4. /\ Needed' = Needed /\ Promised' = Promised
      /\ \A u \in Task \ {t} : Keeping(u)'
      /\ \A u \in Task : Committing(u)'
  <2>1. pc[t] \in Marks \cup {"roots"} /\ pc'[t] \in Marks \cup {"roots"}
    BY <1>1, <1>3, Zenon DEF Marks, Swings
  <2> QED BY <1>1, <1>2, <1>3, <2>1, KeeperStep, Zenon
<1>5. Keeping(t)'
  <2>1. Marking(t) /\ Packing(t) /\ View(t) /\ Packed(t)' = Packed(t)
    BY <1>1, Same, Zenon DEF Safe, Keeping
  <2>2. Members(frames'[t]) = (loose \cup Packed(t)) \cap keep[t]
    BY Listing, Zenon
  <2>3. Marking(t)'
    BY <1>1, <1>2, <1>3, <1>4, <2>1, Zenon DEF Marking, Marks, Swings
  <2>4. Packing(t)' /\ Dropping(t)'
    BY <1>1, <1>2, <1>3, <2>1, <2>2, Zenon DEF Packing, Dropping, Swings
  <2>5. View(t)'
    BY <1>1, <1>2, <1>3, <1>4, <2>1, Zenon DEF View
  <2> QED BY <2>3, <2>4, <2>5, Zenon DEF Keeping
<1>6. ~Alone => Beside'
    BY <1>1, <1>2, <1>3, <1>4, BesideStep, Zenon
<1>7. Promised' \subseteq OnDisk'
    BY <1>2, <1>4, Zenon DEF Safe
<1> QED BY <1>4, <1>5, <1>6, <1>7, Zenon DEF Safe

\* What is promised and kept in a pack is also in the pack to be written: with
\* that in place the old packs hold nothing that would be missed.
LEMMA Superseded ==
    ASSUME Safe, NEW t \in Task, pc[t] \in Swings \ {"retire"}, Keeper(t), ProcessOf[t] \in opened
    PROVE  Promised \subseteq loose \cup Members(frames[t])
<1>1. pc[t] \in Marks /\ pc[t] \in Swings /\ pc[t] # "retire"
    BY Zenon DEF Marks
<1>2. Marking(t) /\ Packing(t) /\ View(t)
    BY Zenon DEF Safe, Keeping
<1>3. /\ Promised \subseteq keep[t] \cup (loose \ stale[t])
      /\ Promised \subseteq loose \cup Packed(t)
      /\ Packed(t) \cap keep[t] \subseteq Members(frames[t])
    BY <1>1, <1>2, Zenon DEF Marking, Packing, View
<1> QED BY <1>3, Zenon

\* The objects of the loaded packs are all read; only a loose file may be gone.
LEMMA ReadSafe ==
    ASSUME TypeOK, TypeOK', Safe, Coordinated, NEW t \in Task, Read(t)
    PROVE  Safe'
<1> DEFINE held == {x \in Id : Readable(t, x)}
<1>1. PICK kept \in Restricted(frames[t], held) :
          /\ frames' = [frames EXCEPT ![t] = kept]
          /\ IF kept = <<>>
             THEN /\ retire' = [retire EXCEPT ![t] = loaded[ProcessOf[t]]]
                  /\ pc' = [pc EXCEPT ![t] = "retire"]
             ELSE UNCHANGED retire /\ pc' = [pc EXCEPT ![t] = "pack"]
    BY Zenon DEF Read, Go
<1>2. /\ pc[t] = "read"
      /\ UNCHANGED <<disk, loaded, heads, opened, target, want, mark, unpaired, drop>>
    BY Zenon DEF Read
<1>3. UNCHANGED <<loose, aged, packFiles, idxFiles, Visible, OnDisk, names, roots, stale, keep>>
    BY <1>2, Same, Zenon DEF disk, mark
<1>4. /\ pc'[t] = (IF kept = <<>> THEN "retire" ELSE "pack") /\ frames'[t] = kept
      /\ \A u \in Task \ {t} : pc'[u] = pc[u]
    BY <1>1 DEF TypeOK
<1>5. /\ Needed' = Needed /\ Promised' = Promised
      /\ \A u \in Task \ {t} : Keeping(u)'
      /\ \A u \in Task : Committing(u)'
      /\ ProcessOf[t] \in opened /\ Keeper(t)
  <2>1. pc[t] \in Marks \cup {"roots"} /\ pc'[t] \in Marks \cup {"roots"}
    BY <1>2, <1>4, Zenon DEF Marks, Swings
  <2> QED BY <1>2, <1>3, <1>4, <2>1, KeeperStep, Zenon
<1>6. Marking(t) /\ Packing(t) /\ View(t) /\ Packed(t)' = Packed(t)
    BY <1>2, Same, Zenon DEF Safe, Keeping
<1>7. Members(kept) = Members(frames[t]) \cap held /\ frames[t] \in Pack
    BY RestrictedPack, Zenon DEF TypeOK
<1>8. Members(frames[t]) \subseteq keep[t] /\ Packed(t) \cap keep[t] \subseteq Members(frames[t])
    BY <1>2, <1>6, Zenon DEF Packing, Swings
<1>9. Packed(t) \cap keep[t] \subseteq Members(kept)
  <2>1. loaded[ProcessOf[t]] \subseteq Visible
    BY <1>2, <1>5, <1>6, Zenon DEF View
  <2>2. \A x \in Packed(t) : Readable(t, x)
    BY <2>1, ViewReads, Zenon
  <2>3. Members(frames[t]) \subseteq Id
    BY <1>7, PackHoldsIds, Zenon
  <2> QED BY <1>7, <1>8, <2>2, <2>3, Zenon
<1>10. Promised \subseteq loose \cup Members(kept)
  <2>1. Promised \subseteq keep[t] \cup (loose \ stale[t]) /\ Promised \subseteq loose \cup Packed(t)
    BY <1>2, <1>5, <1>6, Zenon DEF Marking, View, Marks, Swings
  <2> QED BY <1>9, <2>1, Zenon
<1> HIDE DEF held
<1>11. Keeping(t)'
  <2>1. Marking(t)'
    BY <1>2, <1>3, <1>4, <1>5, <1>6, Zenon DEF Marking, Marks, Swings
  <2>2. Packing(t)' /\ Dropping(t)'
    BY <1>2, <1>3, <1>4, <1>5, <1>6, <1>7, <1>8, <1>9, <1>10, Zenon DEF Packing, Dropping, Swings
  <2>3. View(t)'
    BY <1>2, <1>3, <1>4, <1>5, <1>6, Zenon DEF View
  <2> QED BY <2>1, <2>2, <2>3, Zenon DEF Keeping
<1>12. ~Alone => Beside'
    BY <1>2, <1>3, <1>4, <1>5, BesideStep, Zenon
<1>13. Promised' \subseteq OnDisk'
    BY <1>3, <1>5, Zenon DEF Safe
<1> QED BY <1>5, <1>11, <1>12, <1>13, Zenon DEF Safe

\* The new pack file is none of those to be retired, unless its name is in use.
LEMMA WritePackSafe ==
    ASSUME TypeOK, TypeOK', Safe, Coordinated, NEW t \in Task, WritePack(t), frames[t] \notin InUse
    PROVE  Safe'
<1>1. /\ pc[t] = "pack" /\ pc' = [pc EXCEPT ![t] = "idx"]
      /\ retire' = [retire EXCEPT ![t] = loaded[ProcessOf[t]]]
      /\ packFiles' = packFiles \cup {frames[t]}
      /\ UNCHANGED <<loose, aged, idxFiles, loaded, heads, opened, target, want, mark, frames, unpaired, drop>>
    BY Zenon DEF WritePack, Go
<1>2. UNCHANGED <<names, roots, stale, keep>>
    BY <1>1, Zenon DEF mark
<1>3. /\ pc'[t] = "idx" /\ retire'[t] = loaded[ProcessOf[t]]
      /\ \A u \in Task \ {t} : pc'[u] = pc[u]
    BY <1>1, Zenon DEF TypeOK
<1>4. /\ Needed' = Needed /\ Promised' = Promised
      /\ \A u \in Task \ {t} : Keeping(u)'
      /\ \A u \in Task : Committing(u)'
      /\ ProcessOf[t] \in opened /\ Keeper(t)
  <2>1. pc[t] \in Marks \cup {"roots"} /\ pc'[t] \in Marks \cup {"roots"}
    BY <1>1, <1>3, Zenon DEF Marks, Swings
  <2> QED BY <1>1, <1>2, <1>3, <2>1, KeeperStep, Zenon
<1>5. Marking(t) /\ Packing(t) /\ View(t) /\ Packed(t)' = Packed(t)
    BY <1>1, Same, Zenon DEF Safe, Keeping
<1>6. frames[t] \notin loaded[ProcessOf[t]]
    BY <1>4, Zenon DEF InUse
<1>7. Visible \subseteq Visible' /\ OnDisk \subseteq OnDisk'
    BY <1>1, Zenon DEF Visible, OnDisk
<1>8. Keeping(t)'
  <2>1. Marking(t)'
    BY <1>1, <1>2, <1>3, <1>4, <1>5, Zenon DEF Marking, Marks, Swings
  <2>2. Packing(t)' /\ Dropping(t)'
    BY <1>1, <1>2, <1>3, <1>5, <1>6, Zenon DEF Packing, Dropping, Swings
  <2>3. View(t)'
    BY <1>1, <1>3, <1>4, <1>5, <1>7, Zenon DEF View
  <2> QED BY <2>1, <2>2, <2>3, Zenon DEF Keeping
<1>9. ASSUME ~Alone PROVE Beside'
  <2>1. keep[t] \subseteq Needed
    BY <1>9, Zenon DEF Safe, Beside
  <2>2. Members(frames[t]) \subseteq Needed
    BY <1>1, <1>5, <2>1, Zenon DEF Packing, Swings
  <2> QED BY <1>1, <1>2, <1>3, <1>4, <1>9, <2>2, BesideStep, Zenon
<1>10. Promised' \subseteq OnDisk'
    BY <1>4, <1>7, Zenon DEF Safe
<1> QED BY <1>4, <1>8, <1>9, <1>10, Zenon DEF Safe

\* With its index beside it the new pack holds what the old ones kept.
LEMMA WriteIdxSafe ==
    ASSUME TypeOK, TypeOK', Safe, Coordinated, NEW t \in Task, WriteIdx(t)
    PROVE  Safe'
<1>1. /\ pc[t] = "idx" /\ pc' = [pc EXCEPT ![t] = "retire"] /\ idxFiles' = idxFiles \cup {frames[t]}
      /\ UNCHANGED <<loose, aged, packFiles, loaded, heads, opened, target, want, mark, pack>>
    BY Zenon DEF WriteIdx, Go
<1>2. UNCHANGED <<names, roots, stale, keep, frames, retire, unpaired, drop>>
    BY <1>1, Zenon DEF mark, pack
<1>3. pc'[t] = "retire" /\ \A u \in Task \ {t} : pc'[u] = pc[u]
    BY <1>1, Zenon DEF TypeOK
<1>4. /\ Needed' = Needed /\ Promised' = Promised
      /\ \A u \in Task \ {t} : Keeping(u)'
      /\ \A u \in Task : Committing(u)'
      /\ ProcessOf[t] \in opened /\ Keeper(t)
  <2>1. pc[t] \in Marks \cup {"roots"} /\ pc'[t] \in Marks \cup {"roots"}
    BY <1>1, <1>3, Zenon DEF Marks, Swings
  <2> QED BY <1>1, <1>2, <1>3, <2>1, KeeperStep, Zenon
<1>5. Marking(t) /\ Packing(t)
    BY Zenon DEF Safe, Keeping
<1>6. OnDisk \subseteq OnDisk' /\ (frames[t] \in packFiles => frames[t] \in Visible')
    BY <1>1, Zenon DEF Visible, OnDisk
<1>7. Promised \subseteq loose \cup Members(frames[t])
    BY <1>1, <1>4, Superseded, Zenon DEF Swings
<1>8. Keeping(t)'
  <2>1. Marking(t)'
    BY <1>1, <1>2, <1>3, <1>4, <1>5, Zenon DEF Marking, Marks, Swings
  <2>2. Packing(t)' /\ Dropping(t)'
    BY <1>1, <1>2, <1>3, <1>4, <1>5, <1>6, <1>7, Zenon DEF Packing, Dropping, Swings
  <2>3. View(t)'
    BY <1>3, Zenon DEF View
  <2> QED BY <2>1, <2>2, <2>3, Zenon DEF Keeping
<1>9. ~Alone => Beside'
    BY <1>1, <1>2, <1>3, <1>4, BesideStep, Zenon
<1>10. Promised' \subseteq OnDisk'
    BY <1>4, <1>6, Zenon DEF Safe
<1> QED BY <1>4, <1>8, <1>9, <1>10, Zenon DEF Safe

\* Unlinking the old packs and their indexes leaves the new one, or the loose
\* files, with every promised object.
LEMMA UnlinkSafe ==
    ASSUME TypeOK, TypeOK', Safe, Coordinated, NEW t \in Task,
           (\E q \in retire[t] : UnlinkPack(t, q)) \/ UnlinkIdx(t)
    PROVE  Safe'
<1>1. /\ pc[t] = "retire"
      /\ UNCHANGED <<loose, aged, loaded, heads, opened, pc, target, want, mark, frames, drop>>
    BY Zenon DEF UnlinkPack, UnlinkIdx
<1>2. UNCHANGED <<names, roots, stale, keep>>
    BY <1>1, Zenon DEF mark
<1>3. /\ \A u \in Task \ {t} : unpaired'[u] = unpaired[u]
      /\ packFiles' \subseteq packFiles
      /\ retire'[t] \cup unpaired'[t] \subseteq retire[t] \cup unpaired[t]
      /\ Visible \ (retire[t] \cup unpaired[t]) \subseteq Visible'
    BY DEF UnlinkPack, UnlinkIdx, TypeOK, Visible
<1>4. /\ Needed' = Needed /\ Promised' = Promised
      /\ \A u \in Task \ {t} : Keeping(u)'
      /\ \A u \in Task : Committing(u)'
  <2>1. pc[t] \in Marks \cup {"roots"} /\ pc'[t] \in Marks \cup {"roots"}
    BY <1>1, Zenon DEF Marks, Swings
  <2> QED BY <1>1, <1>2, <1>3, <2>1, KeeperStep, Zenon
<1>5. Marking(t) /\ Packing(t)
    BY Zenon DEF Safe, Keeping
<1>6. Keeping(t)'
  <2>1. Marking(t)'
    BY <1>1, <1>2, <1>4, <1>5, Zenon DEF Marking
  <2>2. Packing(t)'
    BY <1>1, <1>2, <1>3, <1>4, <1>5, Zenon DEF Packing, Swings
  <2>3. Dropping(t)' /\ View(t)'
    BY <1>1, Zenon DEF Dropping, View
  <2> QED BY <2>1, <2>2, <2>3, Zenon DEF Keeping
<1>7. ~Alone => Beside'
    BY <1>1, <1>2, <1>3, <1>4, BesideStep, Zenon
<1>8. Promised' \subseteq OnDisk'
  <2>1. /\ Promised \subseteq loose \cup Members(frames[t])
        /\ frames[t] = <<>> \/ frames[t] \in Visible'
    BY <1>1, <1>3, <1>5, Zenon DEF Packing
  <2>2. Members(frames[t]) \subseteq OnDisk'
    BY <2>1, EmptyPack, Zenon DEF OnDisk
  <2>3. loose \subseteq OnDisk'
    BY <1>1, Zenon DEF OnDisk
  <2> QED BY <1>4, <2>1, <2>2, <2>3, Zenon
<1> QED BY <1>4, <1>6, <1>7, <1>8, Zenon DEF Safe

\* Reloaded, the collector sees all that is on disk; the loose copies that may
\* go are of objects in the new pack.
LEMMA ReloadSafe ==
    ASSUME TypeOK, TypeOK', Safe, Coordinated, NEW t \in Task, Reload(t)
    PROVE  Safe'
<1>1. /\ pc[t] = "retire" /\ retire[t] = {} /\ unpaired[t] = {} /\ pc' = [pc EXCEPT ![t] = "unloose"]
      /\ loaded' = [loaded EXCEPT ![ProcessOf[t]] = Visible]
      /\ drop' = [drop EXCEPT ![t] = Members(frames[t])]
      /\ UNCHANGED <<disk, heads, opened, target, want, mark, retire, unpaired>>
    BY Zenon DEF Reload, Go
<1>2. UNCHANGED <<loose, aged, packFiles, idxFiles, Visible, OnDisk, names, roots, stale, keep>>
    BY <1>1, Same, Zenon DEF disk, mark
<1>3. /\ pc'[t] = "unloose" /\ drop'[t] = Members(frames[t]) /\ unpaired'[t] = {}
      /\ \A u \in Task \ {t} : pc'[u] = pc[u]
      /\ \A p \in Process : loaded'[p] = IF p = ProcessOf[t] THEN Visible ELSE loaded[p]
    BY <1>1, Zenon DEF TypeOK
<1>4. /\ Needed' = Needed /\ Promised' = Promised
      /\ \A u \in Task \ {t} : Keeping(u)'
      /\ \A u \in Task : Committing(u)'
  <2>1. pc[t] \in Marks \cup {"roots"} /\ pc'[t] \in Marks \cup {"roots"}
    BY <1>1, <1>3, Zenon DEF Marks, Swings
  <2> QED BY <1>1, <1>2, <1>3, <2>1, KeeperStep, Zenon
<1>5. Marking(t) /\ Packing(t)
    BY Zenon DEF Safe, Keeping
<1>6. loaded'[ProcessOf[t]] = Visible
    BY <1>3, PackStoreAssumption, ZenonT(30)
<1>7. Packed(t)' = UNION {Members(q) : q \in Visible}
    BY <1>6, Zenon DEF Packed
<1>8. Members(frames[t]) \subseteq Packed(t)' /\ Members(frames[t]) \subseteq keep[t]
  <2>1. frames[t] = <<>> \/ frames[t] \in Visible
    BY <1>1, <1>5, Zenon DEF Packing
  <2>2. Members(frames[t]) \subseteq keep[t]
    BY <1>1, <1>5, Zenon DEF Packing, Swings
  <2> QED BY <1>7, <2>1, <2>2, EmptyPack, Zenon
<1>9. Keeping(t)'
  <2>1. Marking(t)'
    BY <1>1, <1>2, <1>3, <1>4, <1>5, Zenon DEF Marking, Marks, Swings
  <2>2. Packing(t)' /\ Dropping(t)'
    BY <1>2, <1>3, <1>8, Zenon DEF Packing, Dropping, Swings
  <2>3. View(t)'
    BY <1>2, <1>4, <1>6, <1>7, Zenon DEF View, Safe, OnDisk
  <2> QED BY <2>1, <2>2, <2>3, Zenon DEF Keeping
<1>10. ASSUME ~Alone PROVE Beside'
  <2>1. \A p \in Process : loaded'[p] = loaded[p] \/ loaded'[p] \subseteq packFiles
    BY <1>3, Zenon DEF Visible
  <2> QED BY <1>1, <1>2, <1>3, <1>4, <1>10, <2>1, BesideStep, Zenon
<1>11. Promised' \subseteq OnDisk'
    BY <1>2, <1>4, Zenon DEF Safe
<1> QED BY <1>4, <1>9, <1>10, <1>11, Zenon DEF Safe

\* The loose copy that goes is of an object in a loaded pack, and kept.
LEMMA DeleteLooseSafe ==
    ASSUME TypeOK, TypeOK', Safe, Coordinated, NEW t \in Task, NEW x \in Id, DeleteLoose(t, x)
    PROVE  Safe'
<1>1. /\ pc[t] = "unloose" /\ x \in drop[t] /\ drop' = [drop EXCEPT ![t] = @ \ {x}]
      /\ loose' = loose \ {x} /\ aged' = aged \ {x}
      /\ UNCHANGED <<packFiles, idxFiles, loaded, heads, opened, pc, target, want, mark,
                     frames, retire, unpaired>>
    BY Zenon DEF DeleteLoose
<1>2. UNCHANGED <<names, roots, stale, keep, Visible>>
    BY <1>1, Same, Zenon DEF mark
<1>3. /\ Needed' = Needed /\ Promised' = Promised
      /\ \A u \in Task \ {t} : Keeping(u)'
      /\ \A u \in Task : Committing(u)'
      /\ ProcessOf[t] \in opened /\ Keeper(t)
  <2>1. pc[t] \in Marks \cup {"roots"} /\ pc'[t] \in Marks \cup {"roots"}
    BY <1>1, Zenon DEF Marks
  <2> QED BY <1>1, <1>2, <2>1, KeeperStep, Zenon
<1>4. drop'[t] = drop[t] \ {x}
    BY <1>1, Zenon DEF TypeOK
<1>5. Marking(t) /\ Packing(t) /\ Dropping(t) /\ View(t) /\ Packed(t)' = Packed(t)
    BY <1>1, Same, Zenon DEF Safe, Keeping
<1>6. x \in Packed(t) /\ x \in keep[t] /\ drop[t] \subseteq Packed(t) \cap keep[t]
    BY <1>1, <1>5, Zenon DEF Dropping
<1>7. loaded[ProcessOf[t]] \subseteq Visible /\ Promised \subseteq loose \cup Packed(t)
    BY <1>1, <1>3, <1>5, Zenon DEF View
<1>8. Keeping(t)'
  <2>1. Marking(t)'
    BY <1>1, <1>2, <1>3, <1>5, <1>6, Zenon DEF Marking
  <2>2. Packing(t)' /\ Dropping(t)'
    BY <1>1, <1>2, <1>4, <1>5, <1>6, Zenon DEF Packing, Dropping, Swings
  <2>3. View(t)'
    BY <1>1, <1>2, <1>3, <1>5, <1>6, <1>7, Zenon DEF View
  <2> QED BY <2>1, <2>2, <2>3, Zenon DEF Keeping
<1>9. ~Alone => Beside'
    BY <1>1, <1>2, <1>3, BesideStep, Zenon
<1>10. Promised' \subseteq OnDisk'
  <2>1. Packed(t) \subseteq OnDisk'
    BY <1>2, <1>7, Zenon DEF Packed, OnDisk
  <2>2. loose \ {x} \subseteq OnDisk'
    BY <1>1, Zenon DEF OnDisk
  <2> QED BY <1>3, <1>6, <1>7, <2>1, <2>2, Zenon
<1> QED BY <1>3, <1>8, <1>9, <1>10, Zenon DEF Safe

\* What a sweep is to consider, the mark did not keep.
LEMMA RepackedSafe ==
    ASSUME TypeOK, TypeOK', Safe, Coordinated, NEW t \in Task, Repacked(t)
    PROVE  Safe'
<1>1. /\ pc[t] = "unloose" /\ drop' = [drop EXCEPT ![t] = loose \ keep[t]]
      /\ pc' = [pc EXCEPT ![t] = "sweep"]
      /\ UNCHANGED <<disk, loaded, heads, opened, target, want, mark, frames, retire, unpaired>>
    BY Zenon DEF Repacked, Go
<1>2. UNCHANGED <<loose, aged, packFiles, idxFiles, Visible, OnDisk, names, roots, stale, keep>>
    BY <1>1, Same, Zenon DEF disk, mark
<1>3. /\ pc'[t] = "sweep" /\ drop'[t] = loose \ keep[t]
      /\ \A u \in Task \ {t} : pc'[u] = pc[u]
    BY <1>1, Zenon DEF TypeOK
<1>4. /\ Needed' = Needed /\ Promised' = Promised
      /\ \A u \in Task \ {t} : Keeping(u)'
      /\ \A u \in Task : Committing(u)'
  <2>1. pc[t] \in Marks \cup {"roots"} /\ pc'[t] \in Marks \cup {"roots"}
    BY <1>1, <1>3, Zenon DEF Marks
  <2> QED BY <1>1, <1>2, <1>3, <2>1, KeeperStep, Zenon
<1>5. Keeping(t)'
  <2>1. Marking(t) /\ Packing(t) /\ View(t) /\ Packed(t)' = Packed(t)
    BY <1>1, Same, Zenon DEF Safe, Keeping
  <2>2. Marking(t)'
    BY <1>1, <1>2, <1>3, <1>4, <2>1, Zenon DEF Marking, Marks
  <2>3. Packing(t)' /\ Dropping(t)'
    BY <1>1, <1>2, <1>3, <2>1, Zenon DEF Packing, Dropping, Swings
  <2>4. View(t)'
    BY <1>1, <1>2, <1>3, <1>4, <2>1, Zenon DEF View
  <2> QED BY <2>2, <2>3, <2>4, Zenon DEF Keeping
<1>6. ~Alone => Beside'
    BY <1>1, <1>2, <1>3, <1>4, BesideStep, Zenon
<1>7. Promised' \subseteq OnDisk'
    BY <1>2, <1>4, Zenon DEF Safe
<1> QED BY <1>4, <1>5, <1>6, <1>7, Zenon DEF Safe

\* A loose file is swept only if it is neither kept nor within grace.
LEMMA SweepLooseSafe ==
    ASSUME TypeOK, TypeOK', Safe, Coordinated, NEW t \in Task, NEW x \in Id, SweepLoose(t, x)
    PROVE  Safe'
<1>1. /\ pc[t] = "sweep" /\ x \in drop[t] /\ drop' = [drop EXCEPT ![t] = @ \ {x}]
      /\ UNCHANGED <<packFiles, idxFiles, loaded, heads, opened, pc, target, want, mark,
                     frames, retire, unpaired>>
    BY Zenon DEF SweepLoose
<1>2. /\ loose' \subseteq loose /\ aged' \subseteq aged
      /\ loose' = loose \/ (loose' = loose \ {x} /\ ~(x \in loose /\ x \notin stale[t]))
    BY Zenon DEF SweepLoose, Young
<1>3. UNCHANGED <<names, roots, stale, keep, Visible>>
    BY <1>1, Same, Zenon DEF mark
<1>4. /\ Needed' = Needed /\ Promised' = Promised
      /\ \A u \in Task \ {t} : Keeping(u)'
      /\ \A u \in Task : Committing(u)'
      /\ ProcessOf[t] \in opened /\ Keeper(t)
  <2>1. pc[t] \in Marks \cup {"roots"} /\ pc'[t] \in Marks \cup {"roots"}
    BY <1>1, Zenon DEF Marks
  <2> QED BY <1>1, <1>3, <2>1, KeeperStep, Zenon
<1>5. drop'[t] = drop[t] \ {x}
    BY <1>1, Zenon DEF TypeOK
<1>6. Marking(t) /\ Packing(t) /\ Dropping(t) /\ View(t) /\ Packed(t)' = Packed(t)
    BY <1>1, Same, Zenon DEF Safe, Keeping
<1>7. /\ Promised \subseteq keep[t] \cup (loose \ stale[t]) /\ x \notin keep[t]
      /\ Promised \subseteq loose \cup Packed(t)
    BY <1>1, <1>4, <1>6, Zenon DEF Marking, Dropping, View, Marks
<1>8. loose' = loose \/ x \notin Promised
    BY <1>2, <1>7, Zenon
<1>9. Promised \cap loose \subseteq loose' /\ Promised \subseteq keep[t] \cup (loose' \ stale[t])
    BY <1>2, <1>7, <1>8, Zenon
<1>10. Keeping(t)'
  <2>1. Marking(t)'
    BY <1>1, <1>3, <1>4, <1>9, Zenon DEF Marking
  <2>2. Packing(t)' /\ Dropping(t)'
    BY <1>1, <1>3, <1>5, <1>6, Zenon DEF Packing, Dropping, Swings
  <2>3. View(t)'
    BY <1>1, <1>3, <1>4, <1>6, <1>7, <1>9, Zenon DEF View
  <2> QED BY <2>1, <2>2, <2>3, Zenon DEF Keeping
<1>11. ~Alone => Beside'
    BY <1>1, <1>2, <1>3, <1>4, BesideStep, Zenon
<1>12. Promised' \subseteq OnDisk'
    BY <1>3, <1>4, <1>9, Zenon DEF Safe, OnDisk
<1> QED BY <1>4, <1>10, <1>11, <1>12, Zenon DEF Safe

-----------------------------------------------------------------------------
(* The invariant *)

\* What every step keeps, up to the first pack whose name is in use.
IInv == TypeOK /\ (reused \/ Safe)

\* Every step keeps it.
LEMMA StepSafe ==
    ASSUME Coordinated, TypeOK, TypeOK', Safe, [Next]_vars
    PROVE  reused' \/ Safe'
<1>1. ASSUME NEW t \in Task, Write(t) PROVE Safe'
  <2>1. ASSUME RefuseCommit(t) PROVE Safe'
    BY <2>1, EndSafe, Zenon DEF RefuseCommit
  <2> QED BY <1>1, <2>1, BeginCommitSafe, PutSafe, NameSafe, PruneSafe, BranchSafe, Zenon DEF Write
<1>2. ASSUME NEW t \in Task, Collect(t) PROVE Safe'
  <2>1. ASSUME MarkFails(t) \/ Swept(t) PROVE Safe'
    BY <2>1, EndSafe, Zenon DEF MarkFails, Swept
  <2> QED BY <1>2, <2>1, BeginGcSafe, ReadRootSafe, MarkSafe, SweepLooseSafe, Zenon DEF Collect
<1>3. ASSUME NEW t \in Task, Repack(t) PROVE reused' \/ Safe'
  <2>1. ASSUME ReadError(t) PROVE Safe'
    BY <2>1, EndSafe, Zenon DEF ReadError
  <2>2. ASSUME WritePack(t) PROVE reused' \/ Safe'
    <3>1. CASE frames[t] \in InUse
        BY <2>2, <3>1, Zenon DEF WritePack
    <3>2. CASE frames[t] \notin InUse
        BY <2>2, <3>2, WritePackSafe, Zenon
    <3> QED BY <3>1, <3>2, Zenon
  <2>3. ASSUME (\E q \in retire[t] : UnlinkPack(t, q)) \/ UnlinkIdx(t) PROVE Safe'
    BY <2>3, UnlinkSafe, Zenon
  <2> QED BY <1>3, <2>1, <2>2, <2>3, BeginCompactSafe, ListSafe, ReadSafe, WriteIdxSafe,
             ReloadSafe, DeleteLooseSafe, RepackedSafe, Zenon DEF Repack
<1>4. ASSUME NEW t \in Task, WriteFails(t) PROVE Safe'
    BY <1>4, EndSafe, Zenon DEF WriteFails
<1>5. ASSUME NEW p \in Process, Crash(p) PROVE Safe'
  <2> DEFINE T == {t \in Task : ProcessOf[t] = p}
  <2>1. /\ End(T) /\ UNCHANGED <<disk, loaded, heads>> /\ opened' = opened \ {p}
    BY <1>5, Zenon DEF Crash
  <2>2. \A t \in Task \ T : ProcessOf[t] \in opened => ProcessOf[t] \in opened'
    BY <2>1, Zenon
  <2>3. \A t \in Task \cap T : ProcessOf[t] \notin opened'
    BY <2>1, Zenon
  <2> HIDE DEF T
  <2> QED BY <2>1, <2>2, <2>3, EndSafe, Zenon
<1>6. CASE UNCHANGED vars
  <2>1. /\ UNCHANGED <<loose, aged, packFiles, idxFiles, loaded, heads, opened, pc, target, want>>
        /\ UNCHANGED <<names, roots, stale, keep, frames, retire, unpaired, drop>>
    BY <1>6, Zenon DEF vars, disk, mark, pack
  <2>2. /\ UNCHANGED <<Needed, Visible>>
        /\ \A t \in Task : Packed(t)' = Packed(t) /\ Ahead(t)' = Ahead(t) /\ Written(t)' = Written(t)
    BY <2>1, Same, Zenon
  <2>3. Promised' = Promised /\ OnDisk' = OnDisk
    BY <2>1, <2>2, Zenon DEF Promised, OnDisk
  <2>4. \A t \in Task : Keeping(t)'
    BY <2>1, <2>2, <2>3, Bystander, Zenon
  <2>5. \A t \in Task : Committing(t)'
    BY <2>1, <2>2, Zenon DEF Committing, Safe, Keeper
  <2>6. ~Alone => Beside'
    BY <2>1, <2>2, Zenon DEF Safe, Beside
  <2> QED BY <2>3, <2>4, <2>5, <2>6, Zenon DEF Safe
<1> QED BY <1>1, <1>2, <1>3, <1>4, <1>5, <1>6, OpenSafe, AgeSafe, Zenon DEF Next

\* A name in use stays recorded.
LEMMA ReusedStays ==
    ASSUME TypeOK, [Next]_vars, reused
    PROVE  reused'
<1>1. ASSUME NEW t \in Task, Write(t) PROVE reused'
    BY <1>1, Zenon DEF Write, BeginCommit, Put, CreateRef, AdvanceRef, Prune, Branch, RefuseCommit
<1>2. ASSUME NEW t \in Task, Collect(t) PROVE reused'
    BY <1>2, Zenon DEF Collect, BeginGc, ReadRoot, Mark, MarkFails, SweepLoose, Swept
<1>3. ASSUME NEW t \in Task, Repack(t) PROVE reused'
    BY <1>3, Zenon DEF Repack, BeginCompact, List, Read, ReadError, WritePack, WriteIdx, UnlinkPack,
                UnlinkIdx, Reload, DeleteLoose, Repacked
<1>4. ASSUME NEW t \in Task, WriteFails(t) PROVE reused'
    BY <1>4, Zenon DEF WriteFails
<1>5. ASSUME NEW p \in Process, Open(p) \/ Crash(p) PROVE reused'
    BY <1>5, Zenon DEF Open, Crash
<1>6. ASSUME NEW x \in Id, Age(x) PROVE reused'
    BY <1>6, Zenon DEF Age
<1>7. CASE UNCHANGED vars
    BY <1>7, Zenon DEF vars
<1> QED BY <1>1, <1>2, <1>3, <1>4, <1>5, <1>6, <1>7, Zenon DEF Next

\* The invariant of the store, for one process at a time and for one collector
\* beside any number of writers.
THEOREM Invariance == Coordinated => (Spec => []IInv)
<1> SUFFICES ASSUME Coordinated PROVE Spec => []IInv
    BY Zenon
<1>1. Init => IInv
    BY InitTypes, InitSafe, Zenon DEF IInv
<1>2. IInv /\ [Next]_vars => IInv'
  <2> SUFFICES ASSUME IInv, [Next]_vars PROVE IInv'
    BY Zenon
  <2>1. TypeOK /\ TypeOK'
    BY StepTypes, Zenon DEF IInv
  <2> QED BY <2>1, StepSafe, ReusedStays, Zenon DEF IInv
<1> QED BY <1>1, <1>2, PTL DEF Spec

\* RepackKeepsHeads: at no instant of a commit, a compaction or a collection,
\* and after no crash or failed write, is an object that a ref needs in
\* neither form on disk, unless a repack has written a pack of a name in use.
\* This is Repository::gc's promise, whatever the objects and the schedule, for
\* one process that works alone and for one collector beside writers.
THEOREM KeepsHeads == Coordinated => (Spec => []RepackKeepsHeads)
<1> SUFFICES ASSUME Coordinated PROVE Spec => []RepackKeepsHeads
    BY Zenon
<1>1. IInv => RepackKeepsHeads
    BY Zenon DEF IInv, Safe, Promised, RepackKeepsHeads, HeadsIntact
<1> QED BY <1>1, Invariance, PTL

\* IndexesAreBacked: while no repack is between unlinking packs and reloading
\* them, every pack that the process has loaded is a file it can read, for a
\* process that works alone.
THEOREM Backed == Coordinated /\ Alone => (Spec => []IndexesAreBacked)
<1> SUFFICES ASSUME Coordinated, Alone PROVE Spec => []IndexesAreBacked
    BY Zenon
<1>1. IInv => IndexesAreBacked
  <2> SUFFICES ASSUME IInv, ~reused, NEW p \in opened,
                      \A t \in Task : ProcessOf[t] = p => pc[t] # "retire", NEW q \in loaded[p]
               PROVE  q \in packFiles
    BY Zenon DEF IndexesAreBacked
  <2>1. PICK t \in Task : Process = {ProcessOf[t]}
    BY Zenon DEF Alone
  <2>2. ProcessOf[t] = p
    BY <2>1, Zenon DEF IInv, TypeOK
  <2>3. View(t)
    BY Zenon DEF IInv, Safe, Keeping
  <2> QED BY <2>2, <2>3, Zenon DEF View, Keeper, Visible
<1> QED BY <1>1, Invariance, PTL
-----------------------------------------------------------------------------
(* What a collection collects *)

\* What a process that works alone has loaded is all there is to see, but for
\* the pack being written, while at most one failure has been survived; an
\* index without its pack is left only by a failure.
Sees(t) ==
    /\ pc[t] # "idle" => ProcessOf[t] \in opened
    /\ pc[t] # "retire" => unpaired[t] = {}
    /\ faults = 0 => idxFiles \ packFiles \subseteq unpaired[t]
    /\ pc[t] = "idx" => frames[t] \in packFiles /\ retire[t] = loaded[ProcessOf[t]]
    /\ faults < 2 /\ ProcessOf[t] \in opened =>
         /\ pc[t] \notin {"idx", "retire"} => Visible \subseteq loaded[ProcessOf[t]]
         /\ pc[t] = "idx" => /\ Visible \subseteq loaded[ProcessOf[t]] \cup {frames[t]}
                             /\ faults = 0 => Visible \subseteq loaded[ProcessOf[t]]
         /\ pc[t] = "retire" => Visible \subseteq retire[t] \cup {frames[t]}

\* What is left of the packs is kept, and of the loose files what the sweep has
\* yet to consider, what is kept and what is within grace.
Leaves(t) ==
    /\ pc[t] \in Swings => Members(frames[t]) \subseteq keep[t]
    /\ faults < 2 /\ pc[t] \in {"unloose", "sweep"} =>
          \A q \in Visible : Members(q) \subseteq keep[t]
    /\ pc[t] = "sweep" => loose \subseteq keep[t] \cup drop[t] \cup (loose \ stale[t])

Tidy == \A t \in Task : Sees(t) /\ Leaves(t)

\* A step that neither touches packs nor repacks leaves the process seeing all.
LEMMA QuietTidy ==
    ASSUME Tidy, NEW t \in Task, UNCHANGED <<packFiles, idxFiles, loaded, opened, faults>>,
           ProcessOf[t] \in opened, pc[t] \notin {"idx", "retire"}, unpaired'[t] = {},
           pc'[t] \in {"idle", "commit", "roots", "list"}
    PROVE  Sees(t)' /\ Leaves(t)'
<1>1. Visible' = Visible
    BY Same, Zenon
<1>2. Sees(t)
    BY Zenon DEF Tidy
<1>3. Sees(t)'
    BY <1>1, <1>2, Zenon DEF Sees
<1>4. Leaves(t)'
    BY Zenon DEF Leaves, Swings
<1> QED BY <1>3, <1>4, Zenon

\* Writers, for a process that works alone.
LEMMA WriteTidy ==
    ASSUME TypeOK, Tidy, NEW t \in Task, Write(t)
    PROVE  Sees(t)' /\ Leaves(t)'
<1>0. Sees(t)
    BY Zenon DEF Tidy
<1>1. /\ UNCHANGED <<packFiles, idxFiles, loaded, opened, faults>>
      /\ ProcessOf[t] \in opened /\ pc[t] \in {"idle", "commit"}
    BY <1>0, Zenon
       DEF Write, BeginCommit, Put, CreateRef, AdvanceRef, Prune, Branch, RefuseCommit, Begin,
                disk, Sees
<1>2. unpaired[t] = {}
    BY <1>0, <1>1, Zenon DEF Sees
<1>3. ASSUME End({t}) PROVE unpaired'[t] = {} /\ pc'[t] = "idle"
    BY <1>3, Ending, Zenon
<1>4. unpaired'[t] = {} /\ pc'[t] \in {"idle", "commit"}
  <2>1. ASSUME NEW x \in Target, BeginCommit(t, x) PROVE unpaired'[t] = {} /\ pc'[t] = "commit"
    BY <1>2, <2>1, Zenon DEF BeginCommit, Go, pack, TypeOK
  <2>2. ASSUME NEW x \in Id, Put(t, x) PROVE unpaired'[t] = {} /\ pc'[t] = pc[t]
    BY <1>2, <2>2, Zenon DEF Put, pack
  <2>3. ASSUME NEW r \in RefName, CreateRef(t, r) \/ AdvanceRef(t, r) PROVE unpaired'[t] = {} /\ pc'[t] = "idle"
    BY <1>3, <2>3, Zenon DEF CreateRef, AdvanceRef
  <2>4. ASSUME NEW r \in RefName, Prune(t, r) PROVE unpaired'[t] = {} /\ pc'[t] = pc[t]
    BY <1>2, <2>4, Zenon DEF Prune, pack
  <2>5. ASSUME NEW r \in RefName, NEW new \in RefName, Branch(t, r, new)
        PROVE  unpaired'[t] = {} /\ pc'[t] = pc[t]
    BY <1>2, <2>5, Zenon DEF Branch, pack
  <2>6. ASSUME RefuseCommit(t) PROVE unpaired'[t] = {} /\ pc'[t] = "idle"
    BY <1>3, <2>6, Zenon DEF RefuseCommit
  <2> QED BY <1>1, <2>1, <2>2, <2>3, <2>4, <2>5, <2>6, Zenon DEF Write
<1> QED BY <1>1, <1>4, QuietTidy, Zenon

\* Marking and sweeping.
LEMMA CollectTidy ==
    ASSUME TypeOK, Tidy, NEW t \in Task, Collect(t)
    PROVE  Sees(t)' /\ Leaves(t)'
<1>0. Sees(t) /\ Leaves(t)
    BY Zenon DEF Tidy
<1>1. ASSUME BeginGc(t) \/ (\E r \in RefName : ReadRoot(t, r)) \/ Mark(t)
      PROVE  Sees(t)' /\ Leaves(t)'
  <2>1. /\ UNCHANGED <<packFiles, idxFiles, loaded, opened, faults, unpaired>>
        /\ ProcessOf[t] \in opened /\ pc[t] \in {"idle", "roots"}
    BY <1>0, <1>1, Zenon DEF BeginGc, ReadRoot, Mark, Begin, Sees, disk, pack
  <2>2. pc'[t] \in {"roots", "list"}
    BY <1>1, Zenon DEF BeginGc, ReadRoot, Mark, Go, TypeOK
  <2>3. unpaired'[t] = {}
    BY <1>0, <2>1, Zenon DEF Sees
  <2> QED BY <2>1, <2>2, <2>3, QuietTidy, Zenon
<1>2. ASSUME MarkFails(t) \/ Swept(t) PROVE Sees(t)' /\ Leaves(t)'
  <2>1. /\ UNCHANGED <<packFiles, idxFiles, loaded, opened, faults>> /\ End({t})
        /\ ProcessOf[t] \in opened /\ pc[t] \notin {"idx", "retire"}
    BY <1>0, <1>2, Zenon DEF MarkFails, Swept, Sees, disk
  <2> QED BY <2>1, Ending, QuietTidy, ZenonT(30)
<1>3. ASSUME NEW x \in Id, SweepLoose(t, x) PROVE Sees(t)' /\ Leaves(t)'
  <2>1. /\ pc[t] = "sweep" /\ drop' = [drop EXCEPT ![t] = @ \ {x}]
        /\ (loose' = loose /\ x \in loose \ stale[t]) \/ loose' = loose \ {x}
        /\ UNCHANGED <<packFiles, idxFiles, loaded, opened, pc, stale, keep, frames, retire, unpaired, faults>>
    BY <1>3, Zenon DEF SweepLoose, Young, mark
  <2>2. drop'[t] = drop[t] \ {x} /\ Visible' = Visible
    BY <2>1, Same, Zenon DEF TypeOK
  <2>3. Sees(t)'
    BY <1>0, <2>1, <2>2, Zenon DEF Sees
  <2>4. Leaves(t)'
    BY <1>0, <2>1, <2>2, Zenon DEF Leaves, Swings
  <2> QED BY <2>3, <2>4, Zenon
<1> QED BY <1>1, <1>2, <1>3, Zenon DEF Collect

\* Repacking: what is not carried over into the new pack is unlinked.
LEMMA RepackTidy ==
    ASSUME TypeOK, Tidy, NEW t \in Task, Repack(t)
    PROVE  Sees(t)' /\ Leaves(t)'
<1>0. Sees(t) /\ Leaves(t)
    BY Zenon DEF Tidy
<1>1. ASSUME BeginCompact(t) PROVE Sees(t)' /\ Leaves(t)'
  <2>1. /\ UNCHANGED <<packFiles, idxFiles, loaded, opened, faults, unpaired>>
        /\ ProcessOf[t] \in opened /\ pc[t] = "idle"
    BY <1>1, Zenon DEF BeginCompact, Begin, disk, pack
  <2>2. pc'[t] = "list" /\ unpaired'[t] = {}
    BY <1>0, <1>1, <2>1, Zenon DEF BeginCompact, Go, TypeOK, Sees
  <2> QED BY <2>1, <2>2, QuietTidy, Zenon
<1>2. ASSUME List(t) PROVE Sees(t)' /\ Leaves(t)'
  <2>1. /\ UNCHANGED <<packFiles, idxFiles, loaded, opened, faults, keep, unpaired>>
        /\ pc[t] = "list" /\ pc'[t] = "read"
    BY <1>2, Zenon DEF List, Go, disk, mark, TypeOK
  <2>2. Visible' = Visible /\ Members(frames'[t]) \subseteq keep[t]
    BY <1>2, <2>1, Same, Listing, Zenon
  <2>3. Sees(t)'
    BY <1>0, <2>1, <2>2, Zenon DEF Sees
  <2>4. Leaves(t)'
    BY <2>1, <2>2, Zenon DEF Leaves
  <2> QED BY <2>3, <2>4, Zenon
<1>3. ASSUME Read(t) PROVE Sees(t)' /\ Leaves(t)'
  <2> DEFINE held == {x \in Id : Readable(t, x)}
  <2>1. PICK kept \in Restricted(frames[t], held) :
          /\ frames' = [frames EXCEPT ![t] = kept]
          /\ IF kept = <<>>
             THEN /\ retire' = [retire EXCEPT ![t] = loaded[ProcessOf[t]]]
                  /\ pc' = [pc EXCEPT ![t] = "retire"]
             ELSE UNCHANGED retire /\ pc' = [pc EXCEPT ![t] = "pack"]
    BY <1>3, Zenon DEF Read, Go
  <2>2. pc[t] = "read" /\ UNCHANGED <<packFiles, idxFiles, loaded, opened, faults, keep, unpaired>>
    BY <1>3, Zenon DEF Read, disk, mark
  <2>3. /\ pc'[t] = "pack" \/ (pc'[t] = "retire" /\ retire'[t] = loaded[ProcessOf[t]])
        /\ frames'[t] = kept /\ Visible' = Visible
    BY <2>1, <2>2, Same, Zenon DEF TypeOK
  <2>4. Members(kept) \subseteq keep[t]
    <3>1. Members(kept) = Members(frames[t]) \cap held
        BY RestrictedPack, Zenon DEF TypeOK
    <3>2. Members(frames[t]) \subseteq keep[t]
        BY <1>0, <2>2, Zenon DEF Leaves, Swings
    <3> QED BY <3>1, <3>2, Zenon
  <2>5. Sees(t)'
    BY <1>0, <2>2, <2>3, Zenon DEF Sees
  <2>6. Leaves(t)'
    BY <2>2, <2>3, <2>4, Zenon DEF Leaves
  <2> QED BY <2>5, <2>6, Zenon
<1>4. ASSUME ReadError(t) PROVE Sees(t)' /\ Leaves(t)'
  <2>1. /\ UNCHANGED <<packFiles, idxFiles, loaded, opened, faults>> /\ End({t})
        /\ ProcessOf[t] \in opened /\ pc[t] = "read"
    BY <1>0, <1>4, Zenon DEF ReadError, Sees, disk
  <2> QED BY <2>1, Ending, QuietTidy, Zenon
<1>5. ASSUME WritePack(t) PROVE Sees(t)' /\ Leaves(t)'
  <2>1. /\ pc[t] = "pack" /\ pc'[t] = "idx" /\ retire'[t] = loaded[ProcessOf[t]]
        /\ packFiles' = packFiles \cup {frames[t]}
        /\ UNCHANGED <<idxFiles, loaded, opened, faults, keep, frames, unpaired>>
    BY <1>5, Zenon DEF WritePack, Go, mark, TypeOK
  <2>2. Visible' \subseteq Visible \cup {frames[t]} /\ (Visible' = Visible \/ frames[t] \in idxFiles)
    BY <2>1, Zenon DEF Visible
  <2>3. ASSUME faults = 0 PROVE Visible' = Visible
    <3>1. idxFiles \subseteq packFiles
        BY <1>0, <2>1, <2>3, Zenon DEF Sees
    <3> QED BY <2>1, <3>1, Zenon DEF Visible
  <2>4. Sees(t)'
    BY <1>0, <2>1, <2>2, <2>3, Zenon DEF Sees
  <2>5. Leaves(t)'
    BY <1>0, <2>1, Zenon DEF Leaves, Swings
  <2> QED BY <2>4, <2>5, Zenon
<1>6. ASSUME WriteIdx(t) PROVE Sees(t)' /\ Leaves(t)'
  <2>1. /\ pc[t] = "idx" /\ pc'[t] = "retire" /\ idxFiles' = idxFiles \cup {frames[t]}
        /\ UNCHANGED <<packFiles, loaded, opened, faults, keep, frames, retire, unpaired>>
    BY <1>6, Zenon DEF WriteIdx, Go, mark, pack, TypeOK
  <2>2. Visible' \subseteq Visible \cup {frames[t]}
    BY <2>1, Zenon DEF Visible
  <2>3. Sees(t)'
    BY <1>0, <2>1, <2>2, Zenon DEF Sees
  <2>4. Leaves(t)'
    BY <1>0, <2>1, Zenon DEF Leaves, Swings
  <2> QED BY <2>3, <2>4, Zenon
<1>7. ASSUME NEW q \in retire[t], UnlinkPack(t, q) PROVE Sees(t)' /\ Leaves(t)'
  <2>1. /\ pc[t] = "retire" /\ pc'[t] = "retire" /\ packFiles' = packFiles \ {q}
        /\ unpaired[t] = {} /\ retire'[t] = retire[t] \ {q} /\ unpaired'[t] = {q}
        /\ UNCHANGED <<idxFiles, loaded, opened, faults, keep, frames>>
    BY <1>7, Zenon DEF UnlinkPack, mark, TypeOK
  <2>2. Visible' = Visible \ {q}
    BY <2>1, Zenon DEF Visible
  <2>3. Sees(t)'
    BY <1>0, <2>1, <2>2, Zenon DEF Sees
  <2>4. Leaves(t)'
    BY <1>0, <2>1, Zenon DEF Leaves, Swings
  <2> QED BY <2>3, <2>4, Zenon
<1>8. ASSUME UnlinkIdx(t) PROVE Sees(t)' /\ Leaves(t)'
  <2>1. /\ pc[t] = "retire" /\ pc'[t] = "retire" /\ idxFiles' = idxFiles \ unpaired[t]
        /\ unpaired'[t] = {}
        /\ UNCHANGED <<packFiles, loaded, opened, faults, keep, frames, retire>>
    BY <1>8, Zenon DEF UnlinkIdx, mark, TypeOK
  <2>2. Visible' \subseteq Visible
    BY <2>1, Zenon DEF Visible
  <2>3. Sees(t)'
    BY <1>0, <2>1, <2>2, Zenon DEF Sees
  <2>4. Leaves(t)'
    BY <1>0, <2>1, Zenon DEF Leaves, Swings
  <2> QED BY <2>3, <2>4, Zenon
<1>9. ASSUME Reload(t) PROVE Sees(t)' /\ Leaves(t)'
  <2>1. /\ pc[t] = "retire" /\ pc'[t] = "unloose" /\ retire[t] = {} /\ unpaired[t] = {}
        /\ loaded' = [loaded EXCEPT ![ProcessOf[t]] = Visible]
        /\ UNCHANGED <<packFiles, idxFiles, opened, faults, keep, unpaired>>
    BY <1>9, Zenon DEF Reload, Go, disk, mark, TypeOK
  <2>2. loaded'[ProcessOf[t]] = Visible /\ Visible' = Visible
    BY <2>1, Same, PackStoreAssumption, Zenon DEF TypeOK
  <2>3. Sees(t)'
    BY <1>0, <2>1, <2>2, Zenon DEF Sees
  <2>4. ASSUME faults < 2, NEW q \in Visible PROVE Members(q) \subseteq keep[t]
    <3>1. q = frames[t]
        BY <1>0, <2>1, <2>4, Zenon DEF Sees
    <3> QED BY <1>0, <2>1, <3>1, Zenon DEF Leaves, Swings
  <2>5. Leaves(t)'
    BY <2>1, <2>2, <2>4, Zenon DEF Leaves, Swings
  <2> QED BY <2>3, <2>5, Zenon
<1>10. ASSUME NEW x \in Id, DeleteLoose(t, x) PROVE Sees(t)' /\ Leaves(t)'
  <2>1. /\ pc[t] = "unloose" /\ pc'[t] = "unloose"
        /\ UNCHANGED <<packFiles, idxFiles, loaded, opened, faults, keep, unpaired>>
    BY <1>10, Zenon DEF DeleteLoose, mark
  <2>2. Visible' = Visible
    BY <2>1, Same, Zenon
  <2>3. Sees(t)'
    BY <1>0, <2>1, <2>2, Zenon DEF Sees
  <2>4. Leaves(t)'
    BY <1>0, <2>1, <2>2, Zenon DEF Leaves, Swings
  <2> QED BY <2>3, <2>4, Zenon
<1>11. ASSUME Repacked(t) PROVE Sees(t)' /\ Leaves(t)'
  <2>1. /\ pc[t] = "unloose" /\ pc'[t] = "sweep" /\ drop'[t] = loose \ keep[t]
        /\ UNCHANGED <<loose, packFiles, idxFiles, loaded, opened, faults, stale, keep, unpaired>>
    BY <1>11, Zenon DEF Repacked, Go, disk, mark, TypeOK
  <2>2. Visible' = Visible
    BY <2>1, Same, Zenon
  <2>3. Sees(t)'
    BY <1>0, <2>1, <2>2, Zenon DEF Sees
  <2>4. Leaves(t)'
    BY <1>0, <2>1, <2>2, Zenon DEF Leaves, Swings
  <2> QED BY <2>3, <2>4, Zenon
<1> QED BY <1>1, <1>2, <1>3, <1>4, <1>5, <1>6, <1>7, <1>8, <1>9, <1>10, <1>11, Zenon DEF Repack

\* Every step of a process that works alone.
LEMMA StepTidy ==
    ASSUME Alone, TypeOK, Tidy, [Next]_vars
    PROVE  Tidy'
<1>1. PICK t \in Task : Task = {t} /\ Process = {ProcessOf[t]}
    BY Zenon DEF Alone
<1>2. Sees(t) /\ Leaves(t)
    BY Zenon DEF Tidy
<1>3. SUFFICES Sees(t)' /\ Leaves(t)'
    BY <1>1, Zenon DEF Tidy
<1>4. faults \in Nat
    BY PackStoreAssumption DEF TypeOK
<1>5. ASSUME WriteFails(t) PROVE Sees(t)' /\ Leaves(t)'
  <2>1. /\ pc[t] \in {"pack", "idx"} /\ End({t}) /\ faults' = faults + 1
        /\ UNCHANGED <<packFiles, idxFiles, loaded, opened>>
    BY <1>5, Zenon DEF WriteFails, disk
  <2>2. pc'[t] = "idle" /\ unpaired'[t] = {} /\ Visible' = Visible
    BY <2>1, Ending, Same, Zenon
  <2>3. faults' # 0 /\ (faults' < 2 => faults = 0 /\ faults < 2)
    BY <1>4, <2>1
  <2>4. faults' < 2 /\ ProcessOf[t] \in opened => Visible \subseteq loaded[ProcessOf[t]]
    BY <1>2, <2>1, <2>3, Zenon DEF Sees
  <2>5. Sees(t)'
    BY <1>2, <2>1, <2>2, <2>3, <2>4, Zenon DEF Sees
  <2>6. Leaves(t)'
    BY <2>2, Zenon DEF Leaves, Swings
  <2> QED BY <2>5, <2>6, Zenon
<1>6. ASSUME NEW p \in Process, Crash(p) PROVE Sees(t)' /\ Leaves(t)'
  <2>1. p = ProcessOf[t]
    BY <1>1, Zenon
  <2> DEFINE T == {u \in Task : ProcessOf[u] = p}
  <2>2. End(T) /\ faults' = faults + 1 /\ opened' = opened \ {p} /\ t \in T
    BY <1>6, <2>1, Zenon DEF Crash
  <2> HIDE DEF T
  <2>3. pc'[t] = "idle" /\ unpaired'[t] = {}
    BY <2>2, Ending, ZenonT(30)
  <2>4. faults' # 0
    BY <1>4, <2>2
  <2>5. Sees(t)'
    BY <2>1, <2>2, <2>3, <2>4, Zenon DEF Sees
  <2>6. Leaves(t)'
    BY <2>3, Zenon DEF Leaves, Swings
  <2> QED BY <2>5, <2>6, Zenon
<1>7. ASSUME NEW p \in Process, Open(p) PROVE Sees(t)' /\ Leaves(t)'
  <2>1. /\ p = ProcessOf[t] /\ p \notin opened /\ loaded' = [loaded EXCEPT ![p] = Visible]
        /\ UNCHANGED <<packFiles, idxFiles, pc, unpaired, faults>>
    BY <1>1, <1>7, Zenon DEF Open, disk, pack
  <2>2. pc[t] = "idle" /\ loaded'[ProcessOf[t]] = Visible /\ Visible' = Visible
    BY <1>2, <2>1, Same, Zenon DEF Sees, TypeOK
  <2>3. Sees(t)'
    BY <1>2, <2>1, <2>2, Zenon DEF Sees
  <2>4. Leaves(t)'
    BY <2>1, <2>2, Zenon DEF Leaves, Swings
  <2> QED BY <2>3, <2>4, Zenon
<1>8. ASSUME (\E x \in Id : Age(x)) \/ UNCHANGED vars PROVE Sees(t)' /\ Leaves(t)'
  <2>1. /\ UNCHANGED <<loose, packFiles, idxFiles, loaded, opened, pc, faults>>
        /\ UNCHANGED <<stale, keep, frames, retire, unpaired, drop>>
    BY <1>8, Zenon DEF Age, vars, disk, mark, pack
  <2>2. Visible' = Visible
    BY <2>1, Same, Zenon
  <2>3. Sees(t)'
    BY <1>2, <2>1, <2>2, Zenon DEF Sees
  <2>4. Leaves(t)'
    BY <1>2, <2>1, <2>2, Zenon DEF Leaves
  <2> QED BY <2>3, <2>4, Zenon
<1>9. ASSUME NEW u \in Task PROVE u = t
    BY <1>1, Zenon
<1> QED BY <1>5, <1>6, <1>7, <1>8, <1>9, WriteTidy, CollectTidy, RepackTidy, Zenon DEF Next

\* GcCollects: a collection that runs to its end leaves on disk, packed or
\* loose, only what is reachable from the roots it read or within grace, for a
\* process that works alone and has survived at most one crash or failed write.
THEOREM Collects == Alone => (Spec => GcCollects)
<1> SUFFICES ASSUME Alone PROVE Spec => GcCollects
    BY Zenon
<1>1. Init => Tidy
  <2> SUFFICES ASSUME Init, NEW t \in Task PROVE Sees(t) /\ Leaves(t)
    BY Zenon DEF Tidy
  <2>1. pc[t] = "idle" /\ unpaired[t] = {} /\ idxFiles = {} /\ opened = {}
    BY Zenon DEF Init
  <2>2. Sees(t)
    BY <2>1, Zenon DEF Sees
  <2>3. Leaves(t)
    BY <2>1, Zenon DEF Leaves, Swings
  <2> QED BY <2>2, <2>3, Zenon
<1>2. TypeOK /\ Tidy /\ [Next]_vars => Tidy'
    BY StepTidy, Zenon
<1>3. Tidy => [faults < 2 =>
                 \A t \in Task : Swept(t) => OnDisk \subseteq keep[t] \cup (loose \ stale[t])]_vars
  <2> SUFFICES ASSUME Tidy, faults < 2, NEW t \in Task, Swept(t)
               PROVE  OnDisk \subseteq keep[t] \cup (loose \ stale[t])
    BY Zenon
  <2>1. pc[t] = "sweep" /\ drop[t] = {}
    BY Zenon DEF Swept
  <2>2. Sees(t) /\ Leaves(t)
    BY Zenon DEF Tidy
  <2>3. loose \subseteq keep[t] \cup (loose \ stale[t]) /\ \A q \in Visible : Members(q) \subseteq keep[t]
    BY <2>1, <2>2, Zenon DEF Leaves
  <2> QED BY <2>3, Zenon DEF OnDisk
<1> QED BY <1>1, <1>2, <1>3, TypeCorrect, PTL DEF Spec, GcCollects
=============================================================================
