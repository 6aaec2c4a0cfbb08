-------------------------- MODULE TimelinesProofs ---------------------------
(***************************************************************************)
(* Proofs about Timelines, for any number of tasks, timelines, snapshots,  *)
(* keys and policy roots: what a call has checked when it reaches its      *)
(* commit still holds of the head that the commit replaces.                *)
(***************************************************************************)
EXTENDS Timelines, WalkProofs, WellFoundedInduction, TLAPS

-----------------------------------------------------------------------------
(* What is known of a call at each of its steps *)

\* Past ReadHead: nothing is denied, and the head is the one expected.
Checked(k) ==
    /\ call[k].old \in DOMAIN snaps
    /\ DeniedPaths(k) = {} /\ DeniedRemoved(k, call[k].old) = {} /\ ~Stale(k, call[k].old)

\* The approvals that the call asks for are those of the local hooks and of a
\* root it has met.
Asked(k) ==
    \E r \in call[k].pins :
        /\ r # Unresolvable
        /\ call[k].needed = Needed(r, call[k].name)

Approved(k) ==
    /\ call[k].registry \in call[k].registries
    /\ Approves(k, call[k].registry, call[k].needed)

\* A timeline that no step deletes, and that only goes forward.
Forward(t) == t \in FastForward \ Expired

\* The head of the target has not gone back behind one that a merge has read.
NotBehind(k, s) == Forward(call[k].name) => head[call[k].name] # None /\ s <= head[call[k].name]

\* What a merge has read, and what it has stored.
Diffed(k) ==
    LET anc == RootOf(call[k].base)
        our == RootOf(call[k].ours)
        thr == RootOf(call[k].theirs)
    IN  \A p \in Path : /\ ~Conflict(anc[p], our[p], thr[p])
                        /\ RootOf(call[k].snap)[p] = Merged(anc[p], our[p], thr[p])

Merging(k) ==
    /\ call[k].pc \in {"target", "theirs", "ours"} => call[k].sourceHead \in DOMAIN snaps
    /\ call[k].pc \in {"theirs", "ours"} =>
         call[k].expected \in DOMAIN snaps /\ NotBehind(k, call[k].expected)
    /\ call[k].pc = "ours" => call[k].theirs \in DOMAIN snaps
    /\ call[k].pc \in Advancing =>
         /\ call[k].expected \in DOMAIN snaps /\ call[k].ours \in DOMAIN snaps
         /\ Forward(call[k].name) => call[k].expected <= call[k].ours
         /\ NotBehind(k, call[k].ours) /\ Diffed(k)

Good(k) ==
    /\ pin \in call[k].pins /\ approvers \in call[k].registries
    /\ call[k].pc \in {"tags", "delete"} => call[k].name \in Expired
    /\ call[k].pc \in Advancing => call[k].snap \in DOMAIN snaps
    /\ call[k].pc \in Advancing \ {"rules", "head"} => Checked(k)
    /\ call[k].pc \in {"lineage", "approvers", "attestations", "swap"} => Asked(k)
    /\ call[k].pc \in {"approvers", "attestations", "swap"} /\ call[k].verdict = "allowed" =>
         (call[k].name \in FastForward => call[k].old \in Ancestors[call[k].snap])
    /\ call[k].pc = "attestations" => call[k].registry \in call[k].registries
    /\ call[k].pc = "swap" /\ call[k].verdict = "allowed" => call[k].needed = 0 \/ Approved(k)
    /\ call[k].pc = "audit" => <<call[k].name, call[k].old, call[k].snap>> \in landed
    /\ call[k].pc \in {"source", "target", "theirs", "ours"} => call[k].source \in Timeline
    /\ call[k].source # None => Merging(k)

CallsGood == \A k \in Task : call[k] # Idle => Good(k)

IInv == TypeOK /\ AuditTrue /\ CallsGood

-----------------------------------------------------------------------------
(* The history *)

\* Snapshots are numbered, and the parents of one are below it.
LEMMA History ==
    ASSUME TypeOK
    PROVE  /\ DOMAIN snaps = 1..Len(snaps) /\ Len(snaps) \in Nat /\ DOMAIN snaps \subseteq Snapshot
           /\ DOMAIN snaps \in SUBSET Nat /\ None \notin DOMAIN snaps
           /\ [s \in DOMAIN snaps |-> snaps[s].parents] \in [DOMAIN snaps -> SUBSET DOMAIN snaps]
           /\ \A s \in DOMAIN snaps : /\ snaps[s] \in [root : Tree, parents : SUBSET Snapshot]
                                      /\ \A e \in snaps[s].parents : e < s
<1>1. /\ DOMAIN snaps = 1..Len(snaps) /\ Len(snaps) \in Nat
      /\ \A s \in DOMAIN snaps : snaps[s] \in [root : Tree, parents : SUBSET Snapshot]
  <2> DEFINE stored == [root : Tree, parents : SUBSET Snapshot]
  <2>1. snaps \in Seq(stored)
    BY Zenon DEF TypeOK
  <2> HIDE DEF stored
  <2>2. /\ DOMAIN snaps = 1..Len(snaps) /\ Len(snaps) \in Nat
        /\ \A s \in DOMAIN snaps : snaps[s] \in stored
    BY <2>1
  <2> QED BY <2>2, Zenon DEF stored
<1>2. DOMAIN snaps \subseteq Snapshot
    BY <1>1, TimelinesAssumption DEF TypeOK, Snapshot
<1>3. \A s \in DOMAIN snaps : \A e \in snaps[s].parents : e < s /\ e \in DOMAIN snaps
    BY <1>1 DEF TypeOK
<1> QED BY <1>1, <1>2, <1>3, TimelinesAssumption

\* A set of numbers has a least one.
LEMMA LeastNumber ==
    ASSUME NEW T \in SUBSET Nat, T # {}
    PROVE  \E x \in T : \A y \in T : x <= y
<1>1. PICK x \in T : \A y \in T : ~(<<y, x>> \in OpToRel(<, Nat))
    BY NatLessThanWellFounded, WFMin, Zenon
<1>2. \A y \in T : ~(y < x)
    BY <1>1, Zenon DEF OpToRel
<1> QED BY <1>2

\* Edges that lead to lower numbers make no cycle.
LEMMA DownIsAcyclic ==
    ASSUME NEW nodes \in SUBSET Nat, NEW edges \in [nodes -> SUBSET nodes],
           \A o \in nodes : \A e \in edges[o] : e < o
    PROVE  Acyclic(nodes, edges)
<1> SUFFICES ASSUME NEW S \in (SUBSET nodes) \ {{}} PROVE \E o \in S : edges[o] \cap S = {}
    BY Zenon DEF Acyclic
<1>1. PICK o \in S : \A y \in S : o <= y
    BY LeastNumber, Zenon
<1>2. \A e \in edges[o] : e \notin S
    BY <1>1
<1> QED BY <1>1, <1>2, Zenon

\* The ancestors of a snapshot are stored, and none of them is above it.
LEMMA AncestorsBelow ==
    ASSUME TypeOK, NEW s \in DOMAIN snaps
    PROVE  \A x \in Ancestors[s] : x \in DOMAIN snaps /\ x <= s
<1> DEFINE edges == [i \in DOMAIN snaps |-> snaps[i].parents]
<1>1. /\ DOMAIN snaps \in SUBSET Nat /\ edges \in [DOMAIN snaps -> SUBSET DOMAIN snaps]
      /\ \A o \in DOMAIN snaps : \A e \in edges[o] : e < o
    BY History, Zenon
<1>2. Ancestors = Walk(DOMAIN snaps, edges)
    BY Zenon DEF Ancestors
<1> HIDE DEF edges
<1> DEFINE Below == {x \in DOMAIN snaps : x <= s}
<1>3. \A y \in Below \cap DOMAIN snaps : edges[y] \subseteq Below
    BY <1>1
<1>4. s \in Below \cap DOMAIN snaps
    BY <1>1
<1> HIDE DEF Below
<1>5. Walk(DOMAIN snaps, edges)[s] \subseteq Below
    BY <1>1, <1>3, <1>4, DownIsAcyclic, WalkWithin
<1> QED BY <1>2, <1>5, Zenon DEF Below

\* Storing another snapshot changes nobody's ancestors.
Kept ==
    /\ DOMAIN snaps \subseteq DOMAIN snaps'
    /\ \A s \in DOMAIN snaps : snaps'[s] = snaps[s]

\* The ancestors of a stored snapshot are settled once and for all.
LEMMA AncestorsStay ==
    ASSUME TypeOK, TypeOK', Kept, NEW s \in DOMAIN snaps
    PROVE  Ancestors'[s] = Ancestors[s]
<1> DEFINE edges == [i \in DOMAIN snaps |-> snaps[i].parents]
           further == [i \in DOMAIN snaps' |-> snaps'[i].parents]
<1>1. /\ DOMAIN snaps \in SUBSET Nat /\ edges \in [DOMAIN snaps -> SUBSET DOMAIN snaps]
      /\ \A o \in DOMAIN snaps : \A e \in edges[o] : e < o
    BY History, Zenon
<1>2. further \in [DOMAIN snaps' -> SUBSET DOMAIN snaps']
  <2>1. /\ DOMAIN snaps' = 1..Len(snaps') /\ Len(snaps') \in Nat
        /\ \A i \in DOMAIN snaps' : snaps'[i].parents \subseteq 1..(i - 1)
    BY DEF TypeOK
  <2> QED BY <2>1
<1>3. DOMAIN snaps \subseteq DOMAIN snaps' /\ \A o \in DOMAIN snaps : further[o] = edges[o]
    BY Zenon DEF Kept
<1>4. Ancestors = Walk(DOMAIN snaps, edges) /\ Ancestors' = Walk(DOMAIN snaps', further)
    BY Zenon DEF Ancestors
<1> HIDE DEF edges, further
<1>5. Acyclic(DOMAIN snaps, edges)
    BY <1>1, DownIsAcyclic, Zenon
<1> QED BY <1>1, <1>2, <1>3, <1>4, <1>5, WalkStays

-----------------------------------------------------------------------------
(* Types *)

\* A call that is under way is not idle.
LEMMA Running ==
    ASSUME TypeOK, NEW k \in Task
    PROVE  /\ call[k].pc # "idle" => call[k] \in Call /\ call[k] # Idle
           /\ call[k] # Idle => call[k] \in Call /\ call[k].pc # "idle"
BY DEF TypeOK, Idle, Call, PC, Advancing

\* A step that stores no snapshot and sets one call.
LEMMA SetCall ==
    ASSUME TypeOK, NEW k \in Task, NEW c \in Call \cup {Idle}, call' = [call EXCEPT ![k] = c],
           snaps' = snaps, head' \in [Timeline -> DOMAIN snaps \cup {None}],
           audit' \subseteq Event, landed' \subseteq Timeline \X (DOMAIN snaps) \X (DOMAIN snaps),
           calls' \in 0..MaxCalls, UNCHANGED admin
    PROVE  TypeOK'
<1>1. call' \in [Task -> Call \cup {Idle}]
    BY Zenon DEF TypeOK
<1>2. Call' = Call
    BY Zenon DEF Call, Stored
<1> QED BY <1>1, <1>2, Zenon DEF TypeOK, admin

\* An event recorded for a stored snapshot.
LEMMA RecordType ==
    ASSUME TypeOK, NEW k \in Task, call[k] \in Call, call[k].snap \in DOMAIN snaps,
           NEW old \in Stored, NEW decision \in Decision, Record(k, old, decision)
    PROVE  audit' \subseteq Event
BY History, SMTT(30) DEF Record, TypeOK, Call, Event, Stored

\* Beginning a call.
LEMMA StartedType ==
    ASSUME TypeOK, NEW pc \in PC, NEW t \in Timeline
    PROVE  Started(pc, t) \in Call
BY Zenon DEF Started, Call, Stored, Decision, TypeOK

\* A step of one call that stores no snapshot, moves no head and lands nothing.
Quiet(k) == UNCHANGED <<snaps, head, landed, calls, admin>>

\* A quiet step keeps the types if its call and its event have theirs.
LEMMA QuietType ==
    ASSUME TypeOK, NEW k \in Task, Quiet(k), call' \in [Task -> Call \cup {Idle}], audit' \subseteq Event
    PROVE  TypeOK'
<1>1. Call' = Call
    BY Zenon DEF Call, Stored, Quiet
<1> QED BY <1>1, Zenon DEF TypeOK, admin, Quiet

\* A step of an advance keeps the types.
LEMMA AdvanceType ==
    ASSUME IInv, NEW k \in Task, AdvanceStep(k)
    PROVE  TypeOK'
<1>1. /\ TypeOK /\ call[k] \in Call /\ Good(k) /\ call[k].pc \in Advancing
      /\ call[k].snap \in DOMAIN snaps /\ audit \subseteq Event
  <2>1. call[k].pc \in Advancing
    BY Zenon
       DEF AdvanceStep, CheckTimeline, ReadHead, ReadPolicy, CheckLineage, LoadApprovers, CountApprovals,
           Refuse, Swap, SwapFails, RecordAllowed, At, Advancing
  <2>2. call[k].pc # "idle"
    BY <2>1, Zenon DEF Advancing
  <2>3. TypeOK /\ call[k] \in Call /\ Good(k)
    BY <2>2, Running, Zenon DEF IInv, CallsGood
  <2> QED BY <2>1, <2>3, Zenon DEF Good, TypeOK
<1>2. \A t \in Timeline : head[t] \in Stored
    BY <1>1, Zenon DEF TypeOK, Stored
<1>3. ASSUME Returns(k) PROVE call' \in [Task -> Call \cup {Idle}]
    BY <1>1, <1>3, Zenon DEF Returns, TypeOK
<1>4. CASE CheckTimeline(k)
  <2>1. [call[k] EXCEPT !.rules = protected, !.auditOld = head[call[k].name], !.pc = "head"] \in Call
    BY <1>1, <1>2, Zenon DEF Call, PC, Advancing, TypeOK
  <2>2. call' \in [Task -> Call \cup {Idle}]
    BY <1>1, <1>3, <1>4, <2>1, Zenon DEF CheckTimeline, TypeOK
  <2>3. audit' \subseteq Event
    BY <1>1, <1>2, <1>4, RecordType, Zenon DEF CheckTimeline, Call, Decision
  <2> QED BY <1>1, <1>4, <2>2, <2>3, QuietType, Zenon DEF CheckTimeline, Quiet
<1>5. CASE ReadHead(k)
  <2>1. [call[k] EXCEPT !.old = head[call[k].name], !.pc = "policy"] \in Call
    BY <1>1, <1>2, Zenon DEF Call, PC, Advancing
  <2>2. call' \in [Task -> Call \cup {Idle}]
    BY <1>1, <1>3, <1>5, <2>1, Zenon DEF ReadHead, TypeOK
  <2>3. audit' \subseteq Event
    BY <1>1, <1>5, RecordType, Zenon DEF ReadHead, Call, Decision
  <2> QED BY <1>1, <1>5, <2>2, <2>3, QuietType, Zenon DEF ReadHead, Quiet
<1>6. CASE ReadPolicy(k)
  <2>1. pin # Unresolvable =>
          [call[k] EXCEPT !.pc = "lineage",
             !.needed = Needed(pin, call[k].name)] \in Call
    <3>1. call[k].name \in Timeline /\ pin \in Root \cup {None}
        BY <1>1, Zenon DEF Call, TypeOK
    <3>2. pin # Unresolvable => Needed(pin, call[k].name) \in Nat
        BY <3>1, TimelinesAssumption DEF Needed
    <3> QED BY <1>1, <3>2, Zenon DEF Call, PC, Advancing
  <2>2. call' \in [Task -> Call \cup {Idle}]
    BY <1>1, <1>3, <1>6, <2>1, Zenon DEF ReadPolicy, TypeOK
  <2> QED BY <1>1, <1>6, <2>2, QuietType, Zenon DEF ReadPolicy, Quiet
<1>7. CASE CheckLineage(k)
  <2>1. \A v \in Decision : [call[k] EXCEPT !.pc = AfterLineage(k), !.verdict = v] \in Call
    BY <1>1, ZenonT(30) DEF Call, PC, Advancing, AfterLineage
  <2>2. call' \in [Task -> Call \cup {Idle}]
    BY <1>1, <1>7, <2>1, Zenon DEF CheckLineage, TypeOK, Decision
  <2> QED BY <1>1, <1>7, <2>2, QuietType, Zenon DEF CheckLineage, Quiet
<1>8. CASE LoadApprovers(k)
  <2>1. [call[k] EXCEPT !.pc = "attestations", !.registry = approvers] \in Call
    BY <1>1, Zenon DEF Call, PC, Advancing, TypeOK
  <2>2. call' \in [Task -> Call \cup {Idle}]
    BY <1>1, <1>8, <2>1, Zenon DEF LoadApprovers, TypeOK
  <2> QED BY <1>1, <1>8, <2>2, QuietType, Zenon DEF LoadApprovers, Quiet
<1>9. CASE CountApprovals(k)
  <2>1. \A v \in Decision : [call[k] EXCEPT !.pc = "swap", !.verdict = v] \in Call
    BY <1>1, Zenon DEF Call, PC, Advancing
  <2>2. call[k].verdict \in Decision
    BY <1>1, Zenon DEF Call
  <2>3. call' \in [Task -> Call \cup {Idle}]
    BY <1>1, <1>9, <2>1, <2>2, Zenon DEF CountApprovals, TypeOK, Decision
  <2> QED BY <1>1, <1>9, <2>3, QuietType, Zenon DEF CountApprovals, Quiet
<1>10. CASE Refuse(k) \/ SwapFails(k) \/ RecordAllowed(k)
  <2>1. audit' \subseteq Event
    BY <1>1, <1>10, RecordType, SMTT(30) DEF Refuse, SwapFails, RecordAllowed, Call, Decision
  <2> QED BY <1>1, <1>3, <1>10, <2>1, QuietType, Zenon DEF Refuse, SwapFails, RecordAllowed, Quiet
<1>11. CASE Swap(k)
  <2>1. [call[k] EXCEPT !.pc = "audit"] \in Call
    BY <1>1, Zenon DEF Call, PC, Advancing
  <2>2. call[k].name \in Timeline /\ call[k].old \in DOMAIN snaps
    BY <1>1, <1>11, Zenon DEF Call, Good, Checked, Swap, At
  <2>3. call' \in [Task -> Call \cup {Idle}] /\ Call' = Call
    BY <1>1, <1>11, <2>1, Zenon DEF Swap, Goes, TypeOK, Call, Stored
  <2>4. head' \in [Timeline -> DOMAIN snaps \cup {None}]
    BY <1>1, <1>11, <2>2, Zenon DEF Swap, TypeOK
  <2>5. landed' \subseteq Timeline \X (DOMAIN snaps) \X (DOMAIN snaps)
    BY <1>1, <1>11, <2>2 DEF Swap, TypeOK
  <2> QED BY <1>1, <1>11, <2>3, <2>4, <2>5, Zenon DEF Swap, TypeOK, admin
<1> QED BY <1>4, <1>5, <1>6, <1>7, <1>8, <1>9, <1>10, <1>11, Zenon DEF AdvanceStep

\* A merge stores snapshot s, with the tree that the diff has given.
Stores(k, base, s, tree) ==
    /\ \/ s \in DOMAIN snaps /\ snaps[s].root = tree /\ snaps' = snaps
       \/ /\ s = Len(snaps) + 1
          /\ snaps' = Append(snaps, [root |-> tree, parents |-> {call[k].expected, call[k].sourceHead}])
    /\ call' = [call EXCEPT ![k] =
         [call[k] EXCEPT !.ours = head[call[k].name], !.base = base, !.snap = s, !.pc = "rules"]]
    /\ \A p \in Path : ~Conflict(RootOf(base)[p], RootOf(head[call[k].name])[p], RootOf(call[k].theirs)[p])
    /\ \A p \in Path : tree[p] =
         Merged(RootOf(base)[p], RootOf(head[call[k].name])[p], RootOf(call[k].theirs)[p])

\* The snapshot of a merge is appended to the history, or in it already.
LEMMA MergeForm ==
    ASSUME IInv, NEW k \in Task, Merge(k), ~(Returns(k) /\ UNCHANGED snaps)
    PROVE  /\ head[call[k].name] \in DOMAIN snaps /\ call[k].theirs \in DOMAIN snaps
           /\ \E base \in Stored, s \in Snapshot, tree \in Tree : Stores(k, base, s, tree)
<1> DEFINE ours == head[call[k].name]
<1>1. /\ TypeOK /\ call[k] \in Call /\ Good(k) /\ call[k].pc = "ours"
    BY Running, Zenon DEF Merge, At, IInv, CallsGood
<1>2. ours # None /\ ours \in DOMAIN snaps /\ call[k].theirs \in DOMAIN snaps
  <2>1. call[k].name \in Timeline /\ call[k].source \in Timeline
    BY <1>1, Zenon DEF Good, Call
  <2>2. call[k].source # None
    BY <2>1, TimelinesAssumption, Zenon
  <2> QED BY <1>1, <2>1, <2>2, Zenon DEF Merge, Good, Merging, TypeOK
<1>3. \A b \in CommonAncestor(call[k].theirs, ours) : b \in Stored
    BY <1>1, <1>2, AncestorsBelow, Zenon DEF CommonAncestor, Stored
<1>4. \A b \in Stored : RootOf(b) \in Tree
    BY <1>1, History, Zenon DEF RootOf, Stored, Tree
<1>5. PICK base \in CommonAncestor(call[k].theirs, ours) :
        /\ \A p \in Path : ~Conflict(RootOf(base)[p], RootOf(ours)[p], RootOf(call[k].theirs)[p])
        /\ PutSnapshot(k, [p \in Path |-> Merged(RootOf(base)[p], RootOf(ours)[p], RootOf(call[k].theirs)[p])],
                        {call[k].expected, call[k].sourceHead},
                        [call[k] EXCEPT !.ours = ours, !.base = base])
    BY <1>2, Zenon DEF Merge
<1> DEFINE tree == [p \in Path |-> Merged(RootOf(base)[p], RootOf(ours)[p], RootOf(call[k].theirs)[p])]
<1>6. tree \in Tree
  <2>1. RootOf(base) \in Tree /\ RootOf(ours) \in Tree /\ RootOf(call[k].theirs) \in Tree
    BY <1>2, <1>3, <1>4, <1>5, Zenon DEF Stored
  <2> QED BY <2>1, Zenon DEF Merged, Tree
<1>7. PICK s \in Snapshot :
        /\ \/ s \in DOMAIN snaps /\ snaps[s].root = tree /\ snaps' = snaps
           \/ /\ s = Len(snaps) + 1
              /\ snaps' = Append(snaps, [root |-> tree, parents |-> {call[k].expected, call[k].sourceHead}])
        /\ call' = [call EXCEPT ![k] = [call[k] EXCEPT !.ours = ours, !.base = base], ![k].snap = s,
                                ![k].pc = "rules"]
  <2> DEFINE new == [root |-> tree, parents |-> {call[k].expected, call[k].sourceHead}]
  <2>1. PutSnapshot(k, tree, {call[k].expected, call[k].sourceHead},
                    [call[k] EXCEPT !.ours = ours, !.base = base])
    BY <1>5, Zenon
  <2>2. new.root = tree
    BY Zenon
  <2>3. \E s \in 1..MaxSnapshots :
          /\ IF s \in DOMAIN snaps THEN snaps[s] = new /\ UNCHANGED snaps
             ELSE s = Len(snaps) + 1 /\ snaps' = Append(snaps, new)
          /\ call' = [call EXCEPT ![k] = [call[k] EXCEPT !.ours = ours, !.base = base], ![k].snap = s,
                                  ![k].pc = "rules"]
    <3> HIDE DEF tree
    <3> QED BY <2>1, Zenon DEF PutSnapshot
  <2> HIDE DEF new, tree
  <2>4. PICK s \in Snapshot :
          /\ IF s \in DOMAIN snaps THEN snaps[s] = new /\ UNCHANGED snaps
             ELSE s = Len(snaps) + 1 /\ snaps' = Append(snaps, new)
          /\ call' = [call EXCEPT ![k] = [call[k] EXCEPT !.ours = ours, !.base = base], ![k].snap = s,
                                  ![k].pc = "rules"]
    BY <2>3, Zenon DEF Snapshot
  <2> QED BY <2>2, <2>4, Zenon DEF new
<1>8. call' = [call EXCEPT ![k] =
                 [call[k] EXCEPT !.ours = ours, !.base = base, !.snap = s, !.pc = "rules"]]
    BY <1>1, <1>7, Zenon DEF TypeOK, Call
<1>9. base \in Stored
    BY <1>3, <1>5, Zenon
<1>10. \A p \in Path : tree[p] = Merged(RootOf(base)[p], RootOf(ours)[p], RootOf(call[k].theirs)[p])
    BY Zenon
<1> HIDE DEF tree
<1>11. Stores(k, base, s, tree)
    BY <1>5, <1>7, <1>8, <1>10, Zenon DEF Stores
<1> QED BY <1>2, <1>6, <1>9, <1>11, Zenon

\* A longer history has the old one as its beginning.
LEMMA Appended ==
    ASSUME TypeOK, NEW tree \in Tree, NEW parents \in SUBSET DOMAIN snaps,
           snaps' = Append(snaps, [root |-> tree, parents |-> parents]), Len(snaps) + 1 \in Snapshot
    PROVE  /\ Kept /\ DOMAIN snaps' = 1..(Len(snaps) + 1)
           /\ snaps'[Len(snaps) + 1].root = tree
           /\ snaps' \in Seq([root : Tree, parents : SUBSET Snapshot]) /\ Len(snaps') <= MaxSnapshots
           /\ \A i \in DOMAIN snaps' : snaps'[i].parents \subseteq 1..(i - 1)
<1> DEFINE stored == [root : Tree, parents : SUBSET Snapshot]
           new == [root |-> tree, parents |-> parents]
<1>1. new \in stored /\ new.root = tree /\ new.parents = parents
    BY History, Zenon
<1>2. /\ snaps \in Seq(stored) /\ DOMAIN snaps = 1..Len(snaps) /\ Len(snaps) \in Nat
      /\ \A i \in DOMAIN snaps : snaps[i].parents \subseteq 1..(i - 1)
    BY History, Zenon DEF TypeOK
<1>3. snaps' = Append(snaps, new)
    BY Zenon
<1> HIDE DEF stored, new
<1>4. /\ snaps' \in Seq(stored) /\ Len(snaps') = Len(snaps) + 1 /\ DOMAIN snaps' = 1..(Len(snaps) + 1)
      /\ snaps'[Len(snaps) + 1] = new /\ \A i \in DOMAIN snaps : snaps'[i] = snaps[i]
    BY <1>1, <1>2, <1>3
<1>5. \A i \in DOMAIN snaps' : snaps'[i].parents \subseteq 1..(i - 1)
  <2> SUFFICES ASSUME NEW i \in DOMAIN snaps' PROVE snaps'[i].parents \subseteq 1..(i - 1)
    BY Zenon
  <2>1. CASE i = Len(snaps) + 1
    BY <1>1, <1>2, <1>4, <2>1
  <2>2. CASE i # Len(snaps) + 1
    BY <1>2, <1>4, <2>2
  <2> QED BY <2>1, <2>2, Zenon
<1>6. Len(snaps') <= MaxSnapshots
    BY <1>4, TimelinesAssumption DEF Snapshot
<1>7. Kept
    BY <1>2, <1>4 DEF Kept
<1> QED BY <1>1, <1>4, <1>5, <1>6, <1>7, Zenon DEF stored

\* So what was typed by the old history is typed by the new one.
LEMMA KeptType ==
    ASSUME TypeOK, Kept,
           snaps' \in Seq([root : Tree, parents : SUBSET Snapshot]), Len(snaps') <= MaxSnapshots,
           \A i \in DOMAIN snaps' : snaps'[i].parents \subseteq 1..(i - 1),
           NEW k \in Task, call'[k] \in Call' \cup {Idle}, call' = [call EXCEPT ![k] = call'[k]],
           UNCHANGED <<head, audit, landed, calls, admin>>
    PROVE  TypeOK'
<1>1. Call \subseteq Call'
  <2>1. Stored \subseteq Stored'
    BY Zenon DEF Kept, Stored
  <2> QED BY <2>1, Zenon DEF Call
<1>2. call' \in [Task -> Call' \cup {Idle}]
    BY <1>1, Zenon DEF TypeOK
<1>3. head' \in [Timeline -> DOMAIN snaps' \cup {None}]
    BY Zenon DEF TypeOK, Kept
<1>4. /\ attested' \subseteq Timeline \X (DOMAIN snaps') \X Key
      /\ landed' \subseteq Timeline \X (DOMAIN snaps') \X (DOMAIN snaps')
    BY Zenon DEF TypeOK, Kept, admin
<1> QED BY <1>2, <1>3, <1>4, Zenon DEF TypeOK, admin

\* A step of a merge keeps the types, and only appends to the history.
LEMMA MergeType ==
    ASSUME IInv, NEW k \in Task, MergeStep(k)
    PROVE  TypeOK' /\ Kept
<1>1. /\ TypeOK /\ call[k] \in Call /\ Good(k) /\ audit \subseteq Event
      /\ call[k].pc \in {"source", "target", "theirs", "ours"}
      /\ call[k].source \in Timeline /\ call[k].name \in Timeline /\ Merging(k)
  <2>1. call[k].pc \in {"source", "target", "theirs", "ours"}
    BY Zenon DEF MergeStep, ReadSource, ReadTarget, MergeDenied, ReadTheirs, Merge, ReadInto, At
  <2>2. call[k].pc # "idle"
    BY <2>1, Zenon
  <2>3. TypeOK /\ call[k] \in Call /\ Good(k)
    BY <2>2, Running, Zenon DEF IInv, CallsGood
  <2> QED BY <2>1, <2>3, TimelinesAssumption, Zenon DEF Good, Call, TypeOK
<1>2. \A t \in Timeline : head[t] \in Stored
    BY <1>1, Zenon DEF TypeOK, Stored
<1>3. ASSUME snaps' = snaps PROVE Kept
    BY <1>3, Zenon DEF Kept
<1>4. ASSUME Returns(k), UNCHANGED <<snaps, head, audit, landed, calls, admin>>
      PROVE  TypeOK'
  <2>1. call' \in [Task -> Call \cup {Idle}]
    BY <1>1, <1>4, Zenon DEF Returns, TypeOK
  <2> QED BY <1>1, <1>4, <2>1, QuietType, Zenon DEF Quiet
<1>5. CASE ReadSource(k)
  <2>1. [[call[k] EXCEPT !.sourceHead = head[call[k].source]] EXCEPT !.pc = "target"] \in Call
    BY <1>1, <1>2, Zenon DEF Call, PC
  <2>2. ~Returns(k) => call' \in [Task -> Call \cup {Idle}]
    BY <1>1, <1>5, <2>1, Zenon DEF ReadSource, ReadInto, TypeOK
  <2> QED BY <1>1, <1>3, <1>4, <1>5, <2>2, QuietType, Zenon DEF ReadSource, ReadInto, Quiet
<1>6. CASE ReadTarget(k)
  <2>1. [[call[k] EXCEPT !.expected = head[call[k].name]] EXCEPT !.pc = "theirs"] \in Call
    BY <1>1, <1>2, Zenon DEF Call, PC
  <2>2. ~Returns(k) => call' \in [Task -> Call \cup {Idle}]
    BY <1>1, <1>6, <2>1, Zenon DEF ReadTarget, ReadInto, TypeOK
  <2> QED BY <1>1, <1>3, <1>4, <1>6, <2>2, QuietType, Zenon DEF ReadTarget, ReadInto, Quiet
<1>7. CASE ReadTheirs(k)
  <2>1. [[call[k] EXCEPT !.theirs = head[call[k].source]] EXCEPT !.pc = "ours"] \in Call
    BY <1>1, <1>2, Zenon DEF Call, PC
  <2>2. ~Returns(k) => call' \in [Task -> Call \cup {Idle}]
    BY <1>1, <1>7, <2>1, Zenon DEF ReadTheirs, ReadInto, TypeOK
  <2> QED BY <1>1, <1>3, <1>4, <1>7, <2>2, QuietType, Zenon DEF ReadTheirs, ReadInto, Quiet
<1>8. CASE MergeDenied(k)
    BY <1>3, <1>4, <1>8, Zenon DEF MergeDenied
<1>9. CASE Merge(k) /\ Returns(k) /\ snaps' = snaps
    BY <1>3, <1>4, <1>9, Zenon DEF Merge
<1>10. CASE Merge(k) /\ ~(Returns(k) /\ UNCHANGED snaps)
  <2>1. UNCHANGED <<head, audit, landed, calls, admin>>
    BY <1>10, Zenon DEF Merge
  <2>2. head[call[k].name] \in DOMAIN snaps
    BY <1>10, MergeForm, Zenon
  <2>3. PICK base \in Stored, s \in Snapshot, tree \in Tree : Stores(k, base, s, tree)
    BY <1>10, MergeForm, Zenon
  <2> DEFINE c == [call[k] EXCEPT !.ours = head[call[k].name], !.base = base, !.snap = s, !.pc = "rules"]
  <2>4. /\ Kept /\ s \in DOMAIN snaps'
        /\ snaps' \in Seq([root : Tree, parents : SUBSET Snapshot]) /\ Len(snaps') <= MaxSnapshots
        /\ \A i \in DOMAIN snaps' : snaps'[i].parents \subseteq 1..(i - 1)
    <3>1. CASE s \in DOMAIN snaps /\ snaps' = snaps
        BY <1>1, <1>3, <3>1, Zenon DEF TypeOK
    <3>2. CASE ~(s \in DOMAIN snaps /\ snaps' = snaps)
      <4>1. {call[k].expected, call[k].sourceHead} \in SUBSET DOMAIN snaps
        BY <1>1, <1>10, Zenon DEF Merging, Merge, At
      <4>2. /\ Kept /\ DOMAIN snaps' = 1..(Len(snaps) + 1)
            /\ snaps' \in Seq([root : Tree, parents : SUBSET Snapshot]) /\ Len(snaps') <= MaxSnapshots
            /\ \A i \in DOMAIN snaps' : snaps'[i].parents \subseteq 1..(i - 1)
        BY <1>1, <2>3, <3>2, <4>1, Appended, Zenon DEF Stores
      <4> QED BY <1>1, <2>3, <3>2, <4>2, History DEF Stores
    <3> QED BY <3>1, <3>2, Zenon
  <2>5. c \in Call'
    BY <1>1, <2>2, <2>3, <2>4, ZenonT(40) DEF Call, Stored, Kept, PC, Advancing
  <2>6. call'[k] = c /\ call' = [call EXCEPT ![k] = call'[k]]
    BY <1>1, <2>3, Zenon DEF TypeOK, Stores
  <2> HIDE DEF c
  <2> QED BY <1>1, <2>1, <2>4, <2>5, <2>6, KeptType, Zenon
<1> QED BY <1>5, <1>6, <1>7, <1>8, <1>9, <1>10, Zenon DEF MergeStep

\* A task begins a call, of any of the three kinds.
Begins(k) ==
    \/ \E t \in Timeline, s \in DOMAIN snaps : CallAdvance(k, t, s)
    \/ \E p \in Proposal : CallMerge(k, p[1], p[2])
    \/ \E t \in Timeline : CallPrune(k, t)

\* Somebody else changes a policy, an approval, a label, a tag or a timeline.
Edits ==
    \/ \E r \in Root : SetPolicyRoot(r)
    \/ \E registry \in SUBSET Key : SetApprovers(registry)
    \/ \E t \in Timeline, s \in DOMAIN snaps, key \in Key :
        <<t, s>> \in Attestable /\ AddAttestation(<<t, s, key>>)
    \/ \E r \in Labelled : SetAcl(r) \/ RemoveAcl(r)
    \/ \E s \in Taggable : CreateTag(s)
    \/ \E t \in Timeline, s \in DOMAIN snaps : CreateTimeline(t, s)

\* Every step is a step of a call, or an edit.
LEMMA Cases ==
    ASSUME Next
    PROVE  \/ \E k \in Task : Begins(k) \/ AdvanceStep(k) \/ MergeStep(k) \/ PruneStep(k)
           \/ Edits
BY Zenon DEF Next, Begins, Edits

\* Beginning a call keeps the types.
LEMMA BeginType ==
    ASSUME TypeOK, NEW k \in Task, Begins(k)
    PROVE  /\ TypeOK' /\ UNCHANGED <<snaps, head, audit, landed, admin>>
           /\ \E c \in Call :
               /\ call' = [call EXCEPT ![k] = c] /\ c.pins = {pin} /\ c.registries = {approvers}
               /\ \/ c.pc = "rules" /\ c.source = None /\ c.snap \in DOMAIN snaps
                  \/ c.pc = "source" /\ c.source \in Timeline
                  \/ c.pc = "expiry" /\ c.source = None
<1>1. PICK c \in Call :
        /\ Begin(k, c) /\ c.pins = {pin} /\ c.registries = {approvers}
        /\ \/ c.pc = "rules" /\ c.source = None /\ c.snap \in DOMAIN snaps
           \/ c.pc = "source" /\ c.source \in Timeline
           \/ c.pc = "expiry" /\ c.source = None
  <2>0. \A pc \in PC, t \in Timeline :
          /\ Started(pc, t) \in Call /\ Started(pc, t).pins = {pin}
          /\ Started(pc, t).registries = {approvers} /\ Started(pc, t).pc = pc
          /\ Started(pc, t).source = None
    BY StartedType, Zenon DEF Started
  <2>1. ASSUME NEW t \in Timeline, NEW s \in DOMAIN snaps, CallAdvance(k, t, s)
        PROVE  \E c \in Call : /\ Begin(k, c) /\ c.pins = {pin} /\ c.registries = {approvers}
                               /\ c.pc = "rules" /\ c.source = None /\ c.snap \in DOMAIN snaps
    <3>1. PICK c : c = [Started("rules", t) EXCEPT !.snap = s]
        BY Zenon
    <3>2. /\ c \in Call /\ c.pins = {pin} /\ c.registries = {approvers}
          /\ c.pc = "rules" /\ c.source = None /\ c.snap \in DOMAIN snaps
        BY <2>0, <3>1, SMTT(30) DEF PC, Advancing, Call, Stored
    <3> QED BY <2>1, <3>1, <3>2, Zenon DEF CallAdvance
  <2>2. ASSUME NEW p \in Proposal, CallMerge(k, p[1], p[2])
        PROVE  \E c \in Call : /\ Begin(k, c) /\ c.pins = {pin} /\ c.registries = {approvers}
                               /\ c.pc = "source" /\ c.source \in Timeline
    <3>1. PICK c : c = [Started("source", p[2]) EXCEPT !.source = p[1]]
        BY Zenon
    <3>2. p[1] \in Timeline /\ p[2] \in Timeline
        BY TimelinesAssumption, Zenon
    <3>3. /\ c \in Call /\ c.pins = {pin} /\ c.registries = {approvers}
          /\ c.pc = "source" /\ c.source \in Timeline
      <4>1. Started("source", p[2]) \in Call /\ Started("source", p[2]).pins = {pin}
            /\ Started("source", p[2]).registries = {approvers} /\ Started("source", p[2]).pc = "source"
        BY <2>0, <3>2 DEF PC
      <4>2. c \in Call
        BY <3>1, <3>2, <4>1, Zenon DEF Call
      <4> QED BY <3>1, <3>2, <4>1, <4>2, Zenon DEF Call
    <3> QED BY <2>2, <3>1, <3>3, Zenon DEF CallMerge
  <2>3. ASSUME NEW t \in Timeline, CallPrune(k, t)
        PROVE  \E c \in Call : /\ Begin(k, c) /\ c.pins = {pin} /\ c.registries = {approvers}
                               /\ c.pc = "expiry" /\ c.source = None
    BY <2>0, <2>3 DEF CallPrune, PC
  <2> QED BY <2>1, <2>2, <2>3, Zenon DEF Begins
<1>2. calls' \in 0..MaxCalls
    BY <1>1, TimelinesAssumption, SMTT(30) DEF Begin, TypeOK
<1> QED BY <1>1, <1>2, SetCall, Zenon DEF Begin, TypeOK

\* A step of a prune keeps the types.
LEMMA PruneType ==
    ASSUME IInv, NEW k \in Task, PruneStep(k)
    PROVE  TypeOK'
<1>1. TypeOK /\ call[k] \in Call
  <2>1. call[k].pc # "idle"
    BY Zenon DEF PruneStep, CheckExpiry, CheckTags, Delete, At
  <2> QED BY <2>1, Running, Zenon DEF IInv
<1>2. head[call[k].name] \in Stored /\ audit \subseteq Event
    BY <1>1, Zenon DEF TypeOK, Call, Stored
<1>3. ASSUME Returns(k) PROVE call' \in [Task -> Call \cup {Idle}]
    BY <1>1, <1>3, Zenon DEF Returns, TypeOK
<1>4. CASE CheckExpiry(k)
  <2>1. [call[k] EXCEPT !.old = head[call[k].name], !.pc = "tags"] \in Call
    BY <1>1, <1>2, Zenon DEF Call, PC
  <2>2. call' \in [Task -> Call \cup {Idle}]
    BY <1>1, <1>3, <1>4, <2>1, Zenon DEF CheckExpiry, TypeOK
  <2> QED BY <1>1, <1>2, <1>4, <2>2, QuietType, Zenon DEF CheckExpiry, Quiet
<1>5. CASE CheckTags(k)
  <2>1. [call[k] EXCEPT !.pc = "delete"] \in Call
    BY <1>1, Zenon DEF Call, PC
  <2>2. call' \in [Task -> Call \cup {Idle}]
    BY <1>1, <1>3, <1>5, <2>1, Zenon DEF CheckTags, Goes, TypeOK
  <2> QED BY <1>1, <1>2, <1>5, <2>2, QuietType, Zenon DEF CheckTags, Quiet
<1>6. CASE Delete(k)
    BY <1>1, <1>6, SetCall, Zenon DEF Delete, Returns, TypeOK
<1> QED BY <1>4, <1>5, <1>6, Zenon DEF PruneStep

\* An edit touches calls only by what they meet.
LEMMA EditType ==
    ASSUME TypeOK, Edits
    PROVE  /\ TypeOK' /\ UNCHANGED <<snaps, audit, landed>> /\ attested \subseteq attested'
           /\ \A t \in Timeline : head'[t] = head[t] \/ head[t] = None
           /\ \/ UNCHANGED <<call, pin, approvers>>
              \/ \A k \in Task : call'[k] = Meets(k, pin', approvers')
<1>0. /\ UNCHANGED <<snaps, audit, landed, calls>> /\ edits' \in 0..MaxEdits
      /\ Call' = Call
  <2>1. Edit
    BY Zenon
       DEF Edits, SetPolicyRoot, SetApprovers, AddAttestation, SetAcl, RemoveAcl, CreateTag, CreateTimeline
  <2>2. UNCHANGED <<snaps, audit, landed, calls>>
    BY <2>1, Zenon DEF Edit
  <2>3. edits' \in 0..MaxEdits
    <3>1. MaxEdits \in Nat /\ edits \in 0..MaxEdits
        BY TimelinesAssumption, Zenon DEF TypeOK
    <3>2. edits < MaxEdits /\ edits' = edits + 1
        BY <2>1, Zenon DEF Edit
    <3> QED BY <3>1, <3>2
  <2> QED BY <2>2, <2>3, Zenon DEF Call, Stored
<1>1. ASSUME NEW r \in Root \cup {None}, NEW registry \in SUBSET Key, NEW k \in Task
      PROVE  Meets(k, r, registry) \in Call \cup {Idle}
  <2>1. CASE call[k] # Idle
    <3>1. call[k] \in Call
        BY <2>1, Zenon DEF TypeOK
    <3>2. [call[k] EXCEPT !.pins = @ \cup {r}, !.registries = @ \cup {registry}] \in Call
        BY <3>1, Zenon DEF Call
    <3> QED BY <2>1, <3>2, Zenon DEF Meets
  <2> QED BY <2>1, Zenon DEF Meets
<1>2. ASSUME NEW r \in Root, SetPolicyRoot(r)
      PROVE  /\ TypeOK' /\ head' = head /\ attested' = attested
             /\ \A k \in Task : call'[k] = Meets(k, pin', approvers')
    BY <1>0, <1>1, <1>2, Zenon DEF SetPolicyRoot, TypeOK
<1>3. ASSUME NEW registry \in SUBSET Key, SetApprovers(registry)
      PROVE  /\ TypeOK' /\ head' = head /\ attested' = attested
             /\ \A k \in Task : call'[k] = Meets(k, pin', approvers')
    BY <1>0, <1>1, <1>3, Zenon DEF SetApprovers, TypeOK
<1>4. ASSUME NEW t \in Timeline, NEW s \in DOMAIN snaps, NEW key \in Key, AddAttestation(<<t, s, key>>)
      PROVE  TypeOK' /\ UNCHANGED <<call, head, pin, approvers>> /\ attested \subseteq attested'
    BY <1>0, <1>4, SMTT(30) DEF AddAttestation, TypeOK
<1>5. ASSUME \/ \E r \in Labelled : SetAcl(r) \/ RemoveAcl(r)
             \/ \E s \in Taggable : CreateTag(s)
      PROVE  TypeOK' /\ UNCHANGED <<call, head, pin, approvers, attested>>
    BY <1>0, <1>5, Zenon DEF SetAcl, RemoveAcl, CreateTag, TypeOK
<1>6. ASSUME NEW t \in Timeline, NEW s \in DOMAIN snaps, CreateTimeline(t, s)
      PROVE  /\ TypeOK' /\ UNCHANGED <<call, pin, approvers, attested>>
             /\ \A u \in Timeline : head'[u] = head[u] \/ head[u] = None
    BY <1>0, <1>6, Zenon DEF CreateTimeline, TypeOK
<1> QED BY <1>0, <1>2, <1>3, <1>4, <1>5, <1>6, Zenon DEF Edits

\* Every step keeps the types and the history.
LEMMA TypeStep == IInv /\ [Next]_vars => TypeOK' /\ Kept
<1> SUFFICES ASSUME IInv, [Next]_vars PROVE TypeOK' /\ Kept
    BY Zenon
<1>0. TypeOK /\ (snaps' = snaps => Kept)
    BY Zenon DEF IInv, Kept
<1>1. ASSUME NEW k \in Task, Begins(k) PROVE TypeOK' /\ Kept
    BY <1>0, <1>1, BeginType, Zenon
<1>2. ASSUME NEW k \in Task, AdvanceStep(k) PROVE TypeOK' /\ Kept
    BY <1>0, <1>2, AdvanceType, Zenon
       DEF AdvanceStep, CheckTimeline, ReadHead, ReadPolicy, CheckLineage,
       LoadApprovers, CountApprovals, Refuse, Swap, SwapFails, RecordAllowed
<1>3. ASSUME NEW k \in Task, MergeStep(k) PROVE TypeOK' /\ Kept
    BY <1>3, MergeType, Zenon
<1>4. ASSUME NEW k \in Task, PruneStep(k) PROVE TypeOK' /\ Kept
    BY <1>0, <1>4, PruneType, Zenon DEF PruneStep, CheckExpiry, CheckTags, Delete
<1>5. CASE Edits
    BY <1>0, <1>5, EditType, Zenon
<1>6. CASE UNCHANGED vars
    BY <1>0, <1>6, Zenon DEF vars, admin, TypeOK, Call, Stored
<1> QED BY <1>1, <1>2, <1>3, <1>4, <1>5, <1>6, Cases, Zenon

-----------------------------------------------------------------------------
(* What grows, and what a call keeps while it does *)

\* Snapshots, attestations and moves stay; a forward timeline never goes back.
Grows ==
    /\ Kept /\ attested \subseteq attested' /\ landed \subseteq landed'
    /\ \A t \in Timeline : Forward(t) /\ head[t] # None => head'[t] # None /\ head[t] <= head'[t]

\* No step takes a snapshot, an attestation or a move away, or a forward timeline back.
LEMMA Growth == IInv /\ [Next]_vars => Grows
<1> SUFFICES ASSUME IInv, [Next]_vars PROVE Grows
    BY Zenon
<1>1. TypeOK /\ Kept
    BY TypeStep, Zenon DEF IInv
<1>2. \A t \in Timeline : head[t] # None => head[t] \in Nat /\ head[t] <= head[t]
    BY <1>1, History, SMTT(30) DEF TypeOK
<1>3. ASSUME UNCHANGED <<head, attested>>, landed \subseteq landed' PROVE Grows
    BY <1>1, <1>2, <1>3, Zenon DEF Grows
<1>4. ASSUME NEW k \in Task, Swap(k) PROVE Grows
  <2>1. call[k] \in Call /\ Good(k) /\ call[k].pc = "swap" /\ call[k].verdict = "allowed"
    BY <1>1, <1>4, Running, Zenon DEF Swap, At, IInv, CallsGood
  <2>2. call[k].name \in Timeline /\ call[k].snap \in DOMAIN snaps /\ call[k].old \in DOMAIN snaps
    BY <2>1, Zenon DEF Call, Good, Checked, Advancing
  <2>3. Forward(call[k].name) => call[k].old <= call[k].snap
    BY <1>1, <2>1, <2>2, AncestorsBelow, Zenon DEF Good, Forward
  <2>4. call[k].snap # None
    BY <1>1, <2>2, History, Zenon
  <2>5. \A t \in Timeline : Forward(t) /\ head[t] # None => head'[t] # None /\ head[t] <= head'[t]
    BY <1>1, <1>2, <1>4, <2>2, <2>3, <2>4, Zenon DEF Swap, TypeOK
  <2> QED BY <1>1, <1>4, <2>5, Zenon DEF Grows, Swap, admin
<1>5. ASSUME NEW k \in Task, Delete(k) PROVE Grows
  <2>1. call[k] \in Call /\ Good(k) /\ call[k].pc = "delete"
    BY <1>1, <1>5, Running, Zenon DEF Delete, At, IInv, CallsGood
  <2>2. call[k].name \in Expired
    BY <2>1, Zenon DEF Good
  <2> QED BY <1>1, <1>2, <1>5, <2>2, Zenon DEF Delete, Grows, Forward, TypeOK, admin
<1>6. ASSUME NEW k \in Task, Begins(k) PROVE Grows
    BY <1>1, <1>3, <1>6, BeginType, Zenon DEF admin
<1>7. ASSUME NEW k \in Task, AdvanceStep(k) \/ MergeStep(k) \/ PruneStep(k), ~Swap(k), ~Delete(k)
      PROVE  UNCHANGED <<head, attested, landed>>
    BY <1>7, Zenon
       DEF AdvanceStep, CheckTimeline, ReadHead, ReadPolicy, CheckLineage, LoadApprovers,
       CountApprovals, Refuse, SwapFails, RecordAllowed, MergeStep, ReadSource, ReadTarget, MergeDenied,
       ReadTheirs, ReadInto, Merge, PruneStep, CheckExpiry, CheckTags, admin
<1>8. CASE Edits
    BY <1>1, <1>2, <1>8, EditType, Zenon DEF Grows
<1>9. CASE UNCHANGED vars
    BY <1>3, <1>9, Zenon DEF vars, admin
<1> QED BY <1>3, <1>4, <1>5, <1>6, <1>7, <1>8, <1>9, Cases, Zenon

\* A tree that was read stays what it was.
LEMMA RootStays ==
    ASSUME TypeOK, Kept, NEW s \in Stored
    PROVE  RootOf(s)' = RootOf(s)
BY Zenon DEF RootOf, Stored, Kept

\* What the ACL hook found of a call stays true while the history grows.
LEMMA CheckedStays ==
    ASSUME TypeOK, Kept, NEW k \in Task, call[k] \in Call, Checked(k), call[k].snap \in DOMAIN snaps,
           /\ call'[k].snap = call[k].snap /\ call'[k].rules = call[k].rules
           /\ call'[k].old = call[k].old /\ call'[k].expected = call[k].expected
    PROVE  Checked(k)'
<1>1. RootOf(call[k].snap)' = RootOf(call[k].snap) /\ RootOf(call[k].old)' = RootOf(call[k].old)
    BY Zenon DEF RootOf, Kept, Checked
<1>2. call'[k].old \in DOMAIN snaps' /\ ~Stale(k, call[k].old)'
    BY Zenon DEF Kept, Checked, Stale
<1>3. DeniedPaths(k)' = DeniedPaths(k)
    BY <1>1, Zenon DEF DeniedPaths, CanWrite, RootOf
<1>4. DeniedRemoved(k, call[k].old)' = DeniedRemoved(k, call[k].old)
    BY <1>1, Zenon DEF DeniedRemoved, CanWrite, RootOf
<1> QED BY <1>2, <1>3, <1>4, Zenon DEF Checked

\* A call that has its approvals keeps them: attestations are only added.
LEMMA ApprovedStays ==
    ASSUME NEW k \in Task, Approved(k), attested \subseteq attested',
           /\ call'[k].name = call[k].name /\ call'[k].snap = call[k].snap
           /\ call'[k].registry = call[k].registry /\ call'[k].needed = call[k].needed
           /\ call[k].registries \subseteq call'[k].registries
    PROVE  Approved(k)'
<1>1. PICK keys \in SUBSET call[k].registry :
          /\ \A key \in keys : <<call[k].name, call[k].snap, key>> \in attested
          /\ ~(Cardinality(keys) < call[k].needed)
    BY Zenon DEF Approved, Approves
<1>2. /\ \A key \in keys : <<call'[k].name, call'[k].snap, key>> \in attested'
      /\ ~(Cardinality(keys) < call'[k].needed)
    BY <1>1, Zenon
<1>3. Approves(k, call[k].registry, call[k].needed)'
    BY <1>1, <1>2, Zenon DEF Approves
<1> QED BY <1>3, Zenon DEF Approved

\* The head that a step leaves is the number of a snapshot.
LEMMA HeadNumber ==
    ASSUME TypeOK', NEW t \in Timeline, head'[t] # None
    PROVE  head'[t] \in Nat
<1> DEFINE stored == [root : Tree, parents : SUBSET Snapshot]
<1>1. snaps' \in Seq(stored) /\ head'[t] \in DOMAIN snaps'
    BY Zenon DEF TypeOK
<1> HIDE DEF stored
<1>2. DOMAIN snaps' = 1..Len(snaps') /\ Len(snaps') \in Nat
    BY <1>1
<1> QED BY <1>1, <1>2

\* What a merge knows of its target stays true while its advance goes on.
LEMMA MergingStays ==
    ASSUME TypeOK, TypeOK', Grows, NEW k \in Task, call[k] \in Call, Merging(k),
           call[k].pc \in Advancing => call[k].snap \in DOMAIN snaps,
           \/ call'[k].pc = call[k].pc
           \/ call[k].pc \in Advancing /\ call'[k].pc \in Advancing,
           /\ call'[k].name = call[k].name /\ call'[k].snap = call[k].snap
           /\ call'[k].expected = call[k].expected /\ call'[k].sourceHead = call[k].sourceHead
           /\ call'[k].theirs = call[k].theirs /\ call'[k].ours = call[k].ours
           /\ call'[k].base = call[k].base
    PROVE  Merging(k)'
<1>1. /\ call[k].name \in Timeline /\ call[k].theirs \in Stored /\ call[k].ours \in Stored
      /\ call[k].base \in Stored /\ call[k].snap \in Stored
    BY Zenon DEF Call
<1>2. ASSUME NEW s \in DOMAIN snaps, NotBehind(k, s) PROVE NotBehind(k, s)'
  <2> SUFFICES ASSUME Forward(call[k].name)
               PROVE  head'[call[k].name] # None /\ s <= head'[call[k].name]
    BY Zenon DEF NotBehind, Forward
  <2>1. head[call[k].name] # None /\ s <= head[call[k].name] /\ head[call[k].name] <= head'[call[k].name]
        /\ head'[call[k].name] # None
    BY <1>1, <1>2, Zenon DEF NotBehind, Grows
  <2>2. s \in Nat /\ head[call[k].name] \in Nat
    BY <1>1, <2>1, History, Zenon DEF TypeOK
  <2>3. head'[call[k].name] \in Nat
    BY <1>1, <2>1, HeadNumber, Zenon
  <2> QED BY ONLY <2>1, <2>2, <2>3, SMTT(30)
<1>3. Diffed(k) => Diffed(k)'
  <2>1. \A s \in Stored : RootOf(s)' = RootOf(s)
    BY RootStays, Zenon DEF Grows
  <2> QED BY <1>1, <2>1, ZenonT(40) DEF Diffed, Merged, Conflict
<1>4. DOMAIN snaps \subseteq DOMAIN snaps'
    BY Zenon DEF Grows, Kept
<1>5. call[k].expected \in DOMAIN snaps /\ NotBehind(k, call[k].expected) => NotBehind(k, call[k].expected)'
    BY <1>2, Zenon
<1> QED BY <1>1, <1>2, <1>3, <1>4, <1>5, Zenon DEF Merging, Advancing, Forward

\* What a step of an advance leaves alone.
Carries(k) ==
    /\ call'[k].name = call[k].name /\ call'[k].source = call[k].source
    /\ call'[k].snap = call[k].snap /\ call'[k].expected = call[k].expected
    /\ call'[k].sourceHead = call[k].sourceHead /\ call'[k].theirs = call[k].theirs
    /\ call'[k].ours = call[k].ours /\ call'[k].base = call[k].base

\* A call that takes no step stays good while the rest grows.
LEMMA GoodStays ==
    ASSUME TypeOK, TypeOK', Grows, NEW k \in Task, call[k] \in Call, Good(k), Carries(k),
           /\ call'[k].pc = call[k].pc /\ call'[k].rules = call[k].rules /\ call'[k].old = call[k].old
           /\ call'[k].needed = call[k].needed /\ call'[k].verdict = call[k].verdict
           /\ call'[k].registry = call[k].registry
           /\ call[k].pins \subseteq call'[k].pins /\ pin' \in call'[k].pins
           /\ call[k].registries \subseteq call'[k].registries /\ approvers' \in call'[k].registries
    PROVE  Good(k)'
<1>1. DOMAIN snaps \subseteq DOMAIN snaps' /\ Kept
    BY Zenon DEF Grows, Kept
<1>2. call[k].pc \in Advancing => call[k].snap \in DOMAIN snaps /\ call'[k].snap \in DOMAIN snaps'
    BY <1>1, Zenon DEF Good, Carries
<1>3. call[k].pc \in Advancing \ {"rules", "head"} => Checked(k)'
    BY <1>1, <1>2, CheckedStays, Zenon DEF Good, Carries
<1>4. call[k].pc \in {"lineage", "approvers", "attestations", "swap"} => Asked(k)'
    BY Zenon DEF Good, Asked, Carries
<1>5. call[k].pc \in {"approvers", "attestations", "swap"} /\ call[k].verdict = "allowed" =>
        (call[k].name \in FastForward => call'[k].old \in Ancestors'[call'[k].snap])
    BY <1>1, <1>2, AncestorsStay, Zenon DEF Good, Carries, Advancing
<1>6. call[k].pc = "swap" /\ call[k].verdict = "allowed" => call[k].needed = 0 \/ Approved(k)'
    BY ApprovedStays, Zenon DEF Good, Carries, Grows
<1>7. call[k].source # None => Merging(k)'
    BY <1>2, MergingStays, Zenon DEF Good, Carries
<1>8. call[k].pc = "audit" => <<call'[k].name, call'[k].old, call'[k].snap>> \in landed'
    BY Zenon DEF Good, Carries, Grows
<1>9. /\ call[k].pc \in {"tags", "delete"} => call'[k].name \in Expired
      /\ call[k].pc = "attestations" => call'[k].registry \in call'[k].registries
      /\ call[k].pc \in {"source", "target", "theirs", "ours"} => call'[k].source \in Timeline
    BY Zenon DEF Good, Carries
<1> QED BY <1>2, <1>3, <1>4, <1>5, <1>6, <1>7, <1>8, <1>9, ZenonT(40) DEF Good, Carries

\* A step of an advance that moves no head keeps what is known of its merge.
LEMMA OnGoing ==
    ASSUME TypeOK, TypeOK', Grows, NEW k \in Task, call[k] \in Call, Good(k), Carries(k),
           call[k].pc \in Advancing, call'[k].pc \in Advancing,
           /\ call'[k].pins = call[k].pins /\ call'[k].registries = call[k].registries
           /\ pin' = pin /\ approvers' = approvers
    PROVE  /\ pin' \in call'[k].pins /\ approvers' \in call'[k].registries
           /\ call'[k].snap \in DOMAIN snaps' /\ (call'[k].source # None => Merging(k)')
<1>1. call[k].snap \in DOMAIN snaps /\ call'[k].snap \in DOMAIN snaps'
    BY Zenon DEF Good, Carries, Grows, Kept
<1> QED BY <1>1, MergingStays, Zenon DEF Good, Carries

\* The steps of an advance.
LEMMA AdvanceGood ==
    ASSUME IInv, TypeOK', Grows, NEW k \in Task, AdvanceStep(k), ~Returns(k)
    PROVE  Good(k)'
<1>1. /\ TypeOK /\ call[k] \in Call /\ Good(k) /\ call[k].pc \in Advancing
      /\ call[k].snap \in DOMAIN snaps /\ Kept
  <2>1. call[k].pc \in Advancing
    BY Zenon
       DEF AdvanceStep, CheckTimeline, ReadHead, ReadPolicy, CheckLineage, LoadApprovers, CountApprovals,
           Refuse, Swap, SwapFails, RecordAllowed, At, Advancing
  <2>2. call[k].pc # "idle"
    BY <2>1, Zenon DEF Advancing
  <2>3. TypeOK /\ call[k] \in Call /\ Good(k)
    BY <2>2, Running, Zenon DEF IInv, CallsGood
  <2> QED BY <2>1, <2>3, Zenon DEF Good, Grows
<1>2. CASE CheckTimeline(k)
  <2>1. call' = [call EXCEPT ![k].rules = protected, ![k].auditOld = head[call[k].name], ![k].pc = "head"]
    BY <1>2, Zenon DEF CheckTimeline
  <2>2. /\ Carries(k) /\ call'[k].pc = "head" /\ call'[k].pins = call[k].pins
        /\ call'[k].registries = call[k].registries /\ pin' = pin /\ approvers' = approvers
    BY <1>1, <1>2, <2>1, Zenon DEF CheckTimeline, Carries, TypeOK, Call, admin
  <2> QED BY <1>1, <2>2, OnGoing, Zenon DEF Good, Advancing
<1>3. CASE ReadHead(k)
  <2>1. /\ DeniedPaths(k) = {} /\ head[call[k].name] # None /\ ~Stale(k, head[call[k].name])
        /\ DeniedRemoved(k, head[call[k].name]) = {}
        /\ call' = [call EXCEPT ![k].old = head[call[k].name], ![k].pc = "policy"]
    BY <1>3, Zenon DEF ReadHead
  <2>2. /\ Carries(k) /\ call'[k].pc = "policy" /\ call'[k].pins = call[k].pins
        /\ call'[k].registries = call[k].registries /\ pin' = pin /\ approvers' = approvers
        /\ call'[k].rules = call[k].rules /\ call'[k].old = head[call[k].name] /\ snaps' = snaps
    BY <1>1, <1>3, <2>1, Zenon DEF ReadHead, Carries, TypeOK, Call, admin
  <2>3. head[call[k].name] \in DOMAIN snaps
    BY <1>1, <2>1, Zenon DEF TypeOK, Call
  <2>4. Checked(k)'
    BY <2>1, <2>2, <2>3, Zenon
       DEF Checked, DeniedPaths, DeniedRemoved, Stale, RootOf, CanWrite, Carries
  <2> QED BY <1>1, <2>2, <2>4, OnGoing, Zenon DEF Good, Advancing
<1>4. CASE ReadPolicy(k)
  <2>1. /\ pin # Unresolvable
        /\ call' = [call EXCEPT ![k].pc = "lineage",
                       ![k].needed = Needed(pin, call[k].name)]
    BY <1>4, Zenon DEF ReadPolicy
  <2>2. /\ Carries(k) /\ call'[k].pc = "lineage" /\ call'[k].pins = call[k].pins
        /\ call'[k].registries = call[k].registries /\ pin' = pin /\ approvers' = approvers
        /\ call'[k].rules = call[k].rules /\ call'[k].old = call[k].old
        /\ call'[k].needed = Needed(pin, call[k].name)
    BY <1>1, <1>4, <2>1, Zenon DEF ReadPolicy, Carries, TypeOK, Call, admin
  <2>3. Checked(k)'
    BY <1>1, <1>4, <2>2, CheckedStays, Zenon DEF Good, ReadPolicy, At, Carries, Advancing
  <2>4. Asked(k)'
    BY <1>1, <2>1, <2>2, Zenon DEF Asked, Good, Carries
  <2> QED BY <1>1, <2>2, <2>3, <2>4, OnGoing, Zenon DEF Good, Advancing
<1>5. CASE CheckLineage(k)
  <2>1. /\ Carries(k) /\ call'[k].pc = AfterLineage(k) /\ call'[k].pins = call[k].pins
        /\ call'[k].registries = call[k].registries /\ pin' = pin /\ approvers' = approvers
        /\ call'[k].rules = call[k].rules /\ call'[k].old = call[k].old
        /\ call'[k].needed = call[k].needed /\ call[k].pc = "lineage"
    BY <1>1, <1>5, Zenon DEF CheckLineage, Carries, TypeOK, Call, admin, At
  <2>2. Checked(k)'
    BY <1>1, <2>1, CheckedStays, Zenon DEF Good, Carries, Advancing
  <2>3. Asked(k)'
    BY <1>1, <2>1, Zenon DEF Good, Asked, Carries
  <2>4. call'[k].verdict = "allowed" =>
          (call[k].name \in FastForward => call[k].old \in Ancestors[call[k].snap])
    BY <1>1, <1>5, Zenon DEF CheckLineage, TypeOK, Call
  <2>5. call'[k].pc \in {"approvers", "swap"} /\ (call'[k].pc = "swap" => call'[k].needed = 0)
    <3>1. \A n \in Nat : n > 0 \/ n = 0
        OBVIOUS
    <3>2. call[k].needed > 0 \/ call[k].needed = 0
        BY <1>1, <3>1, Zenon DEF Call
    <3>3. call'[k].pc = AfterLineage(k) /\ call'[k].needed = call[k].needed
        BY <2>1, Zenon
    <3> QED BY <3>2, <3>3, Zenon DEF AfterLineage
  <2>6. call'[k].verdict = "allowed" =>
          (call'[k].name \in FastForward => call'[k].old \in Ancestors'[call'[k].snap])
    BY <1>1, <2>1, <2>4, AncestorsStay, Zenon DEF Carries
  <2> QED BY <1>1, <2>1, <2>2, <2>3, <2>5, <2>6, OnGoing, Zenon DEF Good, Advancing
<1>6. CASE LoadApprovers(k)
  <2>1. /\ Carries(k) /\ call'[k].pc = "attestations" /\ call'[k].pins = call[k].pins
        /\ call'[k].registries = call[k].registries /\ pin' = pin /\ approvers' = approvers
        /\ call'[k].rules = call[k].rules /\ call'[k].old = call[k].old
        /\ call'[k].needed = call[k].needed /\ call'[k].verdict = call[k].verdict
        /\ call'[k].registry = approvers /\ call[k].pc = "approvers"
    BY <1>1, <1>6, Zenon DEF LoadApprovers, Carries, TypeOK, Call, admin, At
  <2>2. Checked(k)' /\ Asked(k)'
    BY <1>1, <2>1, CheckedStays, Zenon DEF Good, Asked, Carries, Advancing
  <2>3. call'[k].verdict = "allowed" =>
          (call'[k].name \in FastForward => call'[k].old \in Ancestors'[call'[k].snap])
    BY <1>1, <2>1, AncestorsStay, Zenon DEF Carries, Good
  <2>4. call'[k].registry \in call'[k].registries
    BY <1>1, <2>1, Zenon DEF Good
  <2> QED BY <1>1, <2>1, <2>2, <2>3, <2>4, OnGoing, Zenon DEF Good, Advancing
<1>7. CASE CountApprovals(k)
  <2>1. /\ Carries(k) /\ call'[k].pc = "swap" /\ call'[k].pins = call[k].pins
        /\ call'[k].registries = call[k].registries /\ pin' = pin /\ approvers' = approvers
        /\ call'[k].rules = call[k].rules /\ call'[k].old = call[k].old
        /\ call'[k].needed = call[k].needed /\ call'[k].registry = call[k].registry
        /\ call[k].pc = "attestations" /\ attested' = attested
    BY <1>1, <1>7, Zenon DEF CountApprovals, Carries, TypeOK, Call, admin, At
  <2>2. call'[k].verdict = "allowed" =>
          /\ call[k].verdict = "allowed"
          /\ ~(ValidApprovals(call[k].registry, call[k].name, call[k].snap) < call[k].needed)
    BY <1>1, <1>7, Zenon DEF CountApprovals, TypeOK, Call
  <2>3. Checked(k)' /\ Asked(k)'
    BY <1>1, <2>1, CheckedStays, Zenon DEF Good, Asked, Carries, Advancing
  <2>4. call'[k].verdict = "allowed" =>
          (call'[k].name \in FastForward => call'[k].old \in Ancestors'[call'[k].snap])
    BY <1>1, <2>1, <2>2, AncestorsStay, Zenon DEF Carries, Good
  <2>5. call'[k].verdict = "allowed" => Approved(k)'
    <3>1. call[k].registry \in call[k].registries
        BY <1>1, <2>1, Zenon DEF Good
    <3>2. call'[k].verdict = "allowed" => Approves(k, call[k].registry, call[k].needed)
        BY <2>2, Zenon DEF ValidApprovals, Approves
    <3>3. call'[k].verdict = "allowed" => Approved(k)
        BY <3>1, <3>2, Zenon DEF Approved
    <3> QED BY <1>1, <2>1, <3>3, ApprovedStays, Zenon DEF Carries
  <2> QED BY <1>1, <2>1, <2>3, <2>4, <2>5, OnGoing, Zenon DEF Good, Advancing
<1>8. CASE Swap(k)
  <2>1. /\ Carries(k) /\ call'[k].pc = "audit" /\ call'[k].pins = call[k].pins
        /\ call'[k].registries = call[k].registries /\ pin' = pin /\ approvers' = approvers
        /\ call'[k].rules = call[k].rules /\ call'[k].old = call[k].old /\ call[k].pc = "swap"
        /\ <<call[k].name, call[k].old, call[k].snap>> \in landed'
    BY <1>1, <1>8, Zenon DEF Swap, Goes, Carries, TypeOK, Call, admin, At
  <2>2. Checked(k)'
    BY <1>1, <2>1, CheckedStays, Zenon DEF Good, Carries, Advancing
  <2> QED BY <1>1, <2>1, <2>2, OnGoing, Zenon DEF Good, Advancing, Carries
<1>9. ~Refuse(k) /\ ~SwapFails(k) /\ ~RecordAllowed(k)
    BY Zenon DEF Refuse, SwapFails, RecordAllowed
<1> QED BY <1>2, <1>3, <1>4, <1>5, <1>6, <1>7, <1>8, <1>9, Zenon DEF AdvanceStep

\* The steps of a merge: what it reads of its target is not behind it later.
LEMMA MergeGood ==
    ASSUME IInv, TypeOK', Grows, NEW k \in Task, MergeStep(k), ~(Returns(k) /\ UNCHANGED snaps)
    PROVE  Good(k)'
<1>1. /\ TypeOK /\ call[k] \in Call /\ Good(k)
      /\ call[k].source \in Timeline /\ call[k].name \in Timeline /\ Merging(k)
  <2>1. call[k].pc \in {"source", "target", "theirs", "ours"}
    BY Zenon DEF MergeStep, ReadSource, ReadTarget, MergeDenied, ReadTheirs, Merge, ReadInto, At
  <2>2. call[k].pc # "idle"
    BY <2>1, Zenon
  <2>3. TypeOK /\ call[k] \in Call /\ Good(k)
    BY <2>2, Running, Zenon DEF IInv, CallsGood
  <2> QED BY <2>1, <2>3, TimelinesAssumption, Zenon DEF Good, Call
<1>2. \A t \in Timeline : head[t] # None => head[t] \in DOMAIN snaps /\ head[t] <= head[t]
  <2>1. \A t \in Timeline : head[t] # None => head[t] \in DOMAIN snaps
    BY <1>1, Zenon DEF TypeOK
  <2>2. DOMAIN snaps \in SUBSET Nat
    BY <1>1, History, Zenon
  <2> QED BY <2>1, <2>2
<1>3. pin' = pin /\ approvers' = approvers /\ head' = head
    BY Zenon DEF MergeStep, ReadSource, ReadTarget, MergeDenied, ReadTheirs, Merge, ReadInto, admin
<1>4. CASE ReadSource(k)
  <2>1. /\ head[call[k].source] # None /\ snaps' = snaps
        /\ call' = [call EXCEPT ![k] = [call[k] EXCEPT !.sourceHead = head[call[k].source]], ![k].pc = "target"]
    BY <1>4, Zenon DEF ReadSource, ReadInto
  <2>2. /\ call'[k].pc = "target" /\ call'[k].sourceHead = head[call[k].source]
        /\ call'[k].source = call[k].source /\ call'[k].pins = call[k].pins
        /\ call'[k].registries = call[k].registries
    BY <1>1, <2>1, Zenon DEF TypeOK, Call
  <2>3. Merging(k)'
    BY <1>1, <1>2, <2>1, <2>2, Zenon DEF Merging, Advancing
  <2> QED BY <1>1, <1>3, <2>2, <2>3, Zenon DEF Good, Advancing
<1>5. CASE ReadTarget(k)
  <2>1. /\ head[call[k].name] # None /\ snaps' = snaps
        /\ call' = [call EXCEPT ![k] = [call[k] EXCEPT !.expected = head[call[k].name]], ![k].pc = "theirs"]
    BY <1>5, Zenon DEF ReadTarget, ReadInto
  <2>2. /\ call'[k].pc = "theirs" /\ call'[k].sourceHead = call[k].sourceHead
        /\ call'[k].name = call[k].name /\ call'[k].expected = head[call[k].name]
        /\ call'[k].source = call[k].source /\ call'[k].pins = call[k].pins
        /\ call'[k].registries = call[k].registries
    BY <1>1, <2>1, Zenon DEF TypeOK, Call
  <2>3. call[k].pc = "target"
    BY <1>5, Zenon DEF ReadTarget, ReadInto, At
  <2>4. NotBehind(k, call[k].expected)'
    BY <1>1, <1>2, <1>3, <2>1, <2>2, Zenon DEF NotBehind
  <2>5. Merging(k)'
    BY <1>1, <1>2, <2>1, <2>2, <2>3, <2>4, Zenon DEF Merging, Advancing
  <2> QED BY <1>1, <1>3, <2>2, <2>5, Zenon DEF Good, Advancing
<1>6. CASE ReadTheirs(k)
  <2>1. /\ head[call[k].source] # None /\ snaps' = snaps
        /\ call' = [call EXCEPT ![k] = [call[k] EXCEPT !.theirs = head[call[k].source]], ![k].pc = "ours"]
    BY <1>6, Zenon DEF ReadTheirs, ReadInto
  <2>2. /\ call'[k].pc = "ours" /\ call'[k].sourceHead = call[k].sourceHead
        /\ call'[k].name = call[k].name /\ call'[k].expected = call[k].expected
        /\ call'[k].theirs = head[call[k].source]
        /\ call'[k].source = call[k].source /\ call'[k].pins = call[k].pins
        /\ call'[k].registries = call[k].registries
    BY <1>1, <2>1, Zenon DEF TypeOK, Call
  <2>3. call[k].pc = "theirs"
    BY <1>6, Zenon DEF ReadTheirs, At
  <2>4. NotBehind(k, call[k].expected)'
    BY <1>1, <1>3, <2>2, <2>3, Zenon DEF NotBehind, Merging, Forward
  <2>5. Merging(k)'
    BY <1>1, <1>2, <2>1, <2>2, <2>3, <2>4, Zenon DEF Merging, Advancing
  <2> QED BY <1>1, <1>3, <2>2, <2>5, Zenon DEF Good, Advancing
<1>7. CASE Merge(k)
  <2>1. call[k].pc = "ours"
    BY <1>7, Zenon DEF Merge, At
  <2>2. head[call[k].name] \in DOMAIN snaps /\ call[k].theirs \in DOMAIN snaps
    BY <1>7, MergeForm, Zenon
  <2>3. PICK base \in Stored, s \in Snapshot, tree \in Tree : Stores(k, base, s, tree)
    BY <1>7, MergeForm, Zenon
  <2>4. /\ call'[k].pc = "rules" /\ call'[k].name = call[k].name /\ call'[k].expected = call[k].expected
        /\ call'[k].theirs = call[k].theirs /\ call'[k].ours = head[call[k].name]
        /\ call'[k].base = base /\ call'[k].snap = s
        /\ call'[k].source = call[k].source /\ call'[k].pins = call[k].pins
        /\ call'[k].registries = call[k].registries
    BY <1>1, <2>3, Zenon DEF Stores, TypeOK, Call
  <2>5. s \in DOMAIN snaps' /\ snaps'[s].root = tree
    <3>1. CASE s \in DOMAIN snaps /\ snaps[s].root = tree /\ snaps' = snaps
        BY <3>1, Zenon
    <3>2. CASE ~(s \in DOMAIN snaps /\ snaps[s].root = tree /\ snaps' = snaps)
      <4>1. /\ s = Len(snaps) + 1
            /\ snaps' = Append(snaps, [root |-> tree, parents |-> {call[k].expected, call[k].sourceHead}])
        BY <2>3, <3>2, Zenon DEF Stores
      <4>2. {call[k].expected, call[k].sourceHead} \in SUBSET DOMAIN snaps
        BY <1>1, <2>1, Zenon DEF Merging
      <4>3. DOMAIN snaps' = 1..(Len(snaps) + 1) /\ snaps'[Len(snaps) + 1].root = tree
        BY <1>1, <4>1, <4>2, Appended, Zenon
      <4>4. Len(snaps) \in Nat
        BY <1>1, History, Zenon
      <4> QED BY <4>1, <4>3, <4>4
    <3> QED BY <3>1, <3>2, Zenon
  <2>6. RootOf(call[k].snap)' = tree
    <3>1. s # None
        BY TimelinesAssumption, Zenon
    <3> QED BY <2>4, <2>5, <3>1, Zenon DEF RootOf
  <2>7. /\ RootOf(call[k].base)' = RootOf(base)
        /\ RootOf(call[k].ours)' = RootOf(head[call[k].name])
        /\ RootOf(call[k].theirs)' = RootOf(call[k].theirs)
    BY <1>1, <2>2, <2>4, RootStays, Zenon DEF Grows, Stored, RootOf
  <2>8. Diffed(k)'
    BY <2>3, <2>6, <2>7, Zenon DEF Diffed, Stores, Conflict, Merged
  <2>9. DOMAIN snaps \subseteq DOMAIN snaps'
    BY Zenon DEF Grows, Kept
  <2>10. /\ Forward(call[k].name) => call[k].expected <= head[call[k].name]
         /\ NotBehind(k, call[k].ours)'
    BY <1>1, <1>2, <1>3, <2>1, <2>2, <2>4, History, Zenon DEF Merging, NotBehind
  <2>11. Merging(k)'
    BY <1>1, <2>1, <2>2, <2>4, <2>8, <2>9, <2>10, Zenon DEF Merging, Forward
  <2> QED BY <1>1, <1>3, <2>4, <2>5, <2>11, Zenon DEF Good, Advancing
<1>8. ~MergeDenied(k)
    BY Zenon DEF MergeDenied
<1> QED BY <1>4, <1>5, <1>6, <1>7, <1>8, Zenon DEF MergeStep

\* The steps of a prune concern an expired timeline only.
LEMMA PruneGood ==
    ASSUME IInv, NEW k \in Task, PruneStep(k), ~Returns(k)
    PROVE  Good(k)'
<1>1. TypeOK /\ call[k] \in Call /\ Good(k) /\ pin' = pin /\ approvers' = approvers
  <2>1. call[k].pc # "idle"
    BY Zenon DEF PruneStep, CheckExpiry, CheckTags, Delete, At
  <2> QED BY <2>1, Running, Zenon
             DEF IInv, CallsGood, PruneStep, CheckExpiry, CheckTags, Delete, admin
<1>2. /\ call'[k].pc \in {"tags", "delete"} /\ call'[k].name \in Expired
      /\ call'[k].pins = call[k].pins /\ call'[k].registries = call[k].registries
      /\ call'[k].source = call[k].source
  <2>1. call \in [Task -> Call \cup {Idle}]
    BY <1>1, Zenon DEF TypeOK
  <2>2. CASE CheckExpiry(k)
    <3>1. /\ call' = [call EXCEPT ![k].old = head[call[k].name], ![k].pc = "tags"]
          /\ call[k].name \in Expired
        BY <2>2, Zenon DEF CheckExpiry
    <3> QED BY <1>1, <2>1, <3>1, Zenon DEF Call
  <2>3. CASE CheckTags(k)
    <3>1. call[k].pc = "tags" /\ call' = [call EXCEPT ![k].pc = "delete"]
        BY <2>3, Zenon DEF CheckTags, Goes, At
    <3>2. call[k].name \in Expired
        BY <1>1, <3>1, Zenon DEF Good
    <3> QED BY <1>1, <2>1, <3>1, <3>2, Zenon DEF Call
  <2>4. ~Delete(k)
    BY Zenon DEF Delete
  <2> QED BY <2>2, <2>3, <2>4, Zenon DEF PruneStep
<1>3. Merging(k)'
    BY <1>2, Zenon DEF Merging, Advancing
<1> QED BY <1>1, <1>2, <1>3, Zenon DEF Good, Advancing

\* Every step keeps what is known of the calls.
LEMMA CallsStep == IInv /\ [Next]_vars => CallsGood'
<1> SUFFICES ASSUME IInv, [Next]_vars PROVE CallsGood'
    BY Zenon
<1>1. TypeOK /\ TypeOK' /\ Grows
    BY TypeStep, Growth, Zenon DEF IInv
<1>2. ASSUME NEW d \in Task, call'[d] = call[d], call[d] # Idle, pin' = pin, approvers' = approvers
      PROVE  Good(d)'
  <2>1. call[d] \in Call /\ Good(d) /\ Carries(d)
    BY <1>1, <1>2, Running, Zenon DEF IInv, CallsGood, Carries
  <2> QED BY <1>1, <1>2, <2>1, GoodStays, Zenon DEF Good
<1>3. ASSUME NEW k \in Task, \A d \in Task \ {k} : call'[d] = call[d], pin' = pin, approvers' = approvers,
             call'[k] = Idle \/ Good(k)'
      PROVE  CallsGood'
    BY <1>2, <1>3, Zenon DEF CallsGood
<1>4. ASSUME NEW k \in Task, Begins(k) PROVE CallsGood'
  <2>1. UNCHANGED <<snaps, head, audit, landed, admin>>
    BY <1>1, <1>4, BeginType, Zenon
  <2>2. PICK c \in Call :
          /\ call' = [call EXCEPT ![k] = c] /\ c.pins = {pin} /\ c.registries = {approvers}
          /\ \/ c.pc = "rules" /\ c.source = None /\ c.snap \in DOMAIN snaps
             \/ c.pc = "source" /\ c.source \in Timeline
             \/ c.pc = "expiry" /\ c.source = None
    BY <1>1, <1>4, BeginType, Zenon
  <2>3. call'[k] = c /\ \A d \in Task \ {k} : call'[d] = call[d]
    BY <1>1, <2>2, Zenon DEF TypeOK
  <2>4. Good(k)'
    BY <2>1, <2>2, <2>3, Zenon DEF Good, Merging, Advancing, admin
  <2> QED BY <1>3, <2>1, <2>3, <2>4, Zenon DEF admin
<1>5. ASSUME NEW k \in Task, AdvanceStep(k) \/ MergeStep(k) \/ PruneStep(k) PROVE CallsGood'
  <2>1. pin' = pin /\ approvers' = approvers
    BY <1>5, Zenon
       DEF AdvanceStep, CheckTimeline, ReadHead, ReadPolicy, CheckLineage, LoadApprovers,
       CountApprovals, Refuse, Swap, SwapFails, RecordAllowed, MergeStep, ReadSource, ReadTarget,
       MergeDenied, ReadTheirs, ReadInto, Merge, PruneStep, CheckExpiry, CheckTags, Delete, admin
  <2>2. \A d \in Task \ {k} : call'[d] = call[d]
    <3>1. CASE AdvanceStep(k)
        BY <1>1, <3>1, Zenon
           DEF AdvanceStep, CheckTimeline, ReadHead, ReadPolicy, CheckLineage, LoadApprovers,
           CountApprovals, Refuse, Swap, SwapFails, RecordAllowed, Goes, Returns, TypeOK
    <3>2. CASE PruneStep(k)
        BY <1>1, <3>2, Zenon DEF PruneStep, CheckExpiry, CheckTags, Delete, Goes, Returns, TypeOK
    <3>3. CASE MergeStep(k)
      <4>1. CASE Merge(k)
        BY <1>1, <4>1, Zenon DEF Merge, PutSnapshot, Returns, TypeOK
      <4> QED BY <1>1, <3>3, <4>1, Zenon
                 DEF MergeStep, ReadSource, ReadTarget, MergeDenied, ReadTheirs,
                 ReadInto, Returns, TypeOK
    <3> QED BY <1>5, <3>1, <3>2, <3>3, Zenon
  <2>3. Returns(k) => call'[k] = Idle
    BY <1>1, Zenon DEF Returns, TypeOK
  <2>4. call'[k] = Idle \/ Good(k)'
    BY <1>1, <1>5, <2>3, AdvanceGood, MergeGood, PruneGood, Zenon
  <2> QED BY <1>3, <2>1, <2>2, <2>4, Zenon
<1>6. CASE Edits
  <2> SUFFICES ASSUME NEW d \in Task, call'[d] # Idle PROVE Good(d)'
    BY Zenon DEF CallsGood
  <2>1. CASE UNCHANGED <<call, pin, approvers>>
    BY <1>2, <2>1, Zenon
  <2>2. CASE \A k \in Task : call'[k] = Meets(k, pin', approvers')
    <3>1. call[d] # Idle /\ call'[d] = [call[d] EXCEPT !.pins = @ \cup {pin'},
                                                       !.registries = @ \cup {approvers'}]
        BY <2>2, Zenon DEF Meets
    <3>2. call[d] \in Call /\ Good(d)
        BY <1>1, <3>1, Running, Zenon DEF IInv, CallsGood
    <3>3. /\ Carries(d)
          /\ call'[d].pc = call[d].pc /\ call'[d].rules = call[d].rules /\ call'[d].old = call[d].old
          /\ call'[d].needed = call[d].needed /\ call'[d].verdict = call[d].verdict
          /\ call'[d].registry = call[d].registry
          /\ call[d].pins \subseteq call'[d].pins /\ pin' \in call'[d].pins
          /\ call[d].registries \subseteq call'[d].registries /\ approvers' \in call'[d].registries
        BY <3>1, <3>2 DEF Carries, Call
    <3> QED BY <1>1, <3>2, <3>3, GoodStays, Zenon
  <2> QED BY <1>1, <1>6, <2>1, <2>2, EditType, Zenon
<1>7. CASE UNCHANGED vars
    BY <1>2, <1>7, Zenon DEF vars, admin, CallsGood
<1> QED BY <1>4, <1>5, <1>6, <1>7, Cases, Zenon

-----------------------------------------------------------------------------
(* The audit trail *)

\* What m says of a move that its task has yet to record.
Pending(k, m) == At(k, "audit") /\ <<call[k].name, call[k].old, call[k].snap>> = m

Allowed(m) == [timeline |-> m[1], old |-> m[2], new |-> m[3], decision |-> "allowed"]

\* A step that leaves the calls at "audit" where they are, and the record of
\* every move, keeps the trail true if it adds no event that allows.
LEMMA AuditStays ==
    ASSUME AuditTrue, landed \subseteq landed', audit \subseteq audit',
           \A e \in audit' \ audit : e.decision # "allowed",
           \A k \in Task, m \in landed : Pending(k, m) => Pending(k, m)',
           \A m \in landed' \ landed : \E k \in Task : Pending(k, m)'
    PROVE  AuditTrue'
<1>1. \A e \in audit' : e.decision = "allowed" => <<e.timeline, e.old, e.new>> \in landed'
    BY Zenon DEF AuditTrue
<1>2. ASSUME NEW m \in landed' PROVE Allowed(m) \in audit' \/ \E k \in Task : Pending(k, m)'
    BY <1>2, Zenon DEF AuditTrue, Allowed, Pending
<1> QED BY <1>1, <1>2, Zenon DEF AuditTrue, Allowed, Pending

\* Every step keeps the audit trail true.
LEMMA AuditStep == IInv /\ [Next]_vars => AuditTrue'
<1> SUFFICES ASSUME IInv, [Next]_vars PROVE AuditTrue'
    BY Zenon
<1>1. TypeOK /\ AuditTrue
    BY Zenon DEF IInv
<1>2. ASSUME NEW k \in Task, \A d \in Task \ {k} : call'[d] = call[d], call[k].pc # "audit",
             NEW m, NEW d \in Task, Pending(d, m)
      PROVE  Pending(d, m)'
    BY <1>2, Zenon DEF Pending, At
<1>3. ASSUME NEW k \in Task, NEW old, NEW decision \in {"denied", "approval"}, Record(k, old, decision)
      PROVE  audit \subseteq audit' /\ \A e \in audit' \ audit : e.decision # "allowed"
    BY <1>3, SMTT(30) DEF Record
<1>4. ASSUME NEW k \in Task, AdvanceStep(k) \/ MergeStep(k) \/ PruneStep(k)
      PROVE  \A d \in Task \ {k} : call'[d] = call[d]
    <3>1. CASE AdvanceStep(k)
        BY <1>1, <3>1, Zenon
           DEF AdvanceStep, CheckTimeline, ReadHead, ReadPolicy, CheckLineage, LoadApprovers,
           CountApprovals, Refuse, Swap, SwapFails, RecordAllowed, Goes, Returns, TypeOK
    <3>2. CASE PruneStep(k)
        BY <1>1, <3>2, Zenon DEF PruneStep, CheckExpiry, CheckTags, Delete, Goes, Returns, TypeOK
    <3>3. CASE MergeStep(k)
      <4>1. CASE Merge(k)
        BY <1>1, <4>1, Zenon DEF Merge, PutSnapshot, Returns, TypeOK
      <4> QED BY <1>1, <3>3, <4>1, Zenon
                 DEF MergeStep, ReadSource, ReadTarget, MergeDenied, ReadTheirs,
                 ReadInto, Returns, TypeOK
    <3> QED BY <1>4, <3>1, <3>2, <3>3, Zenon
<1>5. ASSUME NEW k \in Task, RecordAllowed(k) PROVE AuditTrue'
  <2>1. call[k] \in Call /\ Good(k) /\ call[k].pc = "audit"
    BY <1>1, <1>5, Running, Zenon DEF RecordAllowed, At, IInv, CallsGood
  <2> DEFINE move == <<call[k].name, call[k].old, call[k].snap>>
  <2>2. move \in landed /\ call[k].old # None
    BY <1>1, <2>1, History, Zenon DEF Good, Checked, Advancing
  <2>3. audit' = audit \cup {Allowed(move)} /\ landed' = landed
    BY <1>5, <2>2, Zenon DEF RecordAllowed, Record, Allowed
  <2>4. \A d \in Task \ {k} : call'[d] = call[d]
    BY <1>4, <1>5, Zenon DEF AdvanceStep
  <2>5. ASSUME NEW e \in audit', e.decision = "allowed" PROVE <<e.timeline, e.old, e.new>> \in landed'
    <3>1. CASE e \in audit
        BY <1>1, <2>3, <2>5, <3>1, Zenon DEF AuditTrue
    <3>2. CASE e = Allowed(move)
      <4>1. <<e.timeline, e.old, e.new>> = move
        BY ONLY <3>2, Zenon DEF Allowed
      <4> QED BY ONLY <2>2, <2>3, <4>1, Zenon
    <3> QED BY ONLY <2>3, <2>5, <3>1, <3>2, Zenon
  <2>6. ASSUME NEW m \in landed' PROVE Allowed(m) \in audit' \/ \E d \in Task : Pending(d, m)'
    <3>1. CASE m = move
        BY <2>3, <3>1, Zenon
    <3>2. CASE Allowed(m) \in audit
        BY <2>3, <3>2, Zenon
    <3>3. CASE m # move /\ \E d \in Task : Pending(d, m)
        BY <2>4, <3>3, Zenon DEF Pending, At
    <3> QED BY <1>1, <2>3, <2>6, <3>1, <3>2, <3>3, Zenon DEF AuditTrue, Allowed, Pending
  <2> HIDE DEF move
  <2> QED BY <2>5, <2>6, Zenon DEF AuditTrue, Allowed, Pending
<1>6. ASSUME NEW k \in Task, Swap(k) PROVE AuditTrue'
  <2>0. PICK move : move = <<call[k].name, call[k].old, call[k].snap>>
    BY Zenon
  <2>1. landed' = landed \cup {move} /\ audit' = audit /\ call[k].pc = "swap"
    BY <1>6, <2>0, Zenon DEF Swap, At
  <2>2. Pending(k, move)'
    <3>1. call[k] \in Call
        BY <1>1, <2>1, Running, Zenon
    <3> QED BY <1>1, <1>6, <2>0, <3>1, Zenon DEF Swap, Goes, Pending, At, TypeOK, Call
  <2>3. \A d \in Task \ {k} : call'[d] = call[d]
    BY <1>4, <1>6, Zenon DEF AdvanceStep
  <2>4. \A d \in Task, m \in landed : Pending(d, m) => Pending(d, m)'
    BY <1>2, <2>1, <2>3, Zenon
  <2> QED BY <1>1, <2>1, <2>2, <2>4, AuditStays, Zenon
<1>7. ASSUME NEW k \in Task, AdvanceStep(k) \/ MergeStep(k) \/ PruneStep(k), ~RecordAllowed(k), ~Swap(k)
      PROVE  AuditTrue'
  <2>1. landed' = landed /\ call[k].pc # "audit"
    BY <1>7, Zenon
       DEF AdvanceStep, CheckTimeline, ReadHead, ReadPolicy, CheckLineage, LoadApprovers,
       CountApprovals, Refuse, SwapFails, MergeStep, ReadSource, ReadTarget, MergeDenied,
       ReadTheirs, ReadInto, Merge, PruneStep, CheckExpiry, CheckTags, Delete, At
  <2>2. audit \subseteq audit' /\ \A e \in audit' \ audit : e.decision # "allowed"
    <3>1. CASE CheckTimeline(k) \/ ReadHead(k)
        BY <1>3, <3>1, Zenon DEF CheckTimeline, ReadHead
    <3>2. CASE Refuse(k)
      <4>1. call[k] \in Call
        BY <1>1, <3>2, Running, Zenon DEF Refuse, At
      <4> QED BY <1>3, <3>2, <4>1, Zenon DEF Refuse, Call, Decision
    <3>3. CASE audit' = audit
        BY <3>3, Zenon
    <3> QED BY <1>7, <3>1, <3>2, <3>3, Zenon
               DEF AdvanceStep, ReadPolicy, CheckLineage, LoadApprovers,
               CountApprovals, SwapFails, MergeStep, ReadSource, ReadTarget, MergeDenied,
               ReadTheirs, ReadInto, Merge, PruneStep, CheckExpiry, CheckTags, Delete
  <2>3. \A d \in Task, m \in landed : Pending(d, m) => Pending(d, m)'
    BY <1>2, <1>4, <1>7, <2>1, Zenon
  <2> QED BY <1>1, <2>1, <2>2, <2>3, AuditStays, Zenon
<1>8. ASSUME NEW k \in Task, Begins(k) PROVE AuditTrue'
  <2>1. UNCHANGED <<audit, landed>> /\ call[k].pc # "audit" /\ \A d \in Task \ {k} : call'[d] = call[d]
    BY <1>1, <1>8, Zenon DEF Begins, CallAdvance, CallMerge, CallPrune, Begin, At, TypeOK
  <2>2. \A d \in Task, m \in landed : Pending(d, m) => Pending(d, m)'
    BY <1>2, <2>1, Zenon
  <2> QED BY <1>1, <2>1, <2>2, AuditStays, Zenon
<1>9. CASE Edits
  <2>1. UNCHANGED <<audit, landed>>
    BY <1>1, <1>9, EditType, Zenon
  <2>2. ASSUME NEW d \in Task, NEW m \in landed, Pending(d, m) PROVE Pending(d, m)'
    <3>1. call[d] \in Call /\ call[d] # Idle
        BY <1>1, <2>2, Running, Zenon DEF Pending, At
    <3>2. call'[d] = call[d] \/ call'[d] = [call[d] EXCEPT !.pins = @ \cup {pin'},
                                                           !.registries = @ \cup {approvers'}]
        BY <1>1, <1>9, <3>1, EditType, Zenon DEF Meets
    <3> QED BY <2>2, <3>1, <3>2, Zenon DEF Pending, At, Call
  <2> QED BY <1>1, <2>1, <2>2, AuditStays, Zenon
<1>10. CASE UNCHANGED vars
    BY <1>1, <1>10, Zenon DEF vars, AuditTrue, At
<1> QED BY <1>5, <1>6, <1>7, <1>8, <1>9, <1>10, Cases, Zenon

-----------------------------------------------------------------------------
(* The theorems *)

\* The invariant holds at the start.
LEMMA InitInv == Init => IInv
<1> SUFFICES ASSUME Init PROVE IInv
    BY Zenon
<1>1. TypeOK
  <2>1. DOMAIN Initial = 1..Len(Initial)
    BY TimelinesAssumption
  <2>2. call \in [Task -> Call \cup {Idle}]
    BY Zenon DEF Init
  <2>3. /\ snaps \in Seq([root : Tree, parents : SUBSET Snapshot]) /\ Len(snaps) <= MaxSnapshots
        /\ \A i \in DOMAIN snaps : snaps[i].parents \subseteq 1..(i - 1)
        /\ head \in [Timeline -> DOMAIN snaps \cup {None}]
    BY <2>1, TimelinesAssumption, Zenon DEF Init
  <2>4. calls \in 0..MaxCalls /\ edits \in 0..MaxEdits
    BY TimelinesAssumption, SMTT(30) DEF Init
  <2> QED BY <2>2, <2>3, <2>4, Zenon DEF Init, TypeOK
<1>2. AuditTrue /\ CallsGood
    BY Zenon DEF Init, AuditTrue, CallsGood
<1> QED BY <1>1, <1>2, Zenon DEF IInv

\* The inductive invariant holds in every reachable state.
THEOREM Invariance == Spec => []IInv
<1>1. IInv /\ [Next]_vars => IInv'
    BY TypeStep, CallsStep, AuditStep, Zenon DEF IInv
<1> QED BY <1>1, InitInv, PTL DEF Spec

\* The audit trail allows exactly the moves that took place, but for those that
\* a call is about to record.
THEOREM AuditIsTrue == Spec => []AuditTrue
<1>1. IInv => AuditTrue
    BY Zenon DEF IInv
<1> QED BY <1>1, Invariance, PTL

\* A landing is the swap of a call that has passed all its checks.
LEMMA Landing ==
    ASSUME IInv, [Next]_vars, NEW k \in Task, Lands(k)
    PROVE  /\ TypeOK /\ call[k] \in Call /\ Good(k) /\ call[k].pc = "swap"
           /\ call[k].verdict = "allowed" /\ head[call[k].name] = call[k].old
<1>1. TypeOK /\ call[k] \in Call /\ Good(k) /\ call[k].pc = "swap" /\ call'[k].pc = "audit"
    BY Running, Zenon DEF IInv, CallsGood, Lands, At
<1>2. ASSUME NEW d \in Task, Begins(d) PROVE d # k /\ call'[k] = call[k]
    BY <1>1, <1>2, Zenon DEF Begins, CallAdvance, CallMerge, CallPrune, Begin, At, TypeOK
<1>3. ~Edits
    BY <1>1, EditType, Running, ZenonT(40) DEF Meets, Call
<1>4. PICK d \in Task : AdvanceStep(d) \/ MergeStep(d) \/ PruneStep(d)
    BY <1>1, <1>2, <1>3, Cases, Zenon DEF vars
<1>5. d = k
  <2> SUFFICES ASSUME d # k PROVE call'[k] = call[k]
    BY <1>1, Zenon
  <2>1. CASE AdvanceStep(d)
    BY <1>1, <2>1, Zenon
       DEF AdvanceStep, CheckTimeline, ReadHead, ReadPolicy, CheckLineage, LoadApprovers,
       CountApprovals, Refuse, Swap, SwapFails, RecordAllowed, Goes, Returns, TypeOK
  <2>2. CASE PruneStep(d)
    BY <1>1, <2>2, Zenon DEF PruneStep, CheckExpiry, CheckTags, Delete, Goes, Returns, TypeOK
  <2>3. CASE Merge(d)
    BY <1>1, <2>3, Zenon DEF Merge, PutSnapshot, Returns, TypeOK
  <2> QED BY <1>1, <1>4, <2>1, <2>2, <2>3, Zenon DEF MergeStep, ReadSource, ReadTarget, MergeDenied,
             ReadTheirs, ReadInto, Returns, TypeOK
<1>6. ~Returns(k)
  <2>1. call \in [Task -> Call \cup {Idle}]
    BY <1>1, Zenon DEF TypeOK
  <2>2. Returns(k) => call'[k] = Idle
    BY <2>1, Zenon DEF Returns
  <2> QED BY <1>1, <2>2, SMTT(30) DEF Idle
<1>7. Swap(k)
    BY <1>1, <1>4, <1>5, <1>6, Zenon
       DEF AdvanceStep, CheckTimeline, ReadHead, ReadPolicy, CheckLineage,
       LoadApprovers, CountApprovals, Refuse, SwapFails, RecordAllowed, At, MergeStep, ReadSource,
       ReadTarget, MergeDenied, ReadTheirs, ReadInto, Merge, PruneStep, CheckExpiry, CheckTags, Delete
<1> QED BY <1>1, <1>7, Zenon DEF Swap

\* Whatever other tasks do to labels, policies and heads meanwhile, an advance
\* removes or writes only what its task may write, in the very head it replaces.
THEOREM LandingsPermitted == Spec => WritesPermitted
<1> DEFINE A == \A k \in Task : Lands(k) =>
                \A p \in Path :
                    RootOf(call[k].snap)[p] # None \/ RootOf(head[call[k].name])[p] # None
                        => CanWrite(k, call[k].rules, p)
<1>1. ASSUME IInv, [Next]_vars PROVE A
  <2> SUFFICES ASSUME NEW k \in Task, Lands(k), NEW p \in Path,
                      RootOf(call[k].snap)[p] # None \/ RootOf(head[call[k].name])[p] # None
               PROVE  CanWrite(k, call[k].rules, p)
    BY Zenon
  <2>1. Good(k) /\ call[k].pc = "swap" /\ head[call[k].name] = call[k].old
    BY <1>1, Landing, Zenon
  <2>2. DeniedPaths(k) = {} /\ DeniedRemoved(k, call[k].old) = {}
    BY <2>1, Zenon DEF Good, Checked, Advancing
  <2> QED BY <2>1, <2>2, Zenon DEF DeniedPaths, DeniedRemoved
<1>2. IInv /\ [Next]_vars => [A]_vars
    BY <1>1, Zenon
<1> QED BY <1>2, Invariance, PTL DEF Spec, WritesPermitted

\* An advance lands with the approvals of its very head that the local hooks and
\* a root pinned during the call ask for, counted against a registry set during the call.
THEOREM LandingsApproved == Spec => ApprovedLanding
<1> DEFINE A == \A k \in Task : Lands(k) =>
                \E r \in call[k].pins, registry \in call[k].registries :
                    /\ r # Unresolvable
                    /\ \/ Needed(r, call[k].name) = 0
                       \/ Approves(k, registry, Needed(r, call[k].name))
<1>1. ASSUME IInv, [Next]_vars PROVE A
  <2> SUFFICES ASSUME NEW k \in Task, Lands(k)
               PROVE  \E r \in call[k].pins, registry \in call[k].registries :
                        /\ r # Unresolvable
                        /\ \/ Needed(r, call[k].name) = 0
                           \/ Approves(k, registry, Needed(r, call[k].name))
    BY Zenon
  <2>1. /\ Good(k) /\ call[k] \in Call /\ call[k].pc = "swap" /\ call[k].verdict = "allowed"
    BY <1>1, Landing, Zenon
  <2>2. PICK r \in call[k].pins :
          r # Unresolvable /\ call[k].needed = Needed(r, call[k].name)
    BY <2>1, Zenon DEF Good, Asked
  <2>3. PICK registry \in call[k].registries :
          call[k].needed = 0 \/ Approves(k, registry, call[k].needed)
    <3>1. CASE Approved(k)
        BY <3>1, Zenon DEF Approved
    <3>2. CASE call[k].needed = 0
      <4>1. approvers \in call[k].registries
        BY <2>1, Zenon DEF Good
      <4> QED BY <3>2, <4>1, Zenon
    <3> QED BY <2>1, <3>1, <3>2, Zenon DEF Good
  <2> QED BY <2>2, <2>3, Zenon
<1>2. IInv /\ [Next]_vars => [A]_vars
    BY <1>1, Zenon
<1> QED BY <1>2, Invariance, PTL DEF Spec, ApprovedLanding

\* A fast-forward timeline moves only to descendants of the head it has when it
\* moves, though lineage is checked against a head read before.
THEOREM AdvancesGoForward == Spec => LineageKept
<1> DEFINE A == \A t \in FastForward :
                head[t] # None /\ head'[t] \notin {None, head[t]} => head[t] \in Ancestors[head'[t]]
<1>1. ASSUME IInv, [Next]_vars PROVE A
  <2>0. TypeOK
    BY <1>1, Zenon DEF IInv
  <2>1. ASSUME NEW k \in Task, Swap(k) PROVE A
    <3>1. call[k] \in Call /\ Good(k) /\ call[k].pc = "swap" /\ call[k].verdict = "allowed"
        BY <1>1, <2>0, <2>1, Running, Zenon DEF Swap, At, IInv, CallsGood
    <3>2. /\ call[k].name \in FastForward => call[k].old \in Ancestors[call[k].snap]
          /\ call[k].name \in Timeline
        BY <3>1, Zenon DEF Good, Call
    <3>3. /\ head' = [head EXCEPT ![call[k].name] = call[k].snap]
          /\ head[call[k].name] = call[k].old /\ head \in [Timeline -> DOMAIN snaps \cup {None}]
        BY <2>0, <2>1, Zenon DEF Swap, TypeOK
    <3> QED BY <3>2, <3>3, SMTT(30)
  <2>2. ASSUME NEW k \in Task, Delete(k) PROVE A
    BY <2>0, <2>2, SMTT(30) DEF Delete, TypeOK
  <2>3. ASSUME NEW k \in Task, Begins(k) \/ AdvanceStep(k) \/ MergeStep(k) \/ PruneStep(k),
               ~Swap(k), ~Delete(k)
        PROVE  head' = head
    BY <2>3, Zenon
       DEF Begins, CallAdvance, CallMerge, CallPrune, Begin, AdvanceStep, CheckTimeline, ReadHead,
       ReadPolicy, CheckLineage, LoadApprovers, CountApprovals, Refuse, SwapFails, RecordAllowed,
       MergeStep, ReadSource, ReadTarget, MergeDenied, ReadTheirs, ReadInto, Merge, PruneStep,
       CheckExpiry, CheckTags
  <2>4. CASE Edits
    <3>1. head' = head \/ \E u \in Timeline, s \in DOMAIN snaps : CreateTimeline(u, s)
        BY <2>4, Zenon
           DEF Edits, SetPolicyRoot, SetApprovers, AddAttestation, SetAcl, RemoveAcl, CreateTag
    <3>2. ASSUME NEW u \in Timeline, NEW s \in DOMAIN snaps, CreateTimeline(u, s) PROVE A
        BY <2>0, <3>2, SMTT(30) DEF CreateTimeline, TypeOK
    <3>3. CASE head' = head
        BY <3>3, Zenon
    <3> HIDE DEF A
    <3> QED BY <3>1, <3>2, <3>3, Zenon
  <2>5. CASE head' = head
    BY <2>5, Zenon
  <2> HIDE DEF A
  <2> QED BY <1>1, <2>1, <2>2, <2>3, <2>4, <2>5, Cases, Zenon DEF vars
<1>2. IInv /\ [Next]_vars => [A]_vars
    BY <1>1, Zenon
<1> QED BY <1>2, Invariance, PTL DEF Spec, LineageKept

\* A merge that lands undoes nothing on its target: at every path it keeps what
\* the replaced head has, or brings what the source changed since the base.
THEOREM MergesKeepTarget == Spec => MergeKeepsTarget
<1> DEFINE A == \A k \in Task :
                /\ Lands(k) /\ call[k].source # None
                /\ call[k].ours = call[k].expected \/ call[k].name \in FastForward \ Expired
                =>
                    \A p \in Path :
                        LET old == RootOf(head[call[k].name])[p]
                            new == RootOf(call[k].snap)[p]
                        IN  new = old \/ (new = RootOf(call[k].theirs)[p] /\ old = RootOf(call[k].base)[p])
<1>1. ASSUME IInv, [Next]_vars PROVE A
  <2> SUFFICES ASSUME NEW k \in Task, Lands(k), call[k].source # None,
                      call[k].ours = call[k].expected \/ call[k].name \in FastForward \ Expired,
                      NEW p \in Path
               PROVE  \/ RootOf(call[k].snap)[p] = RootOf(head[call[k].name])[p]
                      \/ /\ RootOf(call[k].snap)[p] = RootOf(call[k].theirs)[p]
                         /\ RootOf(head[call[k].name])[p] = RootOf(call[k].base)[p]
    BY Zenon
  <2>1. /\ TypeOK /\ Good(k) /\ call[k] \in Call /\ call[k].pc = "swap"
        /\ head[call[k].name] = call[k].old
    BY <1>1, Landing, Zenon
  <2>2. Checked(k) /\ Merging(k)
    BY <2>1, Zenon DEF Good, Advancing
  <2>3. /\ call[k].expected \in DOMAIN snaps /\ call[k].ours \in DOMAIN snaps /\ Diffed(k)
        /\ Forward(call[k].name) =>
             call[k].expected <= call[k].ours /\ call[k].ours <= head[call[k].name]
    BY <2>1, <2>2, Zenon DEF Merging, NotBehind, Advancing
  <2>4. call[k].expected = head[call[k].name]
    BY <2>1, <2>2, <2>3, History, Zenon DEF Checked, Stale
  <2>5. call[k].ours = head[call[k].name]
    <3>1. call[k].expected \in Nat /\ call[k].ours \in Nat
        BY <2>1, <2>3, History, Zenon
    <3> QED BY <2>3, <2>4, <3>1, SMTT(30) DEF Forward
  <2> QED BY <2>3, <2>5, Zenon DEF Diffed, Conflict, Merged
<1>2. IInv /\ [Next]_vars => [A]_vars
    BY <1>1, Zenon
<1> QED BY <1>2, Invariance, PTL DEF Spec, MergeKeepsTarget
=============================================================================
