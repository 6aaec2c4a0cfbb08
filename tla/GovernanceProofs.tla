-------------------------- MODULE GovernanceProofs --------------------------
(***************************************************************************)
(* Proofs about Access, Governance and Api, for any roots, replicas, rules, *)
(* accessors and requests: policy roots are adopted forward only and        *)
(* reconciled alike everywhere, what is explained is what is enforced, what  *)
(* is hidden looks absent, and a merge that the check allows exposes nothing. *)
(***************************************************************************)
EXTENDS Api, WalkProofs, FiniteSetTheorems, TLAPS

-----------------------------------------------------------------------------
(* The lineage of a policy root *)

\* Parents lead out of every set of roots: one that they do not leave is empty.
LEMMA ParentsLeave ==
    ASSUME NEW S \in SUBSET Root, \A r \in S : ParentOf[r] \in S
    PROVE  S = {}
BY GovernanceAssumption, Zenon

\* A root that has a parent has the lineage of the parent below it.
LEMMA LineageStep ==
    ASSUME NEW r \in Root
    PROVE  /\ r \in Lineage[r]
           /\ ParentOf[r] = None => Lineage[r] = {r}
           /\ ParentOf[r] # None => ParentOf[r] \in Root /\ Lineage[r] = {r} \cup Lineage[ParentOf[r]]
<1> DEFINE up == [x \in Root |-> {ParentOf[x]} \ {None}]
<1>1. up \in [Root -> SUBSET Root]
    BY GovernanceAssumption, Zenon
<1>2. up[r] = {ParentOf[r]} \ {None} /\ Lineage = Walk(Root, up)
    BY Zenon DEF Lineage
<1> HIDE DEF up
<1>3. Lineage[r] = {r} \cup UNION {Lineage[e] : e \in up[r]}
    BY <1>1, <1>2, WalkStep
<1> QED BY <1>2, <1>3, GovernanceAssumption

\* The lineage of a root consists of roots.
LEMMA LineageRoots ==
    ASSUME NEW r \in Root
    PROVE  Lineage[r] \subseteq Root
<1> DEFINE S == {x \in Root : ~(Lineage[x] \subseteq Root)}
<1>1. \A x \in S : ParentOf[x] \in S
    BY LineageStep
<1>2. S = {}
    BY <1>1, ParentsLeave, Zenon
<1> QED BY <1>2, Zenon

\* What is below a root of a lineage is in the lineage.
LEMMA LineageDown ==
    ASSUME NEW a \in Root, NEW b \in Lineage[a]
    PROVE  Lineage[b] \subseteq Lineage[a]
<1> DEFINE S == {x \in Root : \E y \in Lineage[x] : ~(Lineage[y] \subseteq Lineage[x])}
<1>1. ASSUME NEW x \in S PROVE ParentOf[x] \in S
  <2>1. PICK y \in Lineage[x] : ~(Lineage[y] \subseteq Lineage[x])
    BY Zenon
  <2>2. y # x
    BY <2>1, Zenon
  <2> QED BY <2>1, <2>2, LineageStep
<1>2. S = {}
    BY <1>1, ParentsLeave, Zenon
<1> QED BY <1>2, Zenon

\* No root is in the lineage of its parent.
LEMMA NoReturn ==
    ASSUME NEW a \in Root, ParentOf[a] # None
    PROVE  a \notin Lineage[ParentOf[a]]
<1> DEFINE S == {x \in Root : ParentOf[x] # None /\ x \in Lineage[ParentOf[x]]}
<1>1. ASSUME NEW x \in S PROVE ParentOf[x] \in S
  <2> DEFINE p == ParentOf[x]
  <2>1. p \in Root /\ x \in Lineage[p] /\ p \in Lineage[x]
    BY LineageStep, Zenon
  <2>2. CASE x = p
    BY <2>2, Zenon
  <2>3. CASE x # p
    <3>1. ParentOf[p] # None /\ x \in Lineage[ParentOf[p]] /\ ParentOf[p] \in Root
        BY <2>1, <2>3, LineageStep
    <3>2. p \in Lineage[ParentOf[p]]
        BY <2>1, <3>1, LineageDown, Zenon
    <3> QED BY <2>1, <3>1, <3>2, Zenon
  <2> QED BY <2>2, <2>3, Zenon
<1>2. S = {}
    BY <1>1, ParentsLeave, Zenon
<1> QED BY <1>2, Zenon

\* Two roots in each other's lineage are one.
LEMMA LineageOrder ==
    ASSUME NEW a \in Root, NEW b \in Lineage[a], a \in Lineage[b]
    PROVE  a = b
<1> SUFFICES ASSUME a # b PROVE FALSE
    BY Zenon
<1>1. ParentOf[a] # None /\ ParentOf[a] \in Root /\ b \in Lineage[ParentOf[a]]
    BY LineageStep
<1>2. a \in Lineage[ParentOf[a]]
    BY <1>1, LineageDown, Zenon
<1> QED BY <1>1, <1>2, NoReturn, Zenon

\* The roots of a lineage that have no parent.
Genesis(r) == {x \in Lineage[r] : ParentOf[x] = None}

\* A root shares its genesis with all of its lineage.
LEMMA OneGenesis ==
    ASSUME NEW a \in Root, NEW b \in Lineage[a]
    PROVE  Genesis(b) = Genesis(a)
<1> DEFINE S == {x \in Root : \E y \in Lineage[x] : Genesis(y) # Genesis(x)}
<1>1. ASSUME NEW x \in S PROVE ParentOf[x] \in S
  <2>1. PICK y \in Lineage[x] : Genesis(y) # Genesis(x)
    BY Zenon
  <2>2. ParentOf[x] # None /\ ParentOf[x] \in Root /\ y \in Lineage[ParentOf[x]]
    BY <2>1, LineageStep
  <2>3. Genesis(ParentOf[x]) = Genesis(x)
    BY <2>2, LineageStep, Zenon DEF Genesis
  <2> QED BY <2>1, <2>2, <2>3, Zenon
<1>2. S = {}
    BY <1>1, ParentsLeave, Zenon
<1> QED BY <1>2, Zenon

\* The chain that a replica finds is broken at the tip, or the tip over the
\* chain of its parent.
LEMMA ChainStep ==
    ASSUME NEW objs, NEW r \in Root, None \notin Chain(objs, r)
    PROVE  /\ ParentOf[r] = None => Chain(objs, r) = {r}
           /\ ParentOf[r] # None => Chain(objs, r) = {r} \cup Chain(objs, ParentOf[r])
<1> DEFINE stored(x) == <<x, "root">> \in objs
           up == [x \in Root |-> IF stored(x) THEN {ParentOf[x]} \ {None} ELSE {}]
           seen(x) == {IF stored(y) THEN y ELSE None : y \in Walk(Root, up)[x]}
<1>1. up \in [Root -> SUBSET Root]
    BY GovernanceAssumption, Zenon
<1>2. up[r] = IF stored(r) THEN {ParentOf[r]} \ {None} ELSE {}
    BY Zenon
<1>3. \A x : Chain(objs, x) = seen(x)
    BY Zenon DEF Chain
<1> HIDE DEF up
<1>4. Walk(Root, up)[r] = {r} \cup UNION {Walk(Root, up)[e] : e \in up[r]}
    BY <1>1, WalkStep
<1>5. stored(r)
    BY <1>3, <1>4, Zenon
<1>6. CASE ParentOf[r] = None
  <2>1. Walk(Root, up)[r] = {r}
    BY <1>2, <1>4, <1>6, Zenon
  <2>2. seen(r) = {r}
    BY <2>1, <1>5, Zenon
  <2> QED BY <1>3, <1>6, <2>2, Zenon
<1>7. CASE ParentOf[r] # None
  <2>1. Walk(Root, up)[r] = {r} \cup Walk(Root, up)[ParentOf[r]]
    BY <1>2, <1>4, <1>5, <1>7, Zenon
  <2>2. seen(r) = {r} \cup seen(ParentOf[r])
    BY <2>1, <1>5, Zenon
  <2> QED BY <1>3, <1>7, <2>2, Zenon
<1> QED BY <1>6, <1>7, Zenon

\* An unbroken chain is the lineage, whatever else a replica stores.
LEMMA ChainIsLineage ==
    ASSUME NEW objs, NEW r \in Root, None \notin Chain(objs, r)
    PROVE  Chain(objs, r) = Lineage[r]
<1> DEFINE S == {x \in Root : None \notin Chain(objs, x) /\ Chain(objs, x) # Lineage[x]}
<1>1. ASSUME NEW x \in S PROVE ParentOf[x] \in S
  <2>1. x \in Root /\ None \notin Chain(objs, x) /\ Chain(objs, x) # Lineage[x]
    BY Zenon
  <2>2. ParentOf[x] # None
    BY <2>1, ChainStep, LineageStep, Zenon
  <2>3. ParentOf[x] \in Root /\ Lineage[x] = {x} \cup Lineage[ParentOf[x]]
    BY <2>1, <2>2, LineageStep, Zenon
  <2>4. Chain(objs, x) = {x} \cup Chain(objs, ParentOf[x])
    BY <2>1, <2>2, ChainStep, Zenon
  <2> QED BY <2>1, <2>3, <2>4, Zenon
<1>2. S = {}
    BY <1>1, ParentsLeave, Zenon
<1> QED BY <1>2, Zenon

\* Replicas that can verify two tips pick the same one, in whichever order and
\* whatever else they store, and it is the one with the other in its lineage.
THEOREM ReconciledAlike == Spec => []ReplicasReconcileAlike
<1>1. ASSUME NEW a \in Root, NEW b \in Root, a # b, NEW n \in Replica, Reconcile(n, a, b) # "error"
      PROVE  /\ Reconcile(n, a, b) = "left" <=> b \in Lineage[a]
             /\ Reconcile(n, a, b) = "right" <=> a \in Lineage[b]
  <2>1. VerifyChain(n, a) /\ VerifyChain(n, b)
    BY <1>1, Zenon DEF Reconcile
  <2>2. Chain(has[n], a) = Lineage[a] /\ Chain(has[n], b) = Lineage[b]
    BY <2>1, ChainIsLineage, Zenon DEF VerifyChain
  <2>3. Reconcile(n, a, b) =
          IF Genesis(a) # Genesis(b) THEN "diverged"
          ELSE IF b \in Lineage[a] THEN "left"
          ELSE IF a \in Lineage[b] THEN "right" ELSE "diverged"
    BY <1>1, <2>1, <2>2, Zenon DEF Reconcile, Genesis
  <2>4. b \in Lineage[a] \/ a \in Lineage[b] => Genesis(a) = Genesis(b)
    BY OneGenesis, Zenon
  <2>5. ~(b \in Lineage[a] /\ a \in Lineage[b])
    BY <1>1, LineageOrder, Zenon
  <2> QED BY <2>3, <2>4, <2>5, Zenon
<1>2. ReplicasReconcileAlike
  <2> SUFFICES ASSUME NEW a \in Root, NEW b \in Root, a # b, NEW n \in Replica, NEW m \in Replica,
                      Reconcile(n, a, b) # "error", Reconcile(m, b, a) # "error"
               PROVE  /\ Reconcile(n, a, b) = "left" <=> Reconcile(m, b, a) = "right"
                      /\ Reconcile(n, a, b) = "left" <=> b \in Lineage[a]
                      /\ Reconcile(n, a, b) = "right" <=> a \in Lineage[b]
    BY DEF ReplicasReconcileAlike
  <2>1. /\ Reconcile(n, a, b) = "left" <=> b \in Lineage[a]
        /\ Reconcile(n, a, b) = "right" <=> a \in Lineage[b]
    BY <1>1, Zenon
  <2>2. Reconcile(m, b, a) = "right" <=> b \in Lineage[a]
    BY <1>1, Zenon
  <2> QED BY <2>1, <2>2, Zenon
<1> QED BY <1>2, PTL

-----------------------------------------------------------------------------
(* Adoption *)

\* What verify_chain establishes of a tip once and for all: its lineage is
\* signed by the replica's anchors and declares known hooks.
Trusted(n, tip) ==
    \A r \in Lineage[tip] : /\ SignedBy[r] \in AnchorsOf[n]
                            /\ \A h \in HooksOf[r] : h.kind \in KnownKinds

Adopting == [pc : {"read", "swap"}, node : Replica, tip : Root, seen : Root \cup {None}]

\* A call of adopt_policy_root has verified its tip, and after it has read the
\* pin, that the tip is above it.
AdoptInv ==
    /\ pin \in [Replica -> Root \cup {None, "timeline"}]
    /\ adopt \in [Task -> Adopting \cup {NoAdoption}]
    /\ \A k \in Task : adopt[k] \in Adopting =>
         /\ Trusted(adopt[k].node, adopt[k].tip)
         /\ adopt[k].pc = "swap" => adopt[k].seen = None \/ adopt[k].seen \in Lineage[adopt[k].tip]

\* A call that is under way has a replica and a tip.
LEMMA UnderWay ==
    ASSUME AdoptInv, NEW k \in Task, adopt[k].pc # "idle"
    PROVE  adopt[k] \in Adopting
BY DEF AdoptInv, NoAdoption

\* An idle call is none of those that are under way.
LEMMA IdleCall == NoAdoption \notin Adopting
BY Zenon DEF NoAdoption, Adopting

\* A chain that verifies has a trusted lineage.
LEMMA VerifiedTrusted ==
    ASSUME NEW n \in Replica, NEW tip \in Root, VerifyChain(n, tip)
    PROVE  Trusted(n, tip)
<1>1. Chain(has[n], tip) = Lineage[tip]
    BY ChainIsLineage, Zenon DEF VerifyChain
<1> QED BY <1>1, Zenon DEF VerifyChain, Trusted, VerifyRootSignature, ResolveHook

\* The steps that concern neither a pin nor an adoption.
Elsewhere == UNCHANGED <<pin, adopt>>

\* Every step is one of an adoption, pins a root or a timeline, or is elsewhere.
LEMMA AdoptCases ==
    ASSUME [Next]_vars
    PROVE  \/ \E k \in Task, n \in Replica, r \in Root : AdoptVerify(k, n, r)
           \/ \E k \in Task : AdoptRead(k)
           \/ \E k \in Task : AdoptSwap(k)
           \/ \E n \in Replica, r \in Root : SetPolicyRoot(n, r)
           \/ \E n \in Replica : PinTimeline(n)
           \/ Elsewhere
<1>1. CASE Administer
  <2>1. UNCHANGED rootVars
    BY <1>1, Zenon
       DEF Administer, AclRule, SetAcl, RemoveAcl, SetGrant, CreateActor, GrantRole, UseActor,
       RequireApproval, Unrequire, ApproverAdd, Approve, ApproversTimeline
  <2> QED BY <2>1, Zenon DEF rootVars, Elsewhere
<1>2. CASE Check
  <2>1. UNCHANGED rootVars
    BY <1>2, Zenon DEF Check, ListAcls, FinishCheck, BeginCheck
  <2> QED BY <2>1, Zenon DEF rootVars, Elsewhere
<1>3. CASE Replicate
    BY <1>3, Zenon DEF Replicate, Receive, Gc, Elsewhere
<1>4. CASE UNCHANGED vars
    BY <1>4, Zenon DEF vars, rootVars, Elsewhere
<1> QED BY <1>1, <1>2, <1>3, <1>4, Zenon DEF Next

\* Every step keeps what is known of the adoptions.
LEMMA AdoptKept == AdoptInv /\ [Next]_vars => AdoptInv'
<1> SUFFICES ASSUME AdoptInv, [Next]_vars PROVE AdoptInv'
    BY Zenon
<1>1. ASSUME NEW k \in Task, NEW n \in Replica, NEW r \in Root, AdoptVerify(k, n, r) PROVE AdoptInv'
  <2> DEFINE rec == [pc |-> "read", node |-> n, tip |-> r, seen |-> None]
  <2>1. rec \in Adopting /\ rec.node = n /\ rec.tip = r /\ rec.pc = "read"
    BY Zenon DEF Adopting
  <2>2. Trusted(n, r) /\ adopt' = [adopt EXCEPT ![k] = rec] /\ pin' = pin
    BY <1>1, VerifiedTrusted, Zenon DEF AdoptVerify, AdoptStep
  <2> HIDE DEF rec
  <2> QED BY <2>1, <2>2, Zenon DEF AdoptInv, Trusted
<1>2. ASSUME NEW k \in Task, AdoptRead(k) PROVE AdoptInv'
  <2>1. adopt[k] \in Adopting /\ Trusted(adopt[k].node, adopt[k].tip) /\ pin' = pin
    BY <1>2, UnderWay, Zenon DEF AdoptRead, AdoptInv
  <2>2. CASE PinOnChain(k)
    <3> DEFINE rec == [adopt[k] EXCEPT !.pc = "swap", !.seen = pin[adopt[k].node]]
    <3>1. adopt' = [adopt EXCEPT ![k] = rec]
        BY <1>2, <2>2, Zenon DEF AdoptRead, AdoptStep
    <3>2. pin[adopt[k].node] = None \/ pin[adopt[k].node] \in Lineage[adopt[k].tip]
        BY <2>1, <2>2, ChainIsLineage DEF PinOnChain, Adopting
    <3>3. rec \in Adopting /\ rec.node = adopt[k].node /\ rec.tip = adopt[k].tip
          /\ rec.seen = pin[adopt[k].node]
        BY <2>1, <3>2, LineageRoots, Zenon DEF Adopting
    <3> HIDE DEF rec
    <3> QED BY <2>1, <3>1, <3>2, <3>3, Zenon DEF AdoptInv, Trusted
  <2>3. CASE ~PinOnChain(k)
    <3>1. adopt' = [adopt EXCEPT ![k] = NoAdoption]
        BY <1>2, <2>3, Zenon DEF AdoptRead, AdoptStep
    <3> QED BY <2>1, <3>1, IdleCall, Zenon DEF AdoptInv, Trusted
  <2> QED BY <2>2, <2>3, Zenon
<1>3. ASSUME NEW k \in Task, AdoptSwap(k) PROVE AdoptInv'
  <2>1. adopt[k] \in Adopting /\ adopt' = [adopt EXCEPT ![k] = NoAdoption]
    BY <1>3, UnderWay, Zenon DEF AdoptSwap, AdoptStep
  <2>2. pin' \in [Replica -> Root \cup {None, "timeline"}]
    BY <1>3, <2>1, Zenon DEF AdoptSwap, AdoptInv, Adopting
  <2> QED BY <2>1, <2>2, IdleCall, Zenon DEF AdoptInv, Trusted
<1>4. ASSUME NEW n \in Replica, NEW r \in Root, SetPolicyRoot(n, r) PROVE AdoptInv'
    BY <1>4, Zenon DEF SetPolicyRoot, AdoptInv, Trusted
<1>5. ASSUME NEW n \in Replica, PinTimeline(n) PROVE AdoptInv'
    BY <1>5, Zenon DEF PinTimeline, AdoptInv, Trusted
<1>6. CASE Elsewhere
    BY <1>6, Zenon DEF Elsewhere, AdoptInv, Trusted
<1> QED BY <1>1, <1>2, <1>3, <1>4, <1>5, <1>6, AdoptCases, Zenon

\* No call is under way at the start.
LEMMA AdoptInit == Init => AdoptInv
<1> SUFFICES ASSUME Init PROVE AdoptInv
    BY Zenon
<1>1. pin \in [Replica -> Root \cup {None, "timeline"}]
    BY GovernanceAssumption, Zenon DEF Init
<1> QED BY <1>1, IdleCall, Zenon DEF Init, AdoptInv

\* Adoption never rolls governance back, forks it or adopts what was not
\* verified, although verification, the reading of the pin and the swap are
\* separate steps of calls that interleave.
THEOREM AdoptionsSound == Spec => AdoptionSound
<1> DEFINE A == \A k \in Task :
       (adopt[k].pc = "swap" /\ adopt'[k].pc = "idle" /\ pin' # pin) =>
         LET n == adopt[k].node
             up == Lineage[pin'[n]]
         IN /\ pin[n] # None => pin[n] \in up
            /\ \A r \in up : /\ SignedBy[r] \in AnchorsOf[n]
                             /\ \A h \in HooksOf[r] : h.kind \in KnownKinds
<1>1. ASSUME AdoptInv, [Next]_vars PROVE A
  <2> SUFFICES ASSUME NEW k \in Task, adopt[k].pc = "swap", adopt'[k].pc = "idle", pin' # pin
               PROVE  /\ pin[adopt[k].node] # None => pin[adopt[k].node] \in Lineage[pin'[adopt[k].node]]
                      /\ Trusted(adopt[k].node, pin'[adopt[k].node])
    BY Zenon DEF Trusted
  <2>1. adopt[k] \in Adopting
    BY <1>1, UnderWay, Zenon
  <2>2. AdoptSwap(k)
    BY <1>1, AdoptCases, Zenon
       DEF AdoptVerify, AdoptRead, AdoptSwap, AdoptStep, SetPolicyRoot, PinTimeline,
       Elsewhere, AdoptInv
  <2>3. pin[adopt[k].node] = adopt[k].seen /\ pin'[adopt[k].node] = adopt[k].tip
    BY <1>1, <2>1, <2>2, Zenon DEF AdoptSwap, StillSeen, AdoptInv, Adopting
  <2> QED BY <1>1, <2>1, <2>3, Zenon DEF AdoptInv
<1>2. AdoptInv /\ [Next]_vars => [A]_vars
    BY <1>1, Zenon
<1> QED BY <1>2, AdoptInit, AdoptKept, PTL DEF Spec, AdoptionSound

-----------------------------------------------------------------------------
(* Explanations and lookups *)

\* How eval_cap records that one clearance fared.
Fared(acc, c, cap, label, r) ==
    [applies |-> ScopeApplies(c.scope, r), grants |-> cap \in c.caps,
     dominates |-> Dominates(acc.lattice, c.ceiling, label),
     strictly |-> StrictlyDominates(acc.lattice, c.ceiling, label)]

\* What qualifies there.
Qualifying(acc, cap, label, r) ==
    {e \in {Fared(acc, c, cap, label, r) : c \in acc.clearances} : e.grants /\ e.applies /\ e.dominates}

\* What qualifies in the explanation are the clearances that clear the access.
LEMMA Qualified ==
    ASSUME NEW acc, NEW cap, NEW label, NEW r
    PROVE  /\ Qualifying(acc, cap, label, r) # {} <=> \E c \in acc.clearances : Clears(acc, c, cap, label, r)
           /\ (\A e \in Qualifying(acc, cap, label, r) : e.strictly) <=>
                \A c \in acc.clearances : Clears(acc, c, cap, label, r) =>
                                            StrictlyDominates(acc.lattice, c.ceiling, label)
<1> DEFINE qualified == Qualifying(acc, cap, label, r)
<1>1. ASSUME NEW c \in acc.clearances
      PROVE  /\ Fared(acc, c, cap, label, r) \in qualified <=> Clears(acc, c, cap, label, r)
             /\ Fared(acc, c, cap, label, r).strictly <=> StrictlyDominates(acc.lattice, c.ceiling, label)
    BY Zenon DEF Fared, Clears, Qualifying
<1>2. \A e \in qualified : \E c \in acc.clearances : e = Fared(acc, c, cap, label, r)
    BY Zenon DEF Qualifying
<1> QED BY <1>1, <1>2, Zenon

\* The explanation allows exactly what the accessor's checks allow.
LEMMA ExplainedAsChecked ==
    ASSUME NEW acc, NEW label, NEW r
    PROVE  /\ EvalCap(acc, "read", label, r).allowed <=> CanRead(acc, label, r)
           /\ EvalCap(acc, "write", label, r).allowed <=> CanWrite(acc, label, r)
<1>1. ASSUME NEW cap \in {"read", "write"}
      PROVE  EvalCap(acc, cap, label, r).allowed <=>
               /\ \E c \in acc.clearances : Clears(acc, c, cap, label, r)
               /\ ~(/\ cap = "write" /\ acc.confined
                    /\ \A c \in acc.clearances : Clears(acc, c, cap, label, r) =>
                                                   StrictlyDominates(acc.lattice, c.ceiling, label))
  <2> DEFINE qualified == Qualifying(acc, cap, label, r)
  <2>3. EvalCap(acc, cap, label, r).allowed <=> qualified # {} /\ ~WriteBlocked(acc, cap, qualified)
    BY Zenon DEF EvalCap, Fared, Qualifying
  <2>4. /\ qualified # {} <=> \E c \in acc.clearances : Clears(acc, c, cap, label, r)
        /\ (\A e \in qualified : e.strictly) <=>
             \A c \in acc.clearances : Clears(acc, c, cap, label, r) =>
                                         StrictlyDominates(acc.lattice, c.ceiling, label)
    BY Qualified, Zenon
  <2>5. WriteBlocked(acc, cap, qualified) <=>
          qualified # {} /\ cap = "write" /\ acc.confined /\ \A e \in qualified : e.strictly
    BY Zenon DEF WriteBlocked
  <2> HIDE DEF qualified
  <2> QED BY <2>3, <2>4, <2>5, Zenon
<1> QED BY <1>1, Zenon DEF CanRead, CanWrite

\* explain_path says of every accessor and path what get_snapshot_filtered
\* shows and what advance_timeline lets it write.
THEOREM ExplainedIsEnforced == Spec => []ExplainMatchesEnforcement
<1>1. ASSUME NEW acc, NEW s \in DOMAIN TreeOf, NEW p \in TreeOf[s]
      PROVE  /\ ExplainPath(acc, p).read <=> p \in GetSnapshotFiltered(acc, s)
             /\ ExplainPath(acc, p).write <=> MayWritePath(acc, p)
  <2> DEFINE r == Resource("path", p)
             label == LabelFor(Rules, TwoPoint, r)
  <2>1. /\ ExplainPath(acc, p).read = (label = Bottom(TwoPoint) \/ EvalCap(acc, "read", label, r).allowed)
        /\ ExplainPath(acc, p).write = EvalCap(acc, "write", label, r).allowed
    BY Zenon DEF ExplainPath, Explain
  <2>2. p \in GetSnapshotFiltered(acc, s) <=> label = Bottom(TwoPoint) \/ CanRead(acc, label, r)
    BY Zenon DEF GetSnapshotFiltered, WalkTreeFiltered, Readable
  <2>3. MayWritePath(acc, p) = CanWrite(acc, label, r)
    BY Zenon DEF MayWritePath
  <2> HIDE DEF r, label
  <2> QED BY <2>1, <2>2, <2>3, ExplainedAsChecked, Zenon
<1>2. ExplainMatchesEnforcement
    BY <1>1, Zenon DEF ExplainMatchesEnforcement
<1> QED BY <1>2, PTL

\* A timeline answers under its own name exactly when the listing shows it, one
\* that is hidden answers as one that does not exist, and a blob is served
\* exactly when the filtered snapshot names its path.
THEOREM LookupIsTwin == Spec => []HiddenLooksAbsent
<1>1. ASSUME NEW req \in Requests, TimelinesList(req).status = 200
      PROVE  /\ \A n \in Names :
                  IF \E e \in TimelinesList(req).body : e[1] = n
                    THEN TimelinesGet(req, n).status = 200
                    ELSE TimelinesGet(req, n) = Status(404)
             /\ \A s \in DOMAIN TreeOf : \A p \in TreeOf[s] :
                  SnapshotBlob(req, s, p).status = 200 <=> p \in SnapshotMetadata(req, s).body
  <2>1. PICK acc : acc = RequestAuth(req)
    BY Zenon
  <2>2. acc # None
    BY <1>1, <2>1 DEF TimelinesList, Authenticated, Status
  <2>3. TimelinesList(req).body = {<<n, HeadOf[n]>> : n \in ListRefsServed(acc)}
    BY <2>1, <2>2, Zenon DEF TimelinesList, Authenticated, Ok
  <2>4. ASSUME NEW n \in Names
        PROVE  (\E e \in TimelinesList(req).body : e[1] = n) <=> RefServed(acc, n)
    <3>1. RefServed(acc, n) <=> n \in ListRefsServed(acc)
        BY Zenon DEF ListRefsServed, ListRefsFiltered, RefServed
    <3>2. \A m : <<m, HeadOf[m]>>[1] = m
        BY Zenon
    <3> QED BY <2>3, <3>1, <3>2, Zenon
  <2>5. ASSUME NEW n \in Names
        PROVE  IF RefServed(acc, n) THEN TimelinesGet(req, n).status = 200
                                    ELSE TimelinesGet(req, n) = Status(404)
    BY <2>1, <2>2, Zenon DEF TimelinesGet, Authenticated, Ok
  <2>6. ASSUME NEW s \in DOMAIN TreeOf, NEW p \in TreeOf[s]
        PROVE  SnapshotBlob(req, s, p).status = 200 <=> p \in SnapshotMetadata(req, s).body
    BY <2>1, <2>2, SMTT(30) DEF SnapshotBlob, SnapshotMetadata, Authenticated, Ok, Status
  <2> QED BY <2>4, <2>5, <2>6, SMTT(30)
<1>2. HiddenLooksAbsent
    BY <1>1, Zenon DEF HiddenLooksAbsent
<1> QED BY <1>2, PTL

-----------------------------------------------------------------------------
(* Labels of the two-point lattice *)

\* "protected" is above "public", and nothing else is above anything else.
LEMMA TwoPointOrder ==
    /\ TwoPoint.labels = {"public", "protected"}
    /\ \A a, b \in {"public", "protected"} : Dominates(TwoPoint, a, b) <=> a = b \/ a = "protected"
<1> DEFINE nodes == TwoPoint.labels \cup UNION {{e[1], e[2]} : e \in TwoPoint.cover}
<1>1. TwoPoint.labels = {"public", "protected"} /\ TwoPoint.cover = {<<"public", "protected">>}
    BY Zenon DEF TwoPoint, Lattice
<1>2. nodes = {"public", "protected"}
    BY <1>1
<1>3. ASSUME NEW a, NEW b
      PROVE  Dominates(TwoPoint, a, b) <=>
               \/ a = b
               \/ /\ a \in nodes /\ b \in nodes
                  /\ \A up \in SUBSET nodes :
                       b \in up /\ ("public" \in up => "protected" \in up) => a \in up
    BY <1>1, SMTT(30) DEF Dominates
<1> HIDE DEF nodes
<1>4. Dominates(TwoPoint, "protected", "public")
    BY <1>2, <1>3, Zenon
<1>5. ~Dominates(TwoPoint, "public", "protected")
  <2>1. {"protected"} \in SUBSET nodes /\ "public" \notin {"protected"}
    BY <1>2, Zenon
  <2> QED BY <1>3, <2>1, Zenon
<1>6. \A a : Dominates(TwoPoint, a, a)
    BY <1>3, Zenon
<1> QED BY <1>1, <1>4, <1>5, <1>6, Zenon

\* Its bottom and its top.
LEMMA TwoPointEnds == Bottom(TwoPoint) = "public" /\ Top(TwoPoint) = "protected"
<1>1. Leasts(TwoPoint, TwoPoint.labels) = {"public"}
    BY TwoPointOrder, Zenon DEF Leasts
<1>2. Greatests(TwoPoint, TwoPoint.labels) = {"protected"}
    BY TwoPointOrder, Zenon DEF Greatests
<1> QED BY <1>1, <1>2, Zenon DEF Bottom, Top, FirstOf

\* Joining "protected" to anything gives "protected".
LEMMA ProtectedAbsorbs ==
    ASSUME NEW a
    PROVE  Join(TwoPoint, a, "protected") = "protected"
<1>1. Uppers(TwoPoint, a, "protected") \subseteq {"protected"}
    BY TwoPointOrder, Zenon DEF Uppers
<1>2. Leasts(TwoPoint, Uppers(TwoPoint, a, "protected")) \subseteq {"protected"}
    BY <1>1, Zenon DEF Leasts
<1> QED BY <1>2, TwoPointEnds, Zenon DEF Join, FirstOf

\* The label of a resource under rules that each backend derives from its ACLs.
LEMMA LabelOf ==
    ASSUME NEW rules, \A x \in rules : x.label = "protected", NEW r
    PROVE  LabelFor(rules, TwoPoint, r) = IF Matching(rules, r) = {} THEN "public" ELSE "protected"
<1> DEFINE M == Matching(rules, r)
           G(f) == [s \in SUBSET M |->
                      IF s = {} THEN Bottom(TwoPoint)
                      ELSE LET x == CHOOSE y \in s : TRUE
                           IN  Join(TwoPoint, f[s \ {x}], x.label)]
           fold == CHOOSE f : f = G(f)
           g == [s \in SUBSET M |-> IF s = {} THEN "public" ELSE "protected"]
<1>1. LabelFor(rules, TwoPoint, r) = fold[M]
    BY Zenon DEF LabelFor, FoldSet, MapThenFoldSet
<1>2. \A x \in M : x.label = "protected"
    BY Zenon DEF Matching
<1> HIDE DEF M
<1>3. ASSUME NEW f, NEW s \in SUBSET M
      PROVE  G(f)[s] = IF s = {} THEN "public" ELSE "protected"
  <2>1. CASE s = {}
    BY <2>1, TwoPointEnds, Zenon
  <2>2. CASE s # {}
    <3>1. (CHOOSE y \in s : TRUE) \in s
        BY <2>2, Zenon
    <3> QED BY <1>2, <2>2, <3>1, ProtectedAbsorbs, Zenon
  <2> QED BY <2>1, <2>2, Zenon
<1>4. \A f : G(f) = g
    BY <1>3, Zenon
<1>5. fold = g
  <2>1. g = G(g)
    BY <1>4, Zenon
  <2>2. fold = G(fold)
    BY <2>1, Zenon
  <2> QED BY <1>4, <2>2, Zenon
<1>6. g[M] = IF M = {} THEN "public" ELSE "protected"
    BY Zenon
<1> HIDE DEF fold, g
<1> QED BY <1>1, <1>5, <1>6, Zenon DEF M

-----------------------------------------------------------------------------
(* The merge check *)

\* The keys that attested to a head of a timeline.
Attesting(t, head) == {att.key : att \in {x \in attested : x.target = t /\ x.head = head}}

\* No path of a source is exposed under both rule sets.
NoneExposed(src, dst, rules, end) ==
    \A p \in TreeOf[HeadOf[src]] : ~(Exposes(rules, dst, p) /\ Exposes(end, dst, p))

\* Rules are derived as "protected"; hooks ask for a number of approvals; a check
\* that found no leak exposes nothing; an allowed check has judged hooks only.
CheckInv ==
    /\ IsFiniteSet(attested)
    /\ \A h \in hooks : h.needed \in Nat
    /\ check.pc = "walk" => \A x \in check.rules : x.label = "protected"
    /\ check.pc \in {"walk", "policy"} => \A h \in check.local : h.needed \in Nat
    /\ check.pc = "policy" /\ check.leaking = {} =>
         NoneExposed(check.src, check.dst, check.rules, check.end)
    /\ check.pc = "done" /\ check.verdict = "allowed" => \A h \in check.specs : h.needed \in Nat
    /\ MergeCheckSound

\* The rules in force are derived as "protected".
LEMMA RulesProtected ==
    /\ \A x \in Rules : x.label = "protected"
    /\ \A x \in Rules : \E l \in Listed : x.kind = l[1] /\ x.glob = l[2]
BY DEF Rules, RuleSet, Rule

\* Finitely many keys attest, and more attestations have no fewer of them.
LEMMA AttestingCounts ==
    ASSUME NEW T, IsFiniteSet(T), NEW S \in SUBSET T
    PROVE  /\ IsFiniteSet({att.key : att \in S}) /\ IsFiniteSet({att.key : att \in T})
           /\ Cardinality({att.key : att \in S}) \in Nat
           /\ Cardinality({att.key : att \in T}) \in Nat
           /\ Cardinality({att.key : att \in S}) <= Cardinality({att.key : att \in T})
<1>1. ASSUME NEW U, IsFiniteSet(U) PROVE IsFiniteSet({att.key : att \in U})
  <2> DEFINE f == [att \in U |-> att.key]
  <2>1. f \in Surjection(U, {att.key : att \in U})
    BY Zenon DEF Surjection
  <2> QED BY <1>1, <2>1, FS_Surjection, Zenon
<1>2. IsFiniteSet(S)
    BY FS_Subset, Zenon
<1>3. IsFiniteSet({att.key : att \in S}) /\ IsFiniteSet({att.key : att \in T})
    BY <1>1, <1>2, Zenon
<1>4. {att.key : att \in S} \subseteq {att.key : att \in T}
    BY Zenon
<1>5. Cardinality({att.key : att \in S}) <= Cardinality({att.key : att \in T})
    BY <1>3, <1>4, FS_Subset, Zenon
<1> QED BY <1>3, <1>5, FS_CardinalityType, Zenon

\* tree_as_map walks with an accessor that reads everything.
LEMMA PrivilegedReads ==
    ASSUME NEW rules, \A x \in rules : x.label = "protected", NEW s
    PROVE  TreeAsMap(rules, s) = TreeOf[s]
<1>1. ASSUME NEW p PROVE Readable(rules, Privileged, Resource("path", p))
  <2> DEFINE r == Resource("path", p)
             label == LabelFor(rules, TwoPoint, r)
             c == Clearance("protected", {"read"}, None)
  <2>1. label \in {"public", "protected"}
    BY LabelOf, Zenon
  <2> HIDE DEF label
  <2>2. Privileged.clearances = {c} /\ Privileged.lattice = TwoPoint
    BY TwoPointEnds, Zenon DEF Privileged, FromParts
  <2>3. Clears(Privileged, c, "read", label, r)
    BY <2>1, <2>2, TwoPointOrder, Zenon DEF Clears, Clearance, ScopeApplies
  <2> QED BY <2>2, <2>3, Zenon DEF Readable, CanRead, label
<1> QED BY <1>1, Zenon DEF TreeAsMap, WalkTreeFiltered

\* An exposed path leaks under the same rules.
LEMMA ExposedLeaks ==
    ASSUME NEW rules, \A x \in rules : x.label = "protected", NEW dst, NEW p, Exposes(rules, dst, p)
    PROVE  Leaks(rules, dst, p)
<1>1. Matching(rules, Resource("path", p)) # {} /\ Matching(rules, Resource("timeline", dst)) = {}
    BY Zenon DEF Matching, Exposes, Resource
<1>2. /\ LabelFor(rules, TwoPoint, Resource("path", p)) = "protected"
      /\ LabelFor(rules, TwoPoint, Resource("timeline", dst)) = "public"
    BY <1>1, LabelOf, Zenon
<1> QED BY <1>2, TwoPointOrder, Zenon DEF Leaks

\* The registry in force holds hooks that ask for a number of approvals.
LEMMA RegistryHooks ==
    ASSUME NEW local, \A h \in local : h.needed \in Nat, PolicyRegistry(Home, local) # None,
           NEW h \in PolicyRegistry(Home, local)
    PROVE  h.needed \in Nat
<1>1. PolicyRegistry(Home, local) = PolicyRoot(Home) \cup local /\ PolicyRoot(Home) # None
    BY Zenon DEF PolicyRegistry
<1>2. h \in PolicyRoot(Home) => \E r \in Root : h \in HooksOf[r]
    BY <1>1, Zenon DEF PolicyRoot
<1> QED BY <1>1, <1>2, GovernanceAssumption, Zenon

\* A listing that finds no leak leaves nothing exposed.
LEMMA ListSound ==
    ASSUME CheckInv, ListAcls
    PROVE  CheckInv'
<1>1. /\ check.pc = "walk" /\ attested' = attested /\ hooks' = hooks
      /\ check' = [pc |-> "policy", src |-> check.src, dst |-> check.dst, rules |-> check.rules,
                   acc |-> check.acc, local |-> check.local,
                   end |-> Rules, leaking |-> Leaking(check, Listed)]
    BY Zenon DEF ListAcls, approvalVars
<1>2. /\ \A x \in check.rules : x.label = "protected"
      /\ \A h \in check.local : h.needed \in Nat
    BY <1>1, Zenon DEF CheckInv
<1>3. ASSUME Leaking(check, Listed) = {}, NEW p \in TreeOf[HeadOf[check.src]],
             Exposes(check.rules, check.dst, p), Exposes(Rules, check.dst, p)
      PROVE  FALSE
  <2>1. PICK x \in Rules : x.kind = "path" /\ GlobMatches(x.glob, p)
    BY <1>3, Zenon DEF Exposes
  <2>2. PICK l \in Listed : l[1] = "path" /\ GlobMatches(l[2], p)
    BY <2>1, RulesProtected, Zenon
  <2>3. p \in TreeAsMap(check.rules, HeadOf[check.src])
    BY <1>2, <1>3, PrivilegedReads, Zenon
  <2>4. Leaks(check.rules, check.dst, p)
    BY <1>2, <1>3, ExposedLeaks, Zenon
  <2>5. l \in Leaking(check, Listed)
    BY <2>2, <2>3, <2>4, Zenon DEF Leaking
  <2> QED BY <1>3, <2>5, Zenon
<1>4. Leaking(check, Listed) = {} => NoneExposed(check.src, check.dst, check.rules, Rules)
    BY <1>3, Zenon DEF NoneExposed
<1>5. /\ check'.pc = "policy" /\ check'.src = check.src /\ check'.dst = check.dst
      /\ check'.rules = check.rules /\ check'.local = check.local
      /\ check'.end = Rules /\ check'.leaking = Leaking(check, Listed)
    BY <1>1, Zenon
<1>6. check'.leaking = {} => NoneExposed(check'.src, check'.dst, check'.rules, check'.end)
    BY <1>4, <1>5, Zenon
<1>7. \A h \in hooks' : h.needed \in Nat
    BY <1>1, Zenon DEF CheckInv
<1>8. IsFiniteSet(attested')
    BY <1>1, Zenon DEF CheckInv
<1> QED BY <1>2, <1>5, <1>6, <1>7, <1>8, Zenon DEF CheckInv, MergeCheckSound, NoneExposed

\* A check that ends allowed exposes nothing and has the approvals.
LEMMA FinishSound ==
    ASSUME CheckInv, FinishCheck
    PROVE  CheckInv'
<1> DEFINE specs == PolicyRegistry(Home, check.local)
           head == HeadOf[check.src]
           given == {x \in attested : x.target = check.dst /\ x.head = head}
<1>1. /\ check.pc = "policy" /\ attested' = attested /\ hooks' = hooks
      /\ check' = [pc |-> "done", src |-> check.src, dst |-> check.dst, rules |-> check.rules,
                   end |-> check.end, specs |-> specs, verdict |-> Verdict(check, specs)]
    BY Zenon DEF FinishCheck, approvalVars
<1>2. \A h \in check.local : h.needed \in Nat
    BY <1>1, Zenon DEF CheckInv
<1> HIDE DEF specs
<1>3. ASSUME Verdict(check, specs) = "allowed"
      PROVE  /\ specs # None /\ check.leaking = {}
             /\ EvaluateMerge(specs, check.dst, head) \notin {"approval", "deny"}
    BY <1>3, Zenon DEF Verdict
<1>4. ASSUME Verdict(check, specs) = "allowed"
      PROVE  NoneExposed(check.src, check.dst, check.rules, check.end)
    BY <1>1, <1>3, <1>4, Zenon DEF CheckInv
<1>5. ASSUME Verdict(check, specs) = "allowed", NEW h \in specs
      PROVE  /\ h.needed \in Nat
             /\ h.kind = "signed-approval" /\ GlobMatches(h.pattern, check.dst) =>
                  h.needed <= Cardinality({att.key : att \in given})
  <2>1. h.needed \in Nat
    BY <1>2, <1>3, <1>5, RegistryHooks, Zenon DEF specs
  <2>2. ASSUME h.kind = "signed-approval", GlobMatches(h.pattern, check.dst)
        PROVE  ~(ValidApprovals(check.dst, head) < h.needed)
    BY <1>3, <1>5, <2>2, Zenon DEF EvaluateMerge
  <2> DEFINE valid == {x \in LoadAttestations(check.dst, head) : VerifyAttestation(x)}
  <2>3. ValidApprovals(check.dst, head) = Cardinality({att.key : att \in valid})
    BY Zenon DEF ValidApprovals
  <2>4. valid \in SUBSET given /\ IsFiniteSet(given)
    BY FS_Subset, Zenon DEF LoadAttestations, CheckInv
  <2> HIDE DEF valid, given
  <2>5. /\ Cardinality({att.key : att \in valid}) \in Nat /\ Cardinality({att.key : att \in given}) \in Nat
        /\ Cardinality({att.key : att \in valid}) <= Cardinality({att.key : att \in given})
    BY <2>4, AttestingCounts, Zenon
  <2> QED BY <2>1, <2>2, <2>3, <2>5, SMTT(30)
<1>6. MergeCheckSound'
    BY <1>1, <1>4, <1>5, Zenon DEF MergeCheckSound, NoneExposed
<1> QED BY <1>1, <1>5, <1>6, Zenon DEF CheckInv

\* An attestation more leaves an allowed check approved.
LEMMA ApproveSound ==
    ASSUME CheckInv, NEW att, attested' = attested \cup {att}, hooks' = hooks, check' = check
    PROVE  CheckInv'
<1>1. IsFiniteSet(attested')
    BY FS_AddElement, Zenon DEF CheckInv
<1>2. ASSUME NEW t, NEW head, NEW n \in Nat, n <= Cardinality(Attesting(t, head))
      PROVE  n <= Cardinality(Attesting(t, head)')
  <2> DEFINE S == {x \in attested : x.target = t /\ x.head = head}
             T == {x \in attested' : x.target = t /\ x.head = head}
  <2>1. IsFiniteSet(T) /\ S \in SUBSET T
    BY <1>1, FS_Subset, Zenon
  <2>2. Attesting(t, head) = {a.key : a \in S} /\ Attesting(t, head)' = {a.key : a \in T}
    BY Zenon DEF Attesting
  <2> HIDE DEF S, T
  <2>3. /\ Cardinality({a.key : a \in S}) \in Nat /\ Cardinality({a.key : a \in T}) \in Nat
        /\ Cardinality({a.key : a \in S}) <= Cardinality({a.key : a \in T})
    BY <2>1, AttestingCounts, Zenon
  <2> QED BY <1>2, <2>2, <2>3, SMTT(30)
<1>3. MergeCheckSound'
  <2> SUFFICES ASSUME check.pc = "done", check.verdict = "allowed", NEW h \in check.specs,
                      h.kind = "signed-approval", GlobMatches(h.pattern, check.dst)
               PROVE  h.needed <= Cardinality(Attesting(check.dst, HeadOf[check.src])')
    BY Zenon DEF MergeCheckSound, Attesting, CheckInv
  <2>1. h.needed \in Nat
    BY Zenon DEF CheckInv
  <2>2. h.needed <= Cardinality(Attesting(check.dst, HeadOf[check.src]))
    BY Zenon DEF CheckInv, MergeCheckSound, Attesting
  <2>3. PICK t, head : t = check.dst /\ head = HeadOf[check.src]
    BY Zenon
  <2>4. h.needed <= Cardinality(Attesting(t, head)')
    BY <1>2, <2>1, <2>2, <2>3, Zenon
  <2> QED BY <2>3, <2>4, Zenon DEF Attesting
<1> QED BY <1>1, <1>3, Zenon DEF CheckInv

\* Every step keeps the check sound.
LEMMA CheckKept == CheckInv /\ [Next]_vars => CheckInv'
<1> SUFFICES ASSUME CheckInv, [Next]_vars PROVE CheckInv'
    BY Zenon
<1>1. ASSUME NEW h \in HookInput, RequireApproval(h) \/ Unrequire(h.pattern) PROVE CheckInv'
    BY <1>1, GovernanceAssumption, ZenonT(30)
       DEF RequireApproval, Unrequire, CheckInv, MergeCheckSound
<1>2. ASSUME NEW k \in KeyId, NEW pub \in Pub, NEW t \in DOMAIN HeadOf, NEW s \in DOMAIN TreeOf,
             Approve(k, pub, t, s)
      PROVE  CheckInv'
    BY <1>2, ApproveSound, Zenon DEF Approve
<1>3. ASSUME NEW src \in DOMAIN HeadOf, NEW dst \in DOMAIN HeadOf, BeginCheck(src, dst) PROVE CheckInv'
    BY <1>3, RulesProtected, Zenon DEF BeginCheck, LoadHooks, approvalVars, CheckInv, MergeCheckSound
<1>4. CASE ListAcls \/ FinishCheck
    BY <1>4, ListSound, FinishSound, Zenon
<1>5. CASE UNCHANGED <<hooks, attested, check>>
    BY <1>5, Zenon DEF CheckInv, MergeCheckSound, NoneExposed
<1>6. CASE Administer
    BY <1>1, <1>2, <1>5, <1>6, Zenon
       DEF Administer, AclRule, SetAcl, RemoveAcl, SetGrant, CreateActor,
       GrantRole, UseActor, ApproverAdd, ApproversTimeline, approvalVars
<1>7. CASE Replicate
    BY <1>5, <1>7, Zenon
       DEF Replicate, PinTimeline, Gc, SetPolicyRoot, Receive, AdoptVerify, AdoptRead,
       AdoptSwap, approvalVars
<1>8. CASE Check
    BY <1>3, <1>4, <1>8, Zenon DEF Check
<1>9. CASE UNCHANGED vars
    BY <1>5, <1>9, Zenon DEF vars, approvalVars
<1> QED BY <1>6, <1>7, <1>8, <1>9, Zenon DEF Next

\* There is no check at the start.
LEMMA CheckInit == Init => CheckInv
BY GovernanceAssumption, FS_EmptySet, SMTT(30) DEF Init, CheckInv, MergeCheckSound, NoCheck

\* A merge that check_merge allows exposes no path that was protected when the
\* check read the rules and when it ended, and has the approvals that every
\* hook in force asks for, whatever is administered while the check runs.
THEOREM ChecksSound == Spec => []MergeCheckSound
<1>1. CheckInv => MergeCheckSound
    BY Zenon DEF CheckInv
<1> QED BY <1>1, CheckInit, CheckKept, PTL DEF Spec
=============================================================================
