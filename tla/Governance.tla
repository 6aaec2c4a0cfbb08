----------------------------- MODULE Governance -----------------------------
(***************************************************************************)
(* The administration of a repository: its ACL rules, clearance grants and *)
(* named actors, its pinned policy root and approvers, and the decisions   *)
(* taken from them: filtered listings and trees, the explanation of a      *)
(* decision, and the merge check.  One repository (acl, grants, actors,    *)
(* bound, hooks, approvers, taken, attested, check) is administered        *)
(* through the library and the command line; several replicas of it (pin, has, adopt)  *)
(* exchange policy roots.                                                   *)
(*                                                                         *)
(* A policy root is a member of Root; its parent, the hooks it declares     *)
(* and its signer are constant functions, as they are part of its content.  *)
(* Each root has one further object for its lattice and rules ("parts").    *)
(* Heads do not move here: Timelines has the advance.                       *)
(***************************************************************************)
EXTENDS Access, Walks

CONSTANTS
  AclInput,     \* the <<kind, glob>> rules an administrator may set
  Names,        \* every ref name a caller may ask for
  Scoped,       \* those under refs/collab/scoped/
  HeadOf,       \* the snapshot each existing timeline points at
  TreeOf,       \* the paths of the tree of each snapshot
  Actor, RoleInput, GrantInput,
  KeyId, Pub,   \* approver key ids and public keys
  HookInput,    \* the approval hooks `policy require-approval' may bind
  Root, ParentOf, HooksOf, SignedBy, KnownKinds,
  Replica, Home, AnchorsOf, Task,
  Starts,       \* what earlier commands may have left: [acl, actors, hooks, approvers, pin]
  MaxCalls      \* bound on the calls made

(* A root names its parent by a hash of its content, so parents do not go in *)
(* circles: of any roots, one has its parent elsewhere.                      *)
ASSUME GovernanceAssumption ==
  /\ None \notin Root /\ ParentOf \in [Root -> Root \cup {None}]
  /\ \A rs \in (SUBSET Root) \ {{}} : \E r \in rs : ParentOf[r] \notin rs
  /\ \A h \in HookInput \cup UNION {HooksOf[r] : r \in Root} : h.needed \in Nat
  /\ \A st \in Starts : st.pin \in Root \cup {None} /\ \A h \in st.hooks : h.needed \in Nat

VARIABLES backend, acl, grants, actors, bound, hooks, approvers, taken, attested, check,
          pin, has, adopt, calls

adminVars == <<backend, acl, grants, actors, bound>>
approvalVars == <<hooks, approvers, taken, attested>>
rootVars == <<pin, has, adopt>>
vars == <<adminVars, approvalVars, check, rootVars, calls>>

Call == calls < MaxCalls /\ calls' = calls + 1

-----------------------------------------------------------------------------
(* The ACL store.  On disk every rule is a file named after its pattern,    *)
(* and the listing skips names that start with a dot.                       *)
ListDir(stored) == {l \in stored : l[2][1] # "."}
Listed == IF backend = "disk" THEN ListDir(acl) ELSE acl
Rules == RuleSet(Listed)

SetAcl(l) ==
  /\ Call
  /\ acl' = acl \cup {l}
  /\ UNCHANGED <<backend, grants, actors, bound, approvalVars, check, rootVars>>

RemoveAcl(l) ==
  /\ Call
  /\ acl' = acl \ {l}
  /\ UNCHANGED <<backend, grants, actors, bound, approvalVars, check, rootVars>>

(* The disk backend inherits the default set_grant, which stores nothing.   *)
SetGrant(a, g) ==
  /\ Call
  /\ grants' = IF backend = "disk" THEN grants ELSE [grants EXCEPT ![a] = g]
  /\ UNCHANGED <<backend, acl, actors, bound, approvalVars, check, rootVars>>

PathIsProtected(p) == \E l \in Listed : l[1] = "path" /\ GlobMatches(l[2], p)

(* `bole acl path|timeline protect|unprotect'.                              *)
AclRule(l) == SetAcl(l) \/ RemoveAcl(l)

-----------------------------------------------------------------------------
(* The command line's named actors (.bole/actors.json) and the accessor of  *)
(* the bound one; with none bound the session has full access.              *)
Registered(a) == actors[a] # None

CreateActor(a) ==
  /\ Call
  /\ ~Registered(a)
  /\ actors' = [actors EXCEPT ![a] = {}]
  /\ UNCHANGED <<backend, acl, grants, bound, approvalVars, check, rootVars>>

GrantRole(a, role) ==
  /\ Call
  /\ Registered(a)
  /\ actors' = [actors EXCEPT ![a] = @ \cup {role}]
  /\ UNCHANGED <<backend, acl, grants, bound, approvalVars, check, rootVars>>

Bind(a) == Registered(a) /\ bound' = a

UseActor(a) ==
  /\ Call
  /\ Bind(a)
  /\ UNCHANGED <<backend, acl, grants, actors, approvalVars, check, rootVars>>

ToAccessor(roles) == FoldSet(LAMBDA role, acc : WithRole(acc, role), NewAccessor, roles)

FullAccess ==
  ToAccessor([kind : {"path", "timeline"}, glob : {<<"*", "*">>}, cap : {"read", "write"}])

EffectiveAccessor == IF bound = None THEN FullAccess ELSE ToAccessor(actors[bound])

(* The accessor of an authenticated peer: the stored grant of its actor     *)
(* over the repository's rules, or no clearance at all.                     *)
AccessorFor(a) ==
  IF a # None /\ grants[a] # None
    THEN FromParts(TwoPoint, Rules, grants[a].clearances, grants[a].confined)
    ELSE FromParts(TwoPoint, Rules, {}, FALSE)

Accessors ==
  {EffectiveAccessor, Privileged, AccessorFor(None)}
    \cup {AccessorFor(a) : a \in Actor}
    \cup {ToAccessor(actors[a]) : a \in {b \in Actor : Registered(b)}}

-----------------------------------------------------------------------------
(* Filtered views.  A resource at the lattice's bottom is open to everyone. *)
Readable(rules, acc, r) ==
  LET label == LabelFor(rules, TwoPoint, r)
  IN label = Bottom(TwoPoint) \/ CanRead(acc, label, r)

WalkTreeFiltered(rules, acc, paths) == {p \in paths : Readable(rules, acc, Resource("path", p))}
GetSnapshotFiltered(acc, s) == WalkTreeFiltered(Rules, acc, TreeOf[s])
TreeAsMap(rules, s) == WalkTreeFiltered(rules, Privileged, TreeOf[s])

ListRefsFiltered(acc) == {n \in DOMAIN HeadOf : Readable(Rules, acc, Resource("timeline", n))}
ListRefsServed(acc) == ListRefsFiltered(acc) \ Scoped
AllExisting(acc, n) == n \in DOMAIN HeadOf \ Scoped
RefServed(acc, n) ==
  n \notin Scoped /\ Readable(Rules, acc, Resource("timeline", n)) /\ n \in DOMAIN HeadOf

(* explain_path: read has the public short-circuit, write has none.         *)
ExplainPath(acc, p) ==
  LET r == Resource("path", p)
      label == LabelFor(Rules, TwoPoint, r)
      traces == Explain(acc, label, r)
  IN [read |-> label = Bottom(TwoPoint) \/ traces.read.allowed,
      write |-> traces.write.allowed,
      blocked |-> traces.write.blocked,
      matched |-> {x.glob : x \in Matching(Rules, r)}]

(* The per-path test of advance_timeline, which the explanation mirrors.    *)
MayWritePath(acc, p) ==
  CanWrite(acc, LabelFor(Rules, TwoPoint, Resource("path", p)), Resource("path", p))

(* `bole acl can-read-path' and its siblings ask the actor's own rules.     *)
CliCan(a, cap, r) ==
  LET acc == ToAccessor(actors[a])
  IN IF cap = "read" THEN CanReadOwn(acc, r) ELSE CanWriteOwn(acc, r)

(* `bole acl explain-path'.                                                 *)
CliExplain(a, s, p) == [present |-> p \in TreeOf[s], trace |-> ExplainPath(ToAccessor(actors[a]), p)]

-----------------------------------------------------------------------------
(* Approval hooks.  A hook is [kind, pattern, needed]; an attestation is     *)
(* [target, head, key, signer] and verifies when signer is the public key   *)
(* registered for its key id.                                                *)
RequireApproval(h) ==
  /\ Call
  /\ hooks' = {x \in hooks : x.pattern # h.pattern} \cup {h}
  /\ UNCHANGED <<adminVars, approvers, taken, attested, check, rootVars>>

Unrequire(pattern) ==
  /\ Call
  /\ hooks' = {x \in hooks : x.pattern # pattern}
  /\ UNCHANGED <<adminVars, approvers, taken, attested, check, rootVars>>

(* Both commands load the registry first, and fail when they cannot.         *)
ApproverAdd(k, pub) ==
  /\ Call
  /\ ~taken
  /\ approvers' = [approvers EXCEPT ![k] = pub]
  /\ UNCHANGED <<adminVars, hooks, taken, attested, check, rootVars>>

(* `bole approve' refuses to sign under a key id registered with another key. *)
Approve(k, pub, t, head) ==
  /\ Call
  /\ ~taken /\ approvers[k] = pub
  /\ attested' = attested \cup {[target |-> t, head |-> head, key |-> k, signer |-> pub]}
  /\ UNCHANGED <<adminVars, hooks, approvers, taken, check, rootVars>>

(* Nothing reserves the name refs/policy/approvers: as long as no registry    *)
(* has it, a timeline may take it, and then the registry cannot be loaded.    *)
ApproversTimeline ==
  /\ Call
  /\ ~taken /\ \A k \in KeyId : approvers[k] = None
  /\ taken' = TRUE
  /\ UNCHANGED <<adminVars, hooks, approvers, attested, check, rootVars>>

LoadAttestations(t, head) == {x \in attested : x.target = t /\ x.head = head}
LoadApprover(k) == approvers[k]
VerifyAttestation(att) == LoadApprover(att.key) = att.signer

ValidApprovals(t, head) ==
  Cardinality({att.key : att \in {x \in LoadAttestations(t, head) : VerifyAttestation(x)}})

(* The most restrictive verdict of the hooks on a merge into t: one that      *)
(* cannot load the approvers denies.  The built-in lineage hook only judges   *)
(* advances.                                                                  *)
EvaluateMerge(specs, t, head) ==
  LET gating == {h \in specs : h.kind = "signed-approval" /\ GlobMatches(h.pattern, t)}
  IN IF gating # {} /\ taken THEN "deny"
     ELSE IF \E h \in gating : ValidApprovals(t, head) < h.needed THEN "approval" ELSE "allow"

-----------------------------------------------------------------------------
(* Policy roots.  A chain is broken (None is in it) when a root is missing.  *)
Chain(objs, tip) ==
  LET stored(r) == <<r, "root">> \in objs
      up == [r \in Root |-> IF stored(r) THEN {ParentOf[r]} \ {None} ELSE {}]
  IN {IF stored(r) THEN r ELSE None : r \in Walk(Root, up)[tip]}

ResolveHook(h) == h.kind \in KnownKinds

VerifyRootSignature(n, r) == SignedBy[r] \in AnchorsOf[n]

VerifyChain(n, tip) ==
  LET chain == Chain(has[n], tip)
  IN /\ None \notin chain
     /\ \A r \in chain : /\ <<r, "parts">> \in has[n]
                         /\ \A h \in HooksOf[r] : ResolveHook(h)
                         /\ VerifyRootSignature(n, r)

LongestWins(n, a, b) ==
  IF ~VerifyChain(n, a) \/ ~VerifyChain(n, b) THEN "error"
  ELSE IF Cardinality(Chain(has[n], a)) >= Cardinality(Chain(has[n], b)) THEN "left" ELSE "right"
Reconcile(n, a, b) ==
  LET genesis(tip) == {r \in Chain(has[n], tip) : ParentOf[r] = None}
  IN IF ~VerifyChain(n, a) \/ ~VerifyChain(n, b) THEN "error"
     ELSE IF a = b THEN "left"
     ELSE IF genesis(a) # genesis(b) THEN "diverged"
     ELSE IF b \in Chain(has[n], a) THEN "left"
     ELSE IF a \in Chain(has[n], b) THEN "right"
     ELSE "diverged"

(* The hooks in force on replica n: those of the pinned root and the local    *)
(* ones, which the command line loaded when it opened the repository.  None   *)
(* when the pin is malformed, its root is not stored, or a kind is unknown:   *)
(* every gated operation then fails.                                          *)
PolicyRoot(n) ==
  IF pin[n] = None THEN {}
  ELSE IF pin[n] \notin Root THEN None
  ELSE IF <<pin[n], "root">> \notin has[n] THEN None ELSE HooksOf[pin[n]]

LoadHooks == hooks

PolicyRegistry(n, local) ==
  IF PolicyRoot(n) = None THEN None
  ELSE IF \E h \in PolicyRoot(n) \cup local : ~ResolveHook(h) THEN None
  ELSE PolicyRoot(n) \cup local

SetPolicyRoot(n, r) ==
  /\ Call
  /\ has' = [has EXCEPT ![n] = @ \cup {<<r, "root">>}]
  /\ pin' = [pin EXCEPT ![n] = r]
  /\ UNCHANGED <<adminVars, approvalVars, check, adopt>>

(* Nothing reserves the name refs/policy/root: a timeline may take it.       *)
PinTimeline(n) ==
  /\ Call
  /\ pin[n] = None
  /\ pin' = [pin EXCEPT ![n] = "timeline"]
  /\ UNCHANGED <<adminVars, approvalVars, check, has, adopt>>

(* A fetch brings the closure of a root of another replica, cut at what the  *)
(* receiver already stores.  Garbage collection keeps only the pinned root:  *)
(* its parent, lattice and rules are not followed.                           *)
Received(src, have, tip) ==
  LET c[r \in Root] ==
        IF <<r, "root">> \in have \/ <<r, "root">> \notin src THEN {}
        ELSE {<<r, "root">>, <<r, "parts">>}
               \cup (IF ParentOf[r] = None THEN {} ELSE c[ParentOf[r]])
  IN c[tip] \cap src

Receive(n, m, tip) ==
  /\ Call
  /\ <<tip, "root">> \in has[m]
  /\ has' = [has EXCEPT ![n] = @ \cup Received(has[m], @, tip)]
  /\ UNCHANGED <<adminVars, approvalVars, check, pin, adopt>>

Gc(n) ==
  /\ Call
  /\ has' = [has EXCEPT ![n] = @ \cap {<<pin[n], "root">>}]
  /\ UNCHANGED <<adminVars, approvalVars, check, pin, adopt>>

(* adopt_policy_root: verify the offered chain, read the pin and require it  *)
(* on the chain, swap the pin if it is still what was read.                  *)
NoAdoption == [pc |-> "idle"]
AdoptStep(k, rec) == adopt' = [adopt EXCEPT ![k] = rec]

AdoptVerify(k, n, tip) ==
  /\ adopt[k].pc = "idle"
  /\ Call
  /\ VerifyChain(n, tip)
  /\ AdoptStep(k, [pc |-> "read", node |-> n, tip |-> tip, seen |-> None])
  /\ UNCHANGED <<adminVars, approvalVars, check, pin, has>>

PinOnChain(k) ==
  LET n == adopt[k].node
      chain == Chain(has[n], adopt[k].tip)
  IN pin[n] = None \/ (pin[n] \in Root /\ None \notin chain /\ pin[n] \in chain)

AdoptRead(k) ==
  /\ adopt[k].pc = "read"
  /\ AdoptStep(k, IF PinOnChain(k)
                    THEN [adopt[k] EXCEPT !.pc = "swap", !.seen = pin[adopt[k].node]]
                    ELSE NoAdoption)
  /\ UNCHANGED <<adminVars, approvalVars, check, pin, has, calls>>

SwapAnyway(k) == TRUE
StillSeen(k) == pin[adopt[k].node] = adopt[k].seen

AdoptSwap(k) ==
  /\ adopt[k].pc = "swap"
  /\ pin' = IF StillSeen(k) THEN [pin EXCEPT ![adopt[k].node] = adopt[k].tip] ELSE pin
  /\ AdoptStep(k, NoAdoption)
  /\ UNCHANGED <<adminVars, approvalVars, check, has, calls>>

-----------------------------------------------------------------------------
(* check_merge.  The rules are read first, the registered path ACLs after     *)
(* the walk of the source tree, the policy after that: rules and hooks may    *)
(* change in between.  Attestations are never taken back, so that the hooks   *)
(* read them in the last step takes nothing away.                             *)
NoCheck == [pc |-> "idle"]

BeginCheck(src, dst) ==
  /\ check.pc \in {"idle", "done"}
  /\ Call
  /\ src \in DOMAIN HeadOf
  /\ check' = [pc |-> "walk", src |-> src, dst |-> dst, rules |-> Rules,
               acc |-> EffectiveAccessor, local |-> LoadHooks]
  /\ UNCHANGED <<adminVars, approvalVars, rootVars>>

LeaksStrictly(rules, dst, p) ==
  LET above == LabelFor(rules, TwoPoint, Resource("path", p))
  IN ~Dominates(TwoPoint, above, LabelFor(rules, TwoPoint, Resource("timeline", dst)))
Leaks(rules, dst, p) ==
  LET label == LabelFor(rules, TwoPoint, Resource("path", p))
  IN ~Dominates(TwoPoint, LabelFor(rules, TwoPoint, Resource("timeline", dst)), label)

Leaking(c, listed) ==
  {l \in listed : /\ l[1] = "path"
                  /\ \E p \in TreeAsMap(c.rules, HeadOf[c.src]) :
                       GlobMatches(l[2], p) /\ Leaks(c.rules, c.dst, p)}

ListAcls ==
  /\ check.pc = "walk"
  /\ check' = [pc |-> "policy", src |-> check.src, dst |-> check.dst, rules |-> check.rules,
               acc |-> check.acc, local |-> check.local,
               end |-> Rules, leaking |-> Leaking(check, Listed)]
  /\ UNCHANGED <<adminVars, approvalVars, rootVars, calls>>

Verdict(c, specs) ==
  LET decision == EvaluateMerge(specs, c.dst, HeadOf[c.src])
  IN IF specs = None THEN "error"
     ELSE IF decision = "deny" THEN "rejected"
     ELSE IF c.leaking = {} THEN IF decision = "approval" THEN "approval" ELSE "allowed"
     ELSE IF CanWriteOwn(c.acc, Resource("timeline", c.dst)) THEN "approval" ELSE "rejected"

FinishCheck ==
  LET specs == PolicyRegistry(Home, check.local)
  IN
  /\ check.pc = "policy"
  /\ check' = [pc |-> "done", src |-> check.src, dst |-> check.dst, rules |-> check.rules,
               end |-> check.end, specs |-> specs, verdict |-> Verdict(check, specs)]
  /\ UNCHANGED <<adminVars, approvalVars, rootVars, calls>>

-----------------------------------------------------------------------------
(* A repository is opened as earlier commands left it: one of Starts.       *)
Init ==
  /\ backend \in {"disk", "memory"}
  /\ \E st \in Starts :
       /\ acl = st.acl /\ actors = st.actors
       /\ hooks = st.hooks /\ approvers = st.approvers
       /\ pin = [n \in Replica |-> IF n = Home THEN st.pin ELSE None]
  /\ grants = [a \in Actor |-> None] /\ bound = None
  /\ taken = FALSE /\ attested = {} /\ check = NoCheck
  /\ has = [n \in Replica |-> IF n = Home THEN Root \X {"root", "parts"} ELSE {}]
  /\ adopt = [k \in Task |-> NoAdoption]
  /\ calls = 0

Administer ==
  \/ \E l \in AclInput : AclRule(l)
  \/ \E a \in Actor : \/ CreateActor(a) \/ UseActor(a)
                      \/ \E role \in RoleInput : GrantRole(a, role)
                      \/ \E g \in GrantInput : SetGrant(a, g)
  \/ ApproversTimeline
  \/ \E h \in HookInput : RequireApproval(h) \/ Unrequire(h.pattern)
  \/ \E k \in KeyId, pub \in Pub :
       \/ ApproverAdd(k, pub)
       \/ \E t \in DOMAIN HeadOf, s \in DOMAIN TreeOf : Approve(k, pub, t, s)

Replicate ==
  \/ \E n \in Replica :
       \/ PinTimeline(n) \/ Gc(n)
       \/ \E r \in Root : SetPolicyRoot(n, r)
       \/ \E m \in Replica \ {n}, r \in Root : Receive(n, m, r)
       \/ \E k \in Task, r \in Root : AdoptVerify(k, n, r)
  \/ \E k \in Task : AdoptRead(k) \/ AdoptSwap(k)

Check == ListAcls \/ FinishCheck \/ \E src, dst \in DOMAIN HeadOf : BeginCheck(src, dst)

Next == Administer \/ Replicate \/ Check

Spec == Init /\ [][Next]_vars

-----------------------------------------------------------------------------
(* Properties.                                                              *)

(* What a listing and a point lookup must have in common: the explanation   *)
(* of an actor's access to a path (explain_path) gives the verdicts that    *)
(* get_snapshot_filtered and advance_timeline enforce, whoever the actor     *)
(* is, however its clearances are scoped or confined, whatever rules hold.   *)
ExplainMatchesEnforcement ==
  \A acc \in Accessors, s \in DOMAIN TreeOf : \A p \in TreeOf[s] :
    /\ ExplainPath(acc, p).read <=> p \in GetSnapshotFiltered(acc, s)
    /\ ExplainPath(acc, p).write <=> MayWritePath(acc, p)

Exposes(rules, dst, p) ==
  /\ \E x \in rules : x.kind = "path" /\ GlobMatches(x.glob, p)
  /\ \A x \in rules : x.kind = "timeline" => ~GlobMatches(x.glob, dst)

(* A merge that check_merge allows exposes no path: each path of the source  *)
(* was, when the check read the rules or when it listed the path ACLs,       *)
(* labelled no higher than the destination; and every approval hook that the *)
(* check found in force on the destination has as many approvers of that     *)
(* very head as it asks for.                                                 *)
MergeCheckSound ==
  (check.pc = "done" /\ check.verdict = "allowed") =>
    /\ \A p \in TreeOf[HeadOf[check.src]] :
         ~(Exposes(check.rules, check.dst, p) /\ Exposes(check.end, check.dst, p))
    /\ \A h \in check.specs : (h.kind = "signed-approval" /\ GlobMatches(h.pattern, check.dst)) =>
         h.needed <= Cardinality({att.key : att \in
           {x \in attested : x.target = check.dst /\ x.head = HeadOf[check.src]}})

Lineage == Walk(Root, [r \in Root |-> {ParentOf[r]} \ {None}])

(* adopt_policy_root never rolls governance back, forks it or adopts what    *)
(* it has not verified: when an adoption moves the pin, the pin it replaces  *)
(* is a root on the new tip's chain, and every root of that chain is signed  *)
(* by an anchor of the replica and declares only known hook kinds; whatever  *)
(* set_policy_root, fetches, gc and other adoptions do in between.           *)
AdoptionSound ==
  [][\A k \in Task :
       (adopt[k].pc = "swap" /\ adopt'[k].pc = "idle" /\ pin' # pin) =>
         LET n == adopt[k].node
             up == Lineage[pin'[n]]
         IN /\ pin[n] # None => pin[n] \in up
            /\ \A r \in up : /\ SignedBy[r] \in AnchorsOf[n]
                             /\ \A h \in HooksOf[r] : h.kind \in KnownKinds]_vars

(* Replicas converge: any two that can verify two tips pick the same winner, *)
(* in whichever order they are given the tips and whatever else they store,  *)
(* and the winner is always one that a replica pinned at the loser may adopt *)
(* (reconcile, "highest-rooted wins").                                       *)
ReplicasReconcileAlike ==
  \A a, b \in Root :
    LET verdict == [n \in Replica |-> Reconcile(n, a, b)]
        swapped == [n \in Replica |-> Reconcile(n, b, a)]
    IN a # b => \A n, m \in Replica :
         (verdict[n] # "error" /\ swapped[m] # "error") =>
            /\ (verdict[n] = "left") <=> (swapped[m] = "right")
            /\ (verdict[n] = "left") <=> (b \in Lineage[a])
            /\ (verdict[n] = "right") <=> (a \in Lineage[b])
=============================================================================
