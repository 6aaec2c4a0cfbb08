----------------------------- MODULE Timelines ------------------------------
(***************************************************************************)
(* Moving the head of a timeline: advance_timeline_expecting and           *)
(* prune_timeline (repo/mod.rs), merge_proposal (repo/pr.rs) with          *)
(* merge_timelines and three_way_diff, and the policy hooks they evaluate  *)
(* (acl/hook.rs, acl/attestation.rs).  The calls run as tasks of one       *)
(* process; every read of a ref, and every commit of a ref transaction,    *)
(* is a step of its own, and other tasks run between two steps.  A commit  *)
(* is one step because RefStore implements AtomicRefs; the objects read on *)
(* the way never change.                                                   *)
(***************************************************************************)
EXTENDS Naturals, Sequences, FiniteSets, Walks

CONSTANTS
    Task, Timeline, Path, Blob, Key,
    Initial,       \* the snapshots stored at the start; an id is a position
    Heads,         \* the timelines at the start and their heads
    FastForward,   \* the timelines created with policy FastForwardOnly or Append
    Expired,       \* the timelines whose expires_at has passed
    Clearance,     \* for each task, what it may write: labelled public, labelled protected
    Labelled,      \* the resources that an ACL may come to cover
    Taggable,      \* the snapshots that a tag may come to point at
    Attestable,    \* the moves <<timeline, new head>> that approvers may come to sign
    Proposal,      \* the change proposals stored: source and target
    Root,          \* policy roots: approvals needed per timeline, or Unresolvable
    Local,         \* approvals needed per timeline by the hooks of the open repository
    Unresolvable,  \* a root with a hook kind that resolve_hook does not know
    None,
    MaxSnapshots, MaxCalls, MaxEdits

Resource == Path \cup Timeline
Tree == [Path -> Blob \cup {None}]
Snapshot == 1..MaxSnapshots

ASSUME TimelinesAssumption ==
    /\ None \notin Blob /\ None \notin Timeline /\ None \notin Root /\ None \notin Snapshot
    /\ IsFiniteSet(Key) /\ MaxSnapshots \in Nat /\ MaxCalls \in Nat /\ MaxEdits \in Nat
    /\ Unresolvable \in Root /\ Root \ {Unresolvable} \subseteq [Timeline -> Nat]
    /\ Local \in [Timeline -> Nat]
    /\ Clearance \in [Task -> [public : SUBSET Resource, protected : SUBSET Resource]]
    /\ Labelled \subseteq Resource /\ Taggable \subseteq 1..Len(Initial)
    /\ Attestable \subseteq Timeline \X Snapshot
    /\ Proposal \subseteq Timeline \X Timeline
    /\ Heads \in [Timeline -> 1..Len(Initial) \cup {None}]
    /\ Initial \in Seq([root : Tree, parents : SUBSET Snapshot]) /\ Len(Initial) <= MaxSnapshots
    /\ \A i \in 1..Len(Initial) : Initial[i].parents \subseteq 1..(i - 1)

VARIABLES
    snaps,       \* the snapshots stored
    head,        \* the head of each timeline, None where there is none
    tagged,      \* the snapshots that a tag points at
    protected,   \* the resources that an ACL labels protected
    pin,         \* the root that refs/policy/root points at
    approvers,   \* the keys of the registry that refs/policy/approvers points at
    attested,    \* the attestations stored whose signature verifies: target, head, key
    call,        \* what each task is doing
    audit,       \* the events that the audit sink has recorded
    landed,      \* every swap made by an advance: timeline, old and new head
    calls, edits \* how many have begun, for the bounds

admin == <<tagged, protected, pin, approvers, attested, edits>>
vars == <<snaps, head, call, audit, landed, calls, admin>>

\* The arguments and locals of a call.  pins and registries are not in the
\* code: the roots pinned and the registries set since the call began.
Started(pc, name) ==
    [pc |-> pc, name |-> name, source |-> None, snap |-> None, expected |-> None,
     sourceHead |-> None, theirs |-> None, ours |-> None, base |-> None,
     auditOld |-> None, rules |-> {}, old |-> None, needed |-> 0, verdict |-> "allowed", registry |-> {},
     pins |-> {pin}, registries |-> {approvers}]
Idle == [pc |-> "idle"]
\* The next read or commit of a call: of an advance, of a merge, of a prune.
Advancing == {"rules", "head", "policy", "lineage", "approvers", "attestations", "swap", "audit"}
PC == Advancing \cup {"source", "target", "theirs", "ours"} \cup {"expiry", "tags", "delete"}
Stored == DOMAIN snaps \cup {None}
Decision == {"allowed", "denied", "approval"}
Call ==
    [pc : PC, name : Timeline, source : Timeline \cup {None}, snap : Stored, expected : Stored,
     sourceHead : Stored, theirs : Stored, ours : Stored, base : Stored, auditOld : Stored,
     rules : SUBSET Labelled, old : Stored, needed : Nat, verdict : Decision,
     registry : SUBSET Key, pins : SUBSET (Root \cup {None}), registries : SUBSET SUBSET Key]
Event == [timeline : Timeline, old : Snapshot, new : Snapshot, decision : Decision]

TypeOK ==
    /\ snaps \in Seq([root : Tree, parents : SUBSET Snapshot]) /\ Len(snaps) <= MaxSnapshots
    /\ \A i \in DOMAIN snaps : snaps[i].parents \subseteq 1..(i - 1)
    /\ head \in [Timeline -> DOMAIN snaps \cup {None}]
    /\ tagged \subseteq Taggable /\ protected \subseteq Labelled
    /\ pin \in Root \cup {None} /\ approvers \subseteq Key
    /\ attested \subseteq Timeline \X (DOMAIN snaps) \X Key
    /\ call \in [Task -> Call \cup {Idle}]
    /\ audit \subseteq Event
    /\ landed \subseteq Timeline \X (DOMAIN snaps) \X (DOMAIN snaps)
    /\ calls \in 0..MaxCalls /\ edits \in 0..MaxEdits

Init ==
    /\ snaps = Initial /\ head = Heads
    /\ tagged = {} /\ protected = {} /\ attested = {}
    /\ pin \in Root \cup {None} /\ approvers \in SUBSET Key
    /\ call = [k \in Task |-> Idle]
    /\ audit = {} /\ landed = {} /\ calls = 0 /\ edits = 0

\* A snapshot and everything below it; is_ancestor and find_common_ancestor are
\* the searches that Ancestry models.
Ancestors == Walk(DOMAIN snaps, [s \in DOMAIN snaps |-> snaps[s].parents])

\* find_common_ancestor returns some common ancestor, None only if there is
\* none; which one depends on hashes.
CommonAncestor(s, t) ==
    LET both == Ancestors[s] \cap Ancestors[t]
    IN  IF both = {} THEN {None} ELSE both

RootOf(s) == IF s = None THEN [p \in Path |-> None] ELSE snaps[s].root

\* three_way_diff at one path: a side that did not change yields to the other.
Conflict(anc, our, thr) == our # thr /\ our # anc /\ thr # anc
Merged(anc, our, thr) == IF thr = anc THEN our ELSE thr

\* can_write: a write clearance in scope whose ceiling dominates the label, in
\* the lattice of two labels; a confined actor may have only the higher one.
CanWrite(k, rules, r) ==
    r \in IF r \in rules THEN Clearance[k].protected ELSE Clearance[k].public

Goes(k, pc) == call' = [call EXCEPT ![k].pc = pc]
Returns(k) == call' = [call EXCEPT ![k] = Idle]
At(k, pc) == call[k].pc = pc

\* audit_advance: nothing is recorded for a timeline without a head.
Record(k, old, decision) ==
    audit' = IF old = None THEN audit
             ELSE audit \cup {[timeline |-> call[k].name, old |-> old,
                               new |-> call[k].snap, decision |-> decision]}

Begin(k, started) ==
    /\ At(k, "idle") /\ calls < MaxCalls
    /\ calls' = calls + 1
    /\ call' = [call EXCEPT ![k] = started]
    /\ UNCHANGED <<snaps, head, audit, landed, admin>>

----------------------------------------------------------------------------
(* advance_timeline_expecting *)

CallAdvance(k, t, s) == Begin(k, [Started("rules", t) EXCEPT !.snap = s])

\* The labels and the head for the audit are read, and the write of the
\* timeline is checked.
CheckTimeline(k) ==
    /\ At(k, "rules")
    /\ LET old == head[call[k].name]
       IN  IF CanWrite(k, protected, call[k].name)
           THEN /\ call' = [call EXCEPT ![k].rules = protected, ![k].auditOld = old,
                                        ![k].pc = "head"]
                /\ UNCHANGED audit
           ELSE Record(k, old, "denied") /\ Returns(k)
    /\ UNCHANGED <<snaps, head, landed, calls, admin>>

\* The paths of the new snapshot that the task may not write.
DeniedPaths(k) ==
    {p \in Path : RootOf(call[k].snap)[p] # None /\ ~CanWrite(k, call[k].rules, p)}

\* Mutants: removed paths are not checked; the head that a merge expects is not
\* compared.
NoRemovedDenied(k, old) == {}
NeverStale(k, old) == FALSE

\* The paths that it removes from the old head and may not write.
DeniedRemoved(k, old) ==
    {p \in Path : /\ RootOf(old)[p] # None /\ RootOf(call[k].snap)[p] = None
                  /\ ~CanWrite(k, call[k].rules, p)}

\* expected_old: the caller built the snapshot on another head.
Stale(k, old) == call[k].expected \notin {None, old}

\* The walk of the new tree and the head that the rest of the call works with.
ReadHead(k) ==
    LET old == head[call[k].name]
        denied == Record(k, call[k].auditOld, "denied") /\ Returns(k)
    IN
    /\ At(k, "head")
    /\ \/ DeniedPaths(k) # {} /\ denied
       \/ /\ DeniedPaths(k) = {} /\ (old = None \/ Stale(k, old))
          /\ Returns(k) /\ UNCHANGED audit
       \/ /\ DeniedPaths(k) = {} /\ old # None /\ ~Stale(k, old)
          /\ IF DeniedRemoved(k, old) # {} THEN denied
             ELSE call' = [call EXCEPT ![k].old = old, ![k].pc = "policy"] /\ UNCHANGED audit
    /\ UNCHANGED <<snaps, head, landed, calls, admin>>

\* What the hooks ask for on a timeline: the local ones (self.hooks, registered
\* when the repository was opened) and those of a root.  The strictest decides.
Needed(r, t) ==
    LET pinned == IF r = None THEN 0 ELSE r[t]
    IN  IF pinned < Local[t] THEN Local[t] ELSE pinned

\* policy_registry: the local hooks and those of the pinned root; an error if one
\* does not resolve.
ReadPolicy(k) ==
    /\ At(k, "policy")
    /\ IF pin = Unresolvable THEN Returns(k)
       ELSE call' = [call EXCEPT ![k].pc = "lineage",
                       ![k].needed = Needed(pin, call[k].name)]
    /\ UNCHANGED <<snaps, head, audit, landed, calls, admin>>

\* The next hook after the built-in one, if there is one for this timeline.
AfterLineage(k) == IF call[k].needed > 0 THEN "approvers" ELSE "swap"

\* TimelinePolicyHook::check reads the timeline again, for its policy; the
\* lineage is that of the head read before.
CheckLineage(k) ==
    LET t == call[k].name
        deny == head[t] = None \/ (t \in FastForward /\ call[k].old \notin Ancestors[call[k].snap])
    IN
    /\ At(k, "lineage")
    /\ call' = [call EXCEPT ![k].pc = AfterLineage(k),
                            ![k].verdict = IF deny THEN "denied" ELSE "allowed"]
    /\ UNCHANGED <<snaps, head, audit, landed, calls, admin>>

\* SignedApprovalHook::check, first load_approvers, then load_attestations.
LoadApprovers(k) ==
    /\ At(k, "approvers")
    /\ call' = [call EXCEPT ![k].pc = "attestations", ![k].registry = approvers]
    /\ UNCHANGED <<snaps, head, audit, landed, calls, admin>>

\* A mutant: an approval of any head counts.
ApprovalsOfAnyHead(registry, t, s) ==
    Cardinality({key \in registry : \E h \in DOMAIN snaps : <<t, h, key>> \in attested})

\* count_valid_approvals: distinct registered keys that signed this very head.
ValidApprovals(registry, t, s) ==
    Cardinality({key \in registry : <<t, s, key>> \in attested})

\* The verdict of the registry is the most restrictive of its hooks'.
CountApprovals(k) ==
    LET have == ValidApprovals(call[k].registry, call[k].name, call[k].snap)
    IN
    /\ At(k, "attestations")
    /\ call' = [call EXCEPT ![k].pc = "swap",
                            ![k].verdict = IF @ = "allowed" /\ have < call[k].needed
                                           THEN "approval" ELSE @]
    /\ UNCHANGED <<snaps, head, audit, landed, calls, admin>>

Refuse(k) ==
    /\ At(k, "swap") /\ call[k].verdict # "allowed"
    /\ Record(k, call[k].old, call[k].verdict) /\ Returns(k)
    /\ UNCHANGED <<snaps, head, landed, calls, admin>>

\* Mutants: an unconditional advance_head; the event recorded before the commit.
SwapAlways(k) ==
    /\ At(k, "swap") /\ call[k].verdict = "allowed" /\ head[call[k].name] # None
    /\ head' = [head EXCEPT ![call[k].name] = call[k].snap]
    /\ landed' = landed \cup {<<call[k].name, call[k].old, call[k].snap>>}
    /\ Goes(k, "audit")
    /\ UNCHANGED <<snaps, audit, calls, admin>>
SwapFailsAudited(k) ==
    /\ At(k, "swap") /\ call[k].verdict = "allowed"
    /\ head[call[k].name] # call[k].old
    /\ Record(k, call[k].old, "allowed") /\ Returns(k)
    /\ UNCHANGED <<snaps, head, landed, calls, admin>>

\* advance_head_if on the head that the checks were made against.
Swap(k) ==
    /\ At(k, "swap") /\ call[k].verdict = "allowed"
    /\ head[call[k].name] = call[k].old
    /\ head' = [head EXCEPT ![call[k].name] = call[k].snap]
    /\ landed' = landed \cup {<<call[k].name, call[k].old, call[k].snap>>}
    /\ Goes(k, "audit")
    /\ UNCHANGED <<snaps, audit, calls, admin>>

SwapFails(k) ==
    /\ At(k, "swap") /\ call[k].verdict = "allowed"
    /\ head[call[k].name] # call[k].old
    /\ Returns(k)
    /\ UNCHANGED <<snaps, head, audit, landed, calls, admin>>

RecordAllowed(k) ==
    /\ At(k, "audit")
    /\ Record(k, call[k].old, "allowed") /\ Returns(k)
    /\ UNCHANGED <<snaps, head, landed, calls, admin>>

----------------------------------------------------------------------------
(* merge_proposal, then advance_timeline_expecting *)

CallMerge(k, s, t) == Begin(k, [Started("source", t) EXCEPT !.source = s])

\* A head read into a field of the call; a missing timeline ends the call.
ReadInto(k, pc, t, next, read) ==
    /\ At(k, pc)
    /\ IF head[t] = None THEN Returns(k) ELSE call' = [call EXCEPT ![k] = read, ![k].pc = next]
    /\ UNCHANGED <<snaps, head, audit, landed, calls, admin>>

ReadSource(k) ==
    ReadInto(k, "source", call[k].source, "target", [call[k] EXCEPT !.sourceHead = head[call[k].source]])
ReadTarget(k) ==
    ReadInto(k, "target", call[k].name, "theirs", [call[k] EXCEPT !.expected = head[call[k].name]])

\* merge_timelines checks the target against the accessor's own rules and reads
\* both heads again.
MergeDenied(k) ==
    /\ At(k, "theirs") /\ ~CanWrite(k, {}, call[k].name)
    /\ Returns(k)
    /\ UNCHANGED <<snaps, head, audit, landed, calls, admin>>
ReadTheirs(k) ==
    /\ At(k, "theirs") /\ CanWrite(k, {}, call[k].name)
    /\ ReadInto(k, "theirs", call[k].source, "ours", [call[k] EXCEPT !.theirs = head[call[k].source]])

\* A snapshot is named by its content, author, time and message included: the
\* same merge may be an old snapshot or a new one.
PutSnapshot(k, tree, parents, merging) ==
    \E s \in 1..MaxSnapshots :
        /\ IF s \in DOMAIN snaps
           THEN snaps[s] = [root |-> tree, parents |-> parents] /\ UNCHANGED snaps
           ELSE s = Len(snaps) + 1 /\ snaps' = Append(snaps, [root |-> tree, parents |-> parents])
        /\ call' = [call EXCEPT ![k] = merging, ![k].snap = s, ![k].pc = "rules"]

\* The diff of the two heads just read; the snapshot has the heads read first as
\* its parents.  A conflict is reported and nothing is stored.
Merge(k) ==
    /\ At(k, "ours")
    /\ LET ours == head[call[k].name]
       IN  IF ours = None THEN Returns(k) /\ UNCHANGED snaps
           ELSE \E base \in CommonAncestor(call[k].theirs, ours) :
             LET anc == RootOf(base)
                 our == RootOf(ours)
                 thr == RootOf(call[k].theirs)
             IN  IF \E p \in Path : Conflict(anc[p], our[p], thr[p])
                 THEN Returns(k) /\ UNCHANGED snaps
                 ELSE PutSnapshot(k, [p \in Path |-> Merged(anc[p], our[p], thr[p])],
                                  {call[k].expected, call[k].sourceHead},
                                  [call[k] EXCEPT !.ours = ours, !.base = base])
    /\ UNCHANGED <<head, audit, landed, calls, admin>>

----------------------------------------------------------------------------
(* prune_timeline *)

CallPrune(k, t) == Begin(k, Started("expiry", t))

CheckExpiry(k) ==
    /\ At(k, "expiry")
    /\ IF head[call[k].name] = None \/ call[k].name \notin Expired THEN Returns(k)
       ELSE call' = [call EXCEPT ![k].old = head[call[k].name], ![k].pc = "tags"]
    /\ UNCHANGED <<snaps, head, audit, landed, calls, admin>>

CheckTags(k) ==
    /\ At(k, "tags")
    /\ IF call[k].old \in tagged THEN Returns(k) ELSE Goes(k, "delete")
    /\ UNCHANGED <<snaps, head, audit, landed, calls, admin>>

\* delete_ref has no precondition.
Delete(k) ==
    /\ At(k, "delete")
    /\ head' = [head EXCEPT ![call[k].name] = None]
    /\ Returns(k)
    /\ UNCHANGED <<snaps, audit, landed, calls, admin>>

----------------------------------------------------------------------------
(* What others do meanwhile, each one commit or one write of the ACL file. *)

Edit == edits < MaxEdits /\ edits' = edits + 1 /\ UNCHANGED <<snaps, audit, landed, calls>>

\* Every call that is under way has met the new pin, or the new registry.
Meets(k, r, registry) ==
    IF call[k] = Idle THEN Idle
    ELSE [call[k] EXCEPT !.pins = @ \cup {r}, !.registries = @ \cup {registry}]

SetPolicyRoot(r) ==
    /\ Edit /\ pin' = r /\ call' = [k \in Task |-> Meets(k, r, approvers)]
    /\ UNCHANGED <<head, tagged, protected, approvers, attested>>

SetApprovers(registry) ==
    /\ Edit /\ approvers' = registry /\ call' = [k \in Task |-> Meets(k, pin, registry)]
    /\ UNCHANGED <<head, tagged, protected, pin, attested>>

\* add_attestation stores any attestation; one that does not verify never counts.
AddAttestation(att) ==
    /\ Edit /\ attested' = attested \cup {att}
    /\ UNCHANGED <<head, call, tagged, protected, pin, approvers>>

SetAcl(r) ==
    /\ Edit /\ protected' = protected \cup {r}
    /\ UNCHANGED <<head, call, tagged, pin, approvers, attested>>

RemoveAcl(r) ==
    /\ Edit /\ protected' = protected \ {r}
    /\ UNCHANGED <<head, call, tagged, pin, approvers, attested>>

CreateTag(s) ==
    /\ Edit /\ tagged' = tagged \cup {s}
    /\ UNCHANGED <<head, call, protected, pin, approvers, attested>>

CreateTimeline(t, s) ==
    /\ Edit /\ head[t] = None /\ head' = [head EXCEPT ![t] = s]
    /\ UNCHANGED <<call, tagged, protected, pin, approvers, attested>>

----------------------------------------------------------------------------
AdvanceStep(k) ==
    \/ CheckTimeline(k) \/ ReadHead(k) \/ ReadPolicy(k) \/ CheckLineage(k)
    \/ LoadApprovers(k) \/ CountApprovals(k)
    \/ Refuse(k) \/ Swap(k) \/ SwapFails(k) \/ RecordAllowed(k)
MergeStep(k) ==
    ReadSource(k) \/ ReadTarget(k) \/ MergeDenied(k) \/ ReadTheirs(k) \/ Merge(k)
PruneStep(k) == CheckExpiry(k) \/ CheckTags(k) \/ Delete(k)

Next ==
    \/ \E k \in Task :
        \/ \E t \in Timeline, s \in DOMAIN snaps : CallAdvance(k, t, s)
        \/ \E p \in Proposal : CallMerge(k, p[1], p[2])
        \/ \E t \in Timeline : CallPrune(k, t)
        \/ AdvanceStep(k) \/ MergeStep(k) \/ PruneStep(k)
    \/ \E r \in Root : SetPolicyRoot(r)
    \/ \E registry \in SUBSET Key : SetApprovers(registry)
    \/ \E t \in Timeline, s \in DOMAIN snaps, key \in Key :
        <<t, s>> \in Attestable /\ AddAttestation(<<t, s, key>>)
    \/ \E r \in Labelled : SetAcl(r) \/ RemoveAcl(r)
    \/ \E s \in Taggable : CreateTag(s)
    \/ \E t \in Timeline, s \in DOMAIN snaps : CreateTimeline(t, s)

Spec == Init /\ [][Next]_vars

----------------------------------------------------------------------------
\* The step in which a call of advance_timeline_expecting moves the head.
Lands(k) == At(k, "swap") /\ call'[k].pc = "audit"

\* On a FastForwardOnly or Append timeline every move of the head is to a
\* descendant of the head it replaces, whatever moved it between the lineage
\* check of TimelinePolicyHook and the commit of the advance.
LineageKept ==
    [][\A t \in FastForward :
        head[t] # None /\ head'[t] \notin {None, head[t]} => head[t] \in Ancestors[head'[t]]]_vars

\* A merge that lands changes no path of the head it replaces but those that the
\* source changed since the base: what others put on the target while
\* merge_proposal read, diffed and stored is never undone.  So for every target
\* whose two readings agree, and for a fast-forward one in any case; an
\* unrestricted target may move away and back between its readings.
MergeKeepsTarget ==
    [][\A k \in Task :
        /\ Lands(k) /\ call[k].source # None
        /\ call[k].ours = call[k].expected \/ call[k].name \in FastForward \ Expired
        =>
            \A p \in Path :
                LET old == RootOf(head[call[k].name])[p]
                    new == RootOf(call[k].snap)[p]
                IN  new = old \/ (new = RootOf(call[k].theirs)[p] /\ old = RootOf(call[k].base)[p])]_vars

\* An advance lands only if its task could write every path of the new snapshot
\* and every path of the very head it replaces, under the labels that the call
\* read: a path added by another task after the call began is not removed by
\* someone who may not write it.
WritesPermitted ==
    [][\A k \in Task : Lands(k) =>
        \A p \in Path :
            RootOf(call[k].snap)[p] # None \/ RootOf(head[call[k].name])[p] # None
                => CanWrite(k, call[k].rules, p)]_vars

\* No fewer than so many keys of a registry have signed the head that a call
\* is about to land.
Approves(k, registry, needed) ==
    \E keys \in SUBSET registry :
        /\ \A key \in keys : <<call[k].name, call[k].snap, key>> \in attested
        /\ ~(Cardinality(keys) < needed)

\* An advance lands only with the approvals of exactly its new head that the
\* local hooks and some policy root pinned during the call ask for, by keys of a
\* registry that was in force during the call.
ApprovedLanding ==
    [][\A k \in Task : Lands(k) =>
        \E r \in call[k].pins, registry \in call[k].registries :
            /\ r # Unresolvable
            /\ \/ Needed(r, call[k].name) = 0
               \/ Approves(k, registry, Needed(r, call[k].name))]_vars

\* The audit trail says "allowed" of the moves that took place and of no other;
\* one that took place is missing only while its call has yet to record it.
AuditTrue ==
    /\ \A e \in audit : e.decision = "allowed" => <<e.timeline, e.old, e.new>> \in landed
    /\ \A m \in landed :
        \/ [timeline |-> m[1], old |-> m[2], new |-> m[3], decision |-> "allowed"] \in audit
        \/ \E k \in Task : At(k, "audit") /\ <<call[k].name, call[k].old, call[k].snap>> = m
=============================================================================
