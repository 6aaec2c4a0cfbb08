# A verification project for bole

bole is a content-addressed, access-controlled version control library written
in Rust (`src/`), with a command line (`bole-cli/`) and an HTTP API
(`bole-api/`). This directory holds TLA+ models of it, the TLC configurations
that check them, and proofs that TLAPS checks.

## 1. The system

| Part | State it keeps | Operations | What is hard |
|---|---|---|---|
| Ref store (`refs/`) | one file per ref, journals under `refs/.txn`, a commit lock per process | transactions (`resolve`, `apply_atomic`), single-ref calls, `recover` at open | atomicity over several files, crashes during apply and during recovery, other processes |
| Object store (`store/`) | loose files, packs and indexes, the pack list in memory | `put`, `get`, `repack`, `compact`, `sweep` | no instant without a copy, stale pack lists, the age of a file |
| Garbage collection (`repo/mod.rs`) | none of its own: reads refs, marks, sweeps | `gc` | refs that move and objects that arrive while it runs |
| History (`repo/merge.rs`, `acl/hook.rs`) | the graph of snapshots | `find_common_ancestor`, `is_ancestor`, `three_way_diff` | graphs with merges, missing history |
| Advance and merge (`repo/mod.rs`, `repo/pr.rs`) | timelines | `advance_timeline_expecting`, `merge_timelines`, `merge_proposal`, `prune_timeline` | state read before an await and used after it |
| Policy (`acl/`) | policy root, approver registry, attestations, all under refs | `evaluate`, `adopt_policy_root`, `set_policy_root` | approvals bound to a head, rollback, forks between replicas |
| Access control (`acl/`) | ACL files, lattice, labels, clearances | label resolution, `can_read`, `can_write`, filtered views | order of rules, joins, globs, listing and lookup that must agree |
| Sync (`sync/`) | remote-tracking refs | `fetch`, `push`, `clone_from`, wire, HTTP and hub sessions | interrupted transfer, lost answers, concurrent pushers |
| Collaboration (`collab/`, `repo/collab.rs`, `sync/collab.rs`) | signed profiles, trust edges, records, posts; relay pins | publish, pull, relay, search, discover | old copies that overtake new ones, objects that do not verify |
| Secrets (`object/secret.rs`, `crypto/`, CLI registries) | encrypted objects, overlays, `secrets.json`, `envs.json` | store, share, grant, revoke, rotate, rekey, resolve | files rewritten without a lock, several saves in one command |
| Worktrees (CLI) | `.bole` pointers, `worktrees.json`, bindings | add, remove, prune, repair, open | directories that users move behind its back |
| Working trees (`repo/ephemeral.rs`, `repo/materialize.rs`) | files, a base | edit, commit, materialise, diff | files against directories, ignored files |
| Git exchange (`repo/git_*.rs`) | the identity map | import, projection | a map that outlives what it names |
| HTTP API (`bole-api/`) | none | read endpoints | hidden must look like absent |

How they interact: everything that changes state ends in a `RefTransaction` (or
in a single-ref call), and what a ref names must be in the object store.
Writers put objects first and move the ref last; gc reads the refs first and
removes objects last; these two orders, with the grace window between them, are
the only coordination between the two. Advance and push check history and
policy, then compare-and-swap the head. Sync copies a closure, then does the
same on the other side. The command line keeps names of its own (secrets,
overlays, worktrees) in JSON files beside the store; gc takes those of secrets
and overlays as further roots. Nothing but the commit lock (one per process,
around one transaction) and `publish_lock` (one per process) is a lock.

What makes each part correct:

* refs: a transaction is all or nothing through any crash; what it validated
  holds when it takes effect; no call waits for ever.
* objects: what a ref reaches can be read, at every instant; garbage goes.
* history: an ancestor is one, descent is decided exactly, the searches end.
* advance and merge: no accepted head loses another accepted head; a merge
  undoes nothing on its target; what was checked holds for the head replaced.
* access: matching and labels are what their documentation defines; every way
  of looking at a thing gives the same verdict; adoption never rolls back.
* sync: a ref moves only to a head whose closure is there; a tracking ref never
  runs ahead of the peer; every session ends.
* collaboration: what is shown was signed; a publication never goes back; a
  trust path exists; a relay's answer is what the whole data would give.
* command line: a name resolves to what was stored under it; a command leaves
  alone what it is not about; a snapshot is what was in the working tree.

The things that are hard to test are listed, each at its line, under `hazards`
in `PROJECT.json`.

## 2. Modules

```
RefOps  <-- RefStore <-- RefStoreProofs         the ref store and its proofs
   ^           |    ^-- MCRefStore
   '-- AtomicRefs <-'  (refinement, INSTANCE)
Ancestry  <-- AncestryProofs                    searches of the history
Walks     <-- WalkProofs                        reachability, used by the next four
PackStore <-- PackStoreProofs, MCPackStore      objects, packs, gc
Timelines <-- TimelinesProofs, MCTimelines      advance, merge, prune and policy
Sync      <-- SyncProofs, MCSync                fetch, push, clone
Access <-- Governance <-- Api <-- GovernanceProofs, MCGovernance
                                                labels, ACLs, policy roots, HTTP API
Discovery <-- Collab <-- CollabProofs, MCCollab signed objects, pull, relays, search
Secrets, Worktrees, Workspace, GitBridge <-- MCCli   the command line's own state
```

**RefOps** has the values: a ref is a kind and an object id; the metadata that
operations only copy is left out. `Refused`, `Value` and `Layer` say what one
buffered operation of `transaction.rs` checks and enters into the plan.

**RefStore** has one action for every file-system effect. A transaction takes
the commit lock (`AcquireLock`), resolves its operations one by one over an
overlay (`ResolveOp`, `ResolveRefused`), publishes a journal (`WriteJournal`,
the rename of the synced file), writes each ref through its temporary file
(`WriteTmp`, `Rename`) or removes it (`Remove`), and removes the journal
(`RemoveJournal`). `Open`, `ReadJournal` and `Opened` are `recover`, which runs
the same apply steps. `Call` and `CallReturns` are the single-ref methods:
read and check in one step, then the same write steps, with no lock and no
journal. `Crash` kills a process with all its threads between any two steps;
`WriteFails` is a write that returns an error; `RenameMissing`,
`JournalMissing` and `ReadMissing` are the errors that another process causes.

**AtomicRefs** is what the ref store promises: a map from names to refs on
which a transaction takes effect in one step between call and return. A crash
may come before or after that step. It says what `resolve` computes without
computing it step by step: `Overlay(ops, i)` is the last entry that the first
`i` operations make for each name, and `Allowed(ops)` that none of them is
refused over it. The refinement mapping takes as the map `View`, the refs as
they will be when the journals on disk have been replayed, and as the phase of a
call `Stage` of its thread's program counter.

**Walks** has reachability as one recursive function, `Walk(nodes, edges)`: what
a traversal with a visited set reaches from each node. PackStore takes from it
what a ref needs and what a mark finds, Timelines ancestors, Sync closures,
Governance the lineage of a policy root.

**PackStore** models the objects and their collector. A pack is the sequence
of its objects, because its file name is the digest of exactly that. Loose
files have an age (`aged`: past the grace window). A writer puts the objects of
a commit one at a time and then creates or advances a ref. A collection reads
the refs one at a time, marks, and repacks: list, read, write the pack, write
the index, unlink the old packs and indexes one at a time, reload, delete the
loose copies one at a time, and sweep the loose files that are old. Each
process has its own list of loaded packs. Reading an object may fail, during the
mark (`MarkFails`) as during the repack (`ReadError`); the collection then ends
with an error. The order in which directories and hash maps are read is left
open.

**Ancestry** runs `find_common_ancestor` a level at a time and `is_ancestor` a
snapshot at a time on any acyclic graph, of which any part may be missing from
the store.

**Timelines** moves heads. Each task runs one call: `CallAdvance`, `CallMerge`
or `CallPrune`, then one step for every read of a ref or of the ACLs, in the
order of the code. `CheckTimeline`, `ReadHead`, `ReadPolicy`, `CheckLineage`,
`LoadApprovers`, `CountApprovals`, `Refuse` or `Swap`, and `RecordAllowed` are
`advance_timeline_expecting`; `ReadSource`, `ReadTarget`, `ReadTheirs` and
`Merge` come before it in `merge_proposal`. Between two steps others pin a
policy root, change the approvers, attest, set or remove ACLs, tag, or create a
timeline. A commit is one step, which is what `refs_tx` shows of the ref store
in one process; the ancestor of a merge is any common ancestor, which is what
`CommonIsCommon` and `NoneMeansDisjoint` prove of the search. Trees are maps
from paths to blobs, labels are the two of the default lattice, and a signature
either verifies or the attestation is not there. The policy and the expiry of a
timeline go with its name. Approval hooks come from the pinned root and from the
open repository (`Local`); the hooks on one timeline are evaluated against one
reading of the registry, so only the strictest counts (`Needed`). The name of the
approver registry is taken to hold a tag here; Governance has the case in which
it does not.

**Sync** has two kinds of repository, clients and one server. A session begins
with `ClientFetch`, `ClientPush` and their HTTP, hub and in-process forms, and
goes through the messages: `Prove` (the identity proof), `Advertise`, `Want`,
`Plan` or `PlanLocal`, `Pack`, `Receive` and `Land` (one object at a time),
`Gate` (reserved names, owner, lineage, closure), `Commit` (one transaction),
`Reply` and `Fetched` (tracking refs). The gate judges each operation of a push
by itself, but all of them in one step where the code awaits in between; the
transaction compares every head with the one that was judged, so a head that
moves during the checks is refused as one that moves after them. `ServeHttp`
is the request that does all of the server's half at once. `Clone` fetches and
then copies the refs as they are by then (`Mirror`). `Break` ends a session on
both sides between any two steps, after the server's commit too. Local commits,
adoption of what was fetched and a new policy come in between. `missing_closure`
and `closure_present` work on the objects each side has at that moment. Tags in
adverts, byte framing and message size limits are left out.

**Access** has the operators: the byte-wise glob matcher (as a function on
positions), lattices with `Validate`, `Dominates` and `Join`, label rules,
clearances and accessors. **Governance** gives them state: rules in either ACL
backend, grants, named actors and the bound actor, approval hooks, approvers and
attestations, and replicas that receive policy roots, pin them
(`SetPolicyRoot`) or adopt them in three steps (`AdoptVerify`, `AdoptRead`,
`AdoptSwap`), while gc may run. `check_merge` is three steps: `BeginCheck` reads
the label rules, `ListAcls` the path ACLs, and `FinishCheck` the policy, with the
local hooks as they were when the repository was opened. A timeline may be
created under the name of the approver registry (`ApproversTimeline`); the
approvers then cannot be loaded, and a destination with an approval hook is
denied. `Chain` is the walk of `verify_policy_chain` over the roots that a
replica holds, `Lineage` the one over all roots. **Api** is how a request becomes a principal, an actor and an
accessor, and what the endpoints answer.

**Discovery** has the signed objects and what is computed from sets of them:
the follow neighbourhood, petnames, the index, the ranking of strangers and the
search ball that a relay answers with. **Collab** has the nodes: publication
(read the sequence number and sign, then check and write under `publish_lock`),
pull (receive, then verify and file), pinned relays, proposals, comments and
boards, and the views, commands and endpoints that read them. A signature is
the key that made it; an object whose signer is not the key it names does not
verify.

**Secrets** models envelopes (v1, v2 and multi-recipient), overlays and the two
registries. A command loads a registry, works, truncates and rewrites the file,
one step each, without a lock; two processes may overlap and be killed in
between. A file that was cut off does not parse (`Torn`). gc reads both
registries for its roots and then sweeps, sparing what is within grace. Random
data keys are numbered, so that two encryptions are two objects. A v1 envelope
has no data key; its random nonce is numbered instead.

**Worktrees** models `.bole` pointers, `worktrees.json`, the bindings and what
users do behind the commands' back: move or delete a directory, damage a
pointer, move the store, delete a registry. A command decides, in one step, which
files it will change and in which order; `Change` makes one such change per step.
`Killed` ends the command before a change or inside it, and a file whose write
was cut short cannot be read: a bad pointer, an unreadable binding, or a
`worktrees.json` with which every workspace command fails until it is deleted.
`Classify` and `AllocateId` are the functions of `worktrees.rs`.

**Workspace** models working trees in memory and on disk with the trees they
are built into (`BuildTree`) and walked from (`WalkTree`): edits, commits,
`snapshot create`, whole and interrupted materialisation, open, clear, diffs.
Directories are state of their own: they stay when their last file is removed,
and then no file can have their name.

**GitBridge** models import and projection. Objects on both sides are their own
ids; author and message change in either direction, so an unmapped round trip
makes new snapshots. An import translates one object per step, then checks a
branch in one step and moves it in the next, tags in one step each, then installs
label rules and saves the identity map; it may be refused or stop anywhere. An
export writes its objects, then one ref per step, then the map. Others push,
force-push, commit, delete and collect meanwhile. Trees are flat and histories have no merges.

## 3. Runs

Run any of them with `tlc -config <cfg> <module>`; `PROJECT.json` has the names.

| Run | Question | Result |
|---|---|---|
| `refs_tx` | transactions of two threads, with two crashes | atomic, and journals drain |
| `refs_shared` | every kind of call from two processes, with a crash and a failed write | every call returns |
| `packs_crash` | commits, prunes, compactions and collections in sequence, with a fault at any step | holds until a pack name is reused |
| `packs_processes` | a writer in one process beside the collections of another | holds, for new content |
| `packs_reused_name` | is the same true when a pack name is reused? | no |
| `ancestry` | the searches, on all graphs of four snapshots | right, and they end |
| `timelines` | advances, merges and prunes by two tasks while policy, approvals and ACLs change | holds |
| `sync` | two clients and a server over four transports, with a break | holds |
| `governance` | globs, labels, views, merge checks, adoption | holds |
| `collab` | publication, pull, relays, search, views on three nodes | holds |
| `collab_rollback` | does a pull keep the newest version? | no |
| `cli` | secrets, worktrees, working trees, git exchange | holds |

### What the passing runs check

`CommitPoint`: the recovered refs change only at a journal's rename and then by
its whole plan. `PreconditionsHold`: whatever `resolve` has validated stays
true until the journal is published. `AtomicRefsSpec`: the store refines
`AtomicRefs`. `CallsReturn`, `JournalsDrain`: every call ends, every journal is
replayed and removed.

`RepackKeepsHeads`: at every instant, so after a crash at any instant, all that
a ref needs is loose or in a pack with its index, until the first repack that
writes a pack under a name in use. `IndexesAreBacked`: a loaded index has its
pack file except while its own process is retiring packs. `GcCollects`: a
collection that ends leaves nothing on disk that is neither reachable from its
roots nor young, also when an earlier operation crashed or failed. A pack file
without an index is not counted, since nothing can read it; such a file stays. It
speaks of at most one fault: after two, an index that the first left behind may make
visible a pack that the second abandoned, and only the next collection finds it.

`CommonIsAncestor`, `NoneIsDisjoint`, `DescentDecided`, `SearchEnds`: the two
searches are sound, complete and terminating.

`LineageKept`: a fast-forward timeline moves only to descendants of the head
that is replaced. `MergeKeepsTarget`: a merge undoes nothing on the target.
`WritesPermitted`: every path written, or removed from the very head replaced,
was one the task could write. `ApprovedLanding`: enough keys of a registry that
was in force during the call have approved exactly this head, for the local hooks
and a policy root that was pinned during the call.
`AuditTrue`: "allowed" is recorded of the moves that happened, and of all.

`HeadsComplete`: a head pushed over a connection has its closure on the server,
wherever earlier transfers broke off. `TrackingSeen`: a tracking ref names a
head the server's timeline has had. `Fenced`: pushes move no reserved name and
nobody else's hub names. `LineageKept`, for pushes: three reads precede the
swap. `SessionsEnd`: a session that has begun ends, by its last message or by a
break. The two ends of a session share one program counter, so a disagreement
between them about whose turn it is is outside the model.

`GlobIsSegmentwise`, `LabelIsLeastBound`: the matcher and the join against
their definitions. `ExplainMatchesEnforcement`, `HiddenLooksAbsent`: an
explanation says what is enforced, and a lookup answers as the listing does.
`MergeCheckSound`: an allowed merge exposes no path, by the rules at its start
or by those at the listing of the path ACLs, and has the approvals that the hooks
it found ask for. `AdoptionSound`, `ReplicasReconcileAlike`: adoption neither rolls
back nor forks, and replicas choose alike.

`PublishedAdvances`, `ServedIsGenuine`, `DiscoveryGrounded`, `SearchFindsAll`:
publications never go back, what is handed out was signed, reported trust paths
exist and are shortest, and a relay's search ball loses no stranger. This is
for a querier that adds only its own edges to the ranking; `bole discover relay`
also adds the edges it tracks (`discover.rs` 80-85), for which nothing is claimed.

`ValueKept`: through every interleaving and crash a name or variable resolves to
a value stored for it or to nothing. A registration that two overlapping commands
lose is such a "nothing". `RegistryFaithful`: with one command at a time, what
finished commands promised is there. `RetiredUnreferenced`: with one command at a
time, no registered name and no overlay refers to an object that a finished rekey
replaced. An overlay that holds an object no rekey replaced, because its secret
was rotated since or because the rekey was killed, is not covered.

`OthersUntouched`: a workspace command leaves the consistent worktrees it is not
about alone, wherever it is killed: directory, pointer and binding stay, and the
registration stays as long as `worktrees.json` can be read. It excludes
directories that are registered twice and ids that are on two pointers.
`SnapshotRoundTrip`: tree building, walking, materialising and diffing agree. It
says nothing of a working tree whose materialisation stopped part-way.
`ImportFaithful`: an imported timeline can be checked out and tells the branch's
history, after any stops, dry runs and forced pushes; and it is the very snapshot
that was exported if a mapped export had recorded the commit before the import.

### What the violations show

* `packs_reused_name`: a repack that produces the frames of a loaded pack, in
  the same order, writes the file that it then unlinks as superseded. It happens
  when gc finds the same objects again, in the order of the pack's index.
* `collab_rollback`: a pull files whatever verifies; after a pull from a relay
  with an older cache the older version is tracked. The module header says only
  the highest sequence number is kept.

More disagreements were found with the same modules. To see one, check the
property named under the constants given:

* `RefStore!CallIsOneOpTransaction` with two threads of one process and
  `CallOps`: a single-ref call overwrites a change made between its read and its
  write; the storage design says it equals a one-operation transaction.
* `PreconditionsHold` with `TwoProcesses`, `OwnProcess` and `Swaps`: both pass
  `advance_head_if` from the same head; the design says compare-and-swap rejects
  lost updates across processes.
* `Ancestry!CommonIsNearest` with the constants of `ancestry`:
  `find_common_ancestor` returns the smallest id both sides have seen. When one
  head merges its own ancestor again, a push that is a fast-forward is refused.
* `Sync!ClosurePrefix` with the constants of `sync`, or with `WholeStart` and
  `Breaks = {"local"}`: an in-process push checks only that the new head is
  there, so a head without its closure is accepted from a pusher that lacks part
  of it, or on the retry of a push that was interrupted.
* `GitBridge!ImportFaithful` with the constants of `cli` and without its
  condition: the identity map is no root of gc, and an import skips what the map
  names.

The following were seen on scratch configurations and are recorded as hazards:
two collections in one process, of which the first to list its objects retires
the pack the other wrote; two collections one after the other in two processes,
of which the second takes for absent what the first has packed, because a
process reads the list of packs only when it opens the store and after its own
repacks (the storage design says of gc that "it can never remove a referenced
one"); a policy root, which
`mark_reachable` treats as a leaf and `child_edges` does not, so that a replica
that has collected a root's parent can adopt no later root; a compaction that
moves a young object into a pack, where no grace window applies; a timeline pruned though it was advanced or tagged
after the checks; a merge whose second parent is not the source that was diffed;
a head that lands though the policy of that moment would refuse it; a commit
that returns an error after its journal is published and is applied at the next
open; a ref branched and pruned while gc reads the refs; an old unreferenced
object that a commit reuses while a collection is running.

Noticed while translating, and kept in the models as the code has them:

* Access: `check_merge` reads the rules, the path ACLs and the policy at three
  moments. Nothing keeps a timeline from being created as
  `refs/policy/approvers`; while it is there approvals can be neither counted nor
  given, and merges that need one are denied. A timeline under
  `refs/attestations/` has the same effect and is not modelled. The disk ACL backend stores no grants, and the API server uses that backend. It
  stores rules for dot-files and never lists them.
* Collaboration: a repository record that does not verify blocks announcing it
  again.
* Secrets: an overlay bound before a grant is not moved by `rekey --all`, which
  fails if any secret has several recipients; rotating a shared secret drops the
  other recipients. An overlay bound before its secret was rotated, or whose rekey
  was killed before it saved the overlays, keeps an object under the old key, and
  no later rekey finds it.
* Worktrees: an id that was pruned while its pointer was elsewhere, or that a
  killed `add` left unregistered, is given out again, and two directories then
  share one binding. `prune` deletes the pointer of a directory that is also
  registered under another id.
* Worktrees: `repair --adopt` refuses a copy whose id is registered, where the
  workspace design has it adopted.
* Git: an import checks a branch and then advances it without comparing
  (`git_import.rs` 233-244), so a commit made in between is overwritten; that
  `advance_head` is not the compare-and-swap of native advances is recorded as a
  hazard. A mapped export records a commit anew that an import has mapped
  (`git_projection.rs` 148-150); the timeline keeps the translation.
* Git: the command line's export saves no map, so importing its result makes
  new snapshots. Export writes bole's names, so a branch whose name was
  sanitised comes back under both names and the next import reports a collision.
  A branch and a tag of one name make an import fail after it has moved
  timelines and before it saves the map.

### Bounds

* Refs: two names, two ids, two threads; three calls and two crashes, enough
  for a crash during the recovery from a crash, followed by another
  transaction. Batches touch both names, create, swap, delete and read their
  own writes.
* Packs: two commits, the second on top of the first (four objects), and four
  operations: by a single task, with one fault; or by a writer with two refs and
  a collector in another process, without faults. That is two collections with a
  commit before, between and beside them.
* Ancestry: four snapshots, all 543 labelled acyclic graphs, all subsets
  stored, all pairs. Four are needed for a head that the other side reaches by
  a longer and a shorter way.
* Timelines: a fast-forward `main` and an expired, unrestricted `feature`, two
  tasks with different clearances, two paths, three snapshots and one merge,
  two calls and two changes of policy, approvals or ACLs, starting from every
  pin and registry, with a local hook on `feature`. Attestations can be made of
  four moves (`Attestable`), two for each timeline, one of them of its merge. Two
  calls are what a lost update needs; two changes let an approval be given and
  its key or root be replaced within one call.
* Sync: two clients with different rights, three names (one reserved, one in a
  client's namespace), three snapshots of which two diverge, two sessions, one
  commit, one break and one change of policy, from a fresh and from a diverged
  start. Two sessions are what two racing pushers, or a retry after a break,
  need. In-process transfers do not break.
* Governance: two calls from an empty repository, from a populated one and from
  one with hooks and no approvers; patterns
  and paths of up to three segments; all labellings on lattices of four and six
  labels, which include pairs without a least bound; policy roots with a fork,
  an unknown hook and an untrusted signer, two replicas.
* Collaboration: three nodes, one a relay, four calls, sequence numbers to
  three; the search over every follow graph of four keys.
* Command line: four independent parts summed in one run. Secrets: four
  commands, one overlap of two processes, one crash. Worktrees: three
  directories, two homes of the store, four commands, two changes by the user.
  Working trees: two edits, two commits. Git: three branches, of which two
  have names that are sanitised to one (`.m` and `_m`), and a tag, three exchanges, and between their
  steps two changes in git, one native commit, one stop and one collection, at
  most four of these together (`MaxOutside`). An import that stops, a push, a
  native commit, a second import and an export fit into one behaviour.

`reused` in PackStore is a history variable; it separates the one known way to
lose a pack from all others, which `packs_crash` and `packs_processes` exclude.
`mapLost` in GitBridge does the same for snapshots that gc took from under the
identity map.

### Fairness

`TxFairSpec` and `FairSpec` give weak fairness to the steps of a running
thread (it has the processor again and again), to the lock (a free mutex is
taken by a waiter) and to opening a repository that is down (recovery is only
run by someone who opens it). Calls and crashes are not fair. Weak fairness is
enough because the number of calls is bounded, so no thread is overtaken for
ever; a `std::sync::Mutex` promises no more than that some waiter gets it.
`Ancestry!FairSpec` lets a running search go on. `Sync!Fairness` lets a session
that has begun take its next step: a message in transit arrives, or the
connection breaks and both sides see it. No new session is ever required.

## 4. Proofs

Every theorem holds for any value of the constants that the named `ASSUME` of
its module admits. TLC evaluates these assumptions on every run, and they say
what the constants stand for: which sets they are drawn from, that object ids
and `None` differ, and that a graph of content-addressed objects has no cycle
(every non-empty set of nodes has one whose edges leave it), because an object's
id is the hash of what it names. Each inductive invariant below was checked with
TLC on the instance of the run before it was proved.

Leaves that need no arithmetic name `Zenon`. This is for time: the encoder of
tlapm's SMT backend gets slower with every obligation it has encoded, and in a
module of this size would run into its own timeout.

**RefStoreProofs**, for any names, ids, processes, threads, batches, calls and
bounds:

* `TypeCorrect`: `Spec => []TypeOK`, every kind of call and failure included.
* `SwapsAreAtomic`: `TxSpec => []PreconditionsHold`, assuming one process.
* `AllOrNothing`: `TxSpec => CommitPoint`, assuming one process.
* `ImplementsAtomicRefs`: `TxSpec => AtomicRefsSpec`, assuming one process.

The one-process assumption (`SoleProcess`) is what the code needs: with two
processes `PreconditionsHold` fails, as described above. The inductive invariant
`IInv` adds to the types: a thread that is resolving or applying holds the lock,
so at most one is (`LockGuards`); there is at most one journal, and it is the
plan of whoever is applying (`OneJournal`); the refs of the plan no longer in
`todo` have their final value (`AppliedInPlace`); what the overlay holds was
passed by the operations resolved so far (`OverlayPassed`); threads run only in
an opened process (`ThreadsServed`). Without `OneJournal` the view could depend
on the order of replay; without `AppliedInPlace` removing the journal could
change the view.

The refinement needs one fact more, `Resolves`: the overlay of a thread that has
resolved `i` operations is `Overlay(ops, i)` over the present view, and none of
them is refused there. It survives the steps of other threads because the view
moves only at a journal's rename, by the holder of the lock. `OverlayEmpty` and
`OverlayStep` relate the declarative overlay to the one the code builds;
`JournalTakesEffect`, `ApplyKeepsView` and `RemovalKeepsView` say what each disk
effect does to the view; `PhaseMoves` says how a step of a thread moves its
phase. `StepRefines` then maps every action to a step of `AtomicRefs`: the
rename of the journal, or the return of an empty batch, is the one that takes
effect; a refused operation is a justified refusal; a crash ends a call before
or after its effect; everything else stutters.

**AncestryProofs**, for any acyclic graph and any stored part of it:
`CommonIsCommon`, `NoneMeansDisjoint`, `WalkDecidesDescent`. Ancestors are
defined as the members of every set that is closed under parents, so the proof
needs no induction over paths: a side of the search is contained in every
closed set (`Upward`), and when its frontier is empty it is itself closed
(`Least`).

**WalkProofs**: `Walk` is defined as a function by its own equation, of which a
solution has to be exhibited before the equation may be used. `LeastSolves` does
so: the intersection of all closed sets. `WalkStep` is the equation. The other
proofs need of it `WalkOn` (what is reached beyond a node is reached along one of
its edges), `WalkStays` (what a growing graph keeps), `WalkWithin` (a walk stays
inside every closed set it starts in) and `WalkThrough` (a walk from a node that
was reached stays inside the first). Facts about all reachable nodes are proved by taking the set of
counterexamples and a member whose edges leave it, which exists because the
graph is acyclic (`Acyclic`).

**PackStoreProofs**, for any objects, refs, processes, tasks, operations and
bounds, with crashes and failed reads at every step:

* `TypeCorrect`: `Spec => []TypeOK`, without further hypotheses.
* `KeepsHeads`: `Spec => []RepackKeepsHeads`, if `Coordinated`.
* `Backed`: `Spec => []IndexesAreBacked`, if `Coordinated` and `Alone`.
* `Collects`: `Spec => GcCollects`, if `Alone`.

The hypotheses are what the code needs, as the disagreements above show.
`Coordinated` says that storing a snapshot puts all that it names
(`ContentStored`), that refs name snapshots (`SnapshotsOnly`), and that either
one process runs one operation at a time (`Alone`) or one task collects while
any number of others, in any processes, commit new objects and branch
(`OneCollector`). TLC evaluates them on the instances of the passing runs.

What has to survive is `Promised`: all that a ref reaches, and what the commits
under way have put so far. The inductive invariant `Safe` says that it is on
disk, and follows a collection through its stages. While the refs are being read,
what is promised is reachable from the roots found and the refs still to be read,
or is a young loose file (`Marking`); this is the argument for reading refs first
and sweeping last, and it needs that a ref is created or moved only to a snapshot
whose parents a ref already reaches (`Committing`). From the mark on, what is
promised is kept or young. The new pack holds all that is kept of the loaded
packs, is on disk with its index before the first old pack goes, and is not one
of those (`Packing`, up to `reused`); loose files go only when the reloaded packs
have them, or when nothing keeps them (`Dropping`); and the pack list of the
collector's process is true except while it retires packs (`View`). `Beside` is
what the presence of other tasks adds: packs hold only what refs need, and what
a commit has put and no ref needs yet is younger than every collection that could
sweep it.

`Collects` has an invariant of its own, `Tidy`: outside a repack the process has
loaded every pack that an index makes visible (`Sees`), so that a repack retires
them all and leaves only what the mark kept (`Leaves`).

**TimelinesProofs**, for any tasks, timelines, paths, keys, roots and
clearances, under every interleaving with changes of policy, approvals, ACLs and
tags: `AuditIsTrue`, `AdvancesGoForward` (`LineageKept`), `MergesKeepTarget`,
`LandingsPermitted` (`WritesPermitted`), `LandingsApproved`
(`ApprovedLanding`). `Invariance` is the inductive invariant: besides the types
and `AuditTrue`, it states for each call what its checks have established
(`Good`). After the head is read, nothing is denied with respect to that head
(`Checked`); after the policy is read, the approvals asked for are those of a
root that the call has met (`Asked`); after the lineage check, the old head is an
ancestor of the new one; before the swap, enough keys of a registry that the call
has met approve exactly this head (`Approved`, with those keys as a witness:
attestations are only ever added). These facts are about the head
that was read, and carry over to the head replaced because the swap compares the
two. A merge reads its target twice, so its part (`Merging`) also needs an
order: snapshots are numbered parents first, a fast-forward timeline that is
never deleted only goes up (`Grows`), hence the target as diffed is not behind
the head that the merge expects (`NotBehind`). An unrestricted or expired target
may move away and back between the two readings; of such a one the property
speaks only where the readings agree.

**SyncProofs**, for any clients, names, rights, transports and acyclic object
graph: `PushedHeadsComplete` (`HeadsComplete`), `TrackingIsTrue`
(`TrackingSeen`), `PushesFenced` (`Fenced`), `HeadsGoForward` (`LineageKept`).
`Invariance`: a server timeline that has had a head has one (`HeadsSeen`); what a
session was told was once true (`Informed`); nothing is accepted before the
gate, and what the reply confirms has been a head (`Confirmable`); an accepted
operation goes forward from the head it expects, is to a name the session may
write, and, unless it is in process, to a head whose closure is stored
(`Sound`). The gate's facts outlast the gap before the commit since the
server's store only grows and an Unrestricted timeline stays one.

**GovernanceProofs**, for any roots without a cycle of parents, replicas, rules,
accessors and requests: `AdoptionsSound` and `ReconciledAlike` (a replica's
chain, where it verifies, is the whole lineage, `ChainIsLineage`, and two
lineages that meet are ordered by inclusion or fork in the same way everywhere),
`ExplainedIsEnforced`, `LookupIsTwin` (`HiddenLooksAbsent`), `ChecksSound`
(`MergeCheckSound`). `AdoptInv` says of an adoption under way that its tip is
verified and above the pin that it read; `CheckInv` that the rules that a check
has read are derived as "protected" and that its hooks ask for numbers.

**CollabProofs**, for any nodes, keys, tasks, sessions and relays:

* `ServedAsSigned`: `Spec => []ServedIsGenuine`. The invariant `GInv`: a tag
  whose name says whose word it holds, holds an object of that key and kind,
  which, if it verifies, was signed by that key (`Pinned`); a publication in
  progress is of an object its command has signed (`Published`); so are the
  objects of a pull that verify (`Pulling`). Starting tags are only assumed to
  fit their names (`Named`); published ones may hold objects that do not verify,
  tracked ones verify, since only a pull files them.
* `PublishedGoesUp`: `Spec => PublishedAdvances`, assuming that all tasks belong
  to one process (`SolePublisher`), which is the reach of `publish_lock`. The
  invariant `LockHeld`: at most one publication is between check and write, and
  what it checked is still above what is published.

### Only model-checked

* Liveness (`CallsReturn`, `JournalsDrain`, `SearchEnds`, `SessionsEnd`):
  fairness is out of the prover's reach.
* `GlobIsSegmentwise` and `LabelIsLeastBound`: inductions over patterns and over
  sequences of rules, which the provers cannot do.
* `DiscoveryGrounded` and `SearchFindsAll`: inductions over the levels of a
  breadth-first search.
* The command line: `Workspace` and `GitBridge` walk trees and histories with
  RECURSIVE operators, which the prover does not handle; `ValueKept`,
  `RegistryFaithful`, `RetiredUnreferenced` and `OthersUntouched` are not
  attempted.

## 5. What is not modelled, and the plan

Not modelled at all: encodings (postcard, zstd, pack framing, HTTP, message
framing, git's formats), hashing and cryptography (ids and signatures are
opaque), key management services, the in-memory backends (they have no
intermediate states on disk), power loss that undoes completed writes, argument
parsing and output.

Left out of parts that are modelled: the commands on actors, hooks and
approvers are one step each in Governance, though they rewrite a file without a
lock as those in Secrets do; workspace commands run one at a time; values that
are not UTF-8, dry runs of rekey and a registry read while it is being rewritten;
tags in sync adverts; nested trees, submodules and merges in git.

Theorems worth proving next: the lattice laws behind `LabelIsLeastBound`,
`DiscoveryGrounded` for the follow neighbourhood, and the registries of Secrets.
