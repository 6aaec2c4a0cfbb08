----------------------------- MODULE PackStore ------------------------------
(***************************************************************************)
(* The object store and its garbage collector: loose objects, immutable    *)
(* packs named by the digest of their content, repack, and mark-and-sweep  *)
(* from the refs (store/packed.rs, store/disk.rs, Repository::gc), with    *)
(* the writers that put objects and then move a ref, and crashes.          *)
(*                                                                         *)
(* A pack is the sequence of its frames: its file name is the digest of    *)
(* that sequence, so two packs have the same name exactly when they hold   *)
(* the same objects in the same order.                                     *)
(***************************************************************************)
EXTENDS Naturals, Sequences, FiniteSets, Walks

CONSTANTS
    Id,           \* object ids; numbers, because an index lists ids in order
    Child,        \* the objects each object names: tree entries, parents, ...
    PolicyChild,  \* the objects a policy root names: lattice, rules, parent
    Target,       \* the ids a ref may point at: snapshots, policy roots
    Content,      \* what storing a target puts: itself, its trees, blobs, rules
    RefName, Null,
    Process, Task, ProcessOf,
    Ops,          \* what each task does: "commit", "branch", "prune", "gc", "compact"
    Reuse,        \* whether a commit may contain an object already stored
    MaxOps, MaxFaults

ASSUME PackStoreAssumption ==
    /\ Id \subseteq Nat
    /\ Child \in [Id -> SUBSET Id] /\ PolicyChild \in [Id -> SUBSET Id]
    \* An id is the hash of a content that holds the ids it names: no cycles.
    /\ \A S \in (SUBSET Id) \ {{}} : \E x \in S : (Child[x] \cup PolicyChild[x]) \cap S = {}
    /\ Target \subseteq Id /\ Content \in [Target -> SUBSET Id]
    /\ Null \notin Id
    /\ ProcessOf \in [Task -> Process]
    /\ Ops \in [Task -> SUBSET {"commit", "branch", "prune", "gc", "compact"}]
    /\ Reuse \in BOOLEAN
    /\ MaxOps \in Nat /\ MaxFaults \in Nat

VARIABLES
    loose,      \* objects/: one file per object
    aged,       \* the loose files whose mtime is past the grace window
    packFiles,  \* packs/pack-<digest>.pack
    idxFiles,   \* packs/pack-<digest>.idx
    loaded,     \* each process's in-memory pack set
    heads,      \* the refs
    opened,     \* the processes that have the repository open
    pc,         \* where each task is, and its local variables:
    target,     \*   what a commit is storing,
    want,       \*   the objects it has still to put,
    names,      \*   the refs a collection has still to read,
    roots,      \*   the ids it has read,
    stale,      \*   the loose files past the window when it read the clock,
    keep,       \*   what it found reachable,
    frames,     \*   the pack being built,
    retire,     \*   the packs still to unlink,
    unpaired,   \*   the one unlinked whose index is still to go,
    drop,       \*   the loose files still to consider
    reused,     \* history: a repack wrote a pack of a name already in use
    ops, faults

disk == <<loose, aged, packFiles, idxFiles>>
mark == <<names, roots, stale, keep>>
pack == <<frames, retire, unpaired, drop>>
vars == <<disk, loaded, heads, opened, pc, target, want, mark, pack, reused, ops, faults>>

Members(q) == {q[i] : i \in DOMAIN q}
Pack == Seq(Id)

\* The sequences that have every member of S, once.
Orderings(S) ==
    {q \in UNION {[1 .. n -> S] : n \in 0 .. Cardinality(S)} : Members(q) = S}

TypeOK ==
    /\ loose \subseteq Id /\ aged \subseteq loose
    /\ packFiles \subseteq Pack /\ idxFiles \subseteq Pack
    /\ loaded \in [Process -> SUBSET Pack]
    /\ heads \in [RefName -> Target \cup {Null}]
    /\ opened \subseteq Process
    /\ pc \in [Task -> {"idle", "commit", "roots", "list", "read", "pack", "idx",
                        "retire", "unloose", "sweep"}]
    /\ target \in [Task -> Target \cup {Null}]
    /\ want \in [Task -> SUBSET Id]
    /\ names \in [Task -> SUBSET RefName]
    /\ roots \in [Task -> SUBSET Target]
    /\ stale \in [Task -> SUBSET Id]
    /\ keep \in [Task -> SUBSET Id]
    /\ frames \in [Task -> Pack]
    /\ retire \in [Task -> SUBSET Pack] /\ unpaired \in [Task -> SUBSET Pack]
    /\ drop \in [Task -> SUBSET Id]
    /\ reused \in BOOLEAN
    /\ ops \in 0 .. MaxOps /\ faults \in 0 .. MaxFaults

Init ==
    /\ loose = {} /\ aged = {} /\ packFiles = {} /\ idxFiles = {}
    /\ loaded = [p \in Process |-> {}]
    /\ heads = [r \in RefName |-> Null]
    /\ opened = {}
    /\ pc = [t \in Task |-> "idle"]
    /\ target = [t \in Task |-> Null]
    /\ want = [t \in Task |-> {}]
    /\ names = [t \in Task |-> {}]
    /\ roots = [t \in Task |-> {}]
    /\ stale = [t \in Task |-> {}]
    /\ keep = [t \in Task |-> {}]
    /\ frames = [t \in Task |-> <<>>]
    /\ retire = [t \in Task |-> {}] /\ unpaired = [t \in Task |-> {}]
    /\ drop = [t \in Task |-> {}]
    /\ reused = FALSE /\ ops = 0 /\ faults = 0

\* load_packs: an index counts only with its pack beside it.
Visible == packFiles \cap idxFiles

\* What the disk holds for a process that opens the repository now.
OnDisk == loose \cup UNION {Members(q) : q \in Visible}

\* in_any_pack consults the indexes in memory, not the files.
InPack(t, x) == {q \in loaded[ProcessOf[t]] : x \in Members(q)}
Exists(t, x) == x \in loose \/ InPack(t, x) # {}

\* get: the loose file, or else the pack file behind a loaded index.  The
\* packs are probed in the order of their digests, which is any order; when
\* the pack probed has been unlinked get returns an I/O error.
Readable(t, x) == x \in loose \/ InPack(t, x) \cap packFiles # {}
ReadFails(t, x) == x \notin loose /\ ~(InPack(t, x) \subseteq packFiles)

Go(t, step) == pc' = [pc EXCEPT ![t] = step]

\* The tasks T end, and their local variables go with them.
End(T) ==
    LET Clear(f, v) == [t \in Task |-> IF t \in T THEN v ELSE f[t]]
    IN /\ pc' = Clear(pc, "idle")
       /\ target' = Clear(target, Null) /\ want' = Clear(want, {})
       /\ names' = Clear(names, {}) /\ roots' = Clear(roots, {})
       /\ stale' = Clear(stale, {}) /\ keep' = Clear(keep, {})
       /\ frames' = Clear(frames, <<>>) /\ retire' = Clear(retire, {})
       /\ unpaired' = Clear(unpaired, {}) /\ drop' = Clear(drop, {})

Begin(t, op) ==
    /\ op \in Ops[t] /\ ProcessOf[t] \in opened /\ pc[t] = "idle"
    /\ ops < MaxOps /\ ops' = ops + 1

-----------------------------------------------------------------------------
(* Opening, dying, failing, and the clock.                                 *)

Open(p) ==
    /\ p \notin opened
    /\ opened' = opened \cup {p}
    /\ loaded' = [loaded EXCEPT ![p] = Visible]
    /\ UNCHANGED <<disk, heads, pc, target, want, mark, pack, reused, ops, faults>>

Crash(p) ==
    /\ p \in opened /\ faults < MaxFaults
    /\ opened' = opened \ {p}
    /\ End({t \in Task : ProcessOf[t] = p})
    /\ faults' = faults + 1
    /\ UNCHANGED <<disk, loaded, heads, reused, ops>>

\* An error in writing the new pack or its index ends the repack there.
WriteFails(t) ==
    /\ pc[t] \in {"pack", "idx"} /\ faults < MaxFaults
    /\ End({t})
    /\ faults' = faults + 1
    /\ UNCHANGED <<disk, loaded, heads, opened, reused, ops>>

\* A loose file outlives the grace window.  The window is taken to be longer
\* than any commit: no running commit is one that stores the file.
Age(x) ==
    /\ x \in loose \ aged
    /\ \A t \in Task : pc[t] = "commit" => x \notin Content[target[t]]
    /\ aged' = aged \cup {x}
    /\ UNCHANGED <<loose, packFiles, idxFiles, loaded, heads, opened, pc, target, want,
                   mark, pack, reused, ops, faults>>

-----------------------------------------------------------------------------
(* Writers: the objects first, then the ref.                               *)

\* The parents of what is committed are the heads it was made from.
BeginCommit(t, x) ==
    /\ Begin(t, "commit")
    /\ Child[x] \cap Target \subseteq {heads[r] : r \in RefName}
    /\ Reuse \/ Content[x] \cap (OnDisk \cup {y \in Id : Exists(t, y)}) = {}
    /\ Go(t, "commit")
    /\ target' = [target EXCEPT ![t] = x]
    /\ want' = [want EXCEPT ![t] = Content[x]]
    /\ UNCHANGED <<disk, loaded, heads, opened, mark, pack, reused, faults>>

\* put: a no-op for an object that a loaded index or a loose file has.  A
\* file written now is within the window of every collection under way.
Put(t, x) ==
    /\ pc[t] = "commit" /\ x \in want[t]
    /\ want' = [want EXCEPT ![t] = @ \ {x}]
    /\ IF Exists(t, x)
       THEN UNCHANGED <<loose, stale>>
       ELSE loose' = loose \cup {x} /\ stale' = [s \in Task |-> stale[s] \ {x}]
    /\ UNCHANGED <<aged, packFiles, idxFiles, loaded, heads, opened, pc, target,
                   names, roots, keep, pack, reused, ops, faults>>

\* create_timeline, create_tag: no look at the object named.
CreateRef(t, r) ==
    /\ pc[t] = "commit" /\ want[t] = {}
    /\ heads[r] = Null
    /\ heads' = [heads EXCEPT ![r] = target[t]]
    /\ End({t})
    /\ UNCHANGED <<disk, loaded, opened, reused, ops, faults>>

\* advance_timeline on a fast-forward-only timeline: to a snapshot that can
\* be read, from its parent, by compare-and-swap.
AdvanceRef(t, r) ==
    /\ pc[t] = "commit" /\ want[t] = {}
    /\ Readable(t, target[t])
    /\ heads[r] \in Child[target[t]]
    /\ heads' = [heads EXCEPT ![r] = target[t]]
    /\ End({t})
    /\ UNCHANGED <<disk, loaded, opened, reused, ops, faults>>

\* A commit that finds every ref moved leaves its objects behind.
RefuseCommit(t) ==
    /\ pc[t] = "commit" /\ want[t] = {}
    /\ \A r \in RefName : heads[r] # Null
    /\ \/ ~Readable(t, target[t])
       \/ \A r \in RefName : heads[r] \notin Child[target[t]]
    /\ End({t})
    /\ UNCHANGED <<disk, loaded, heads, opened, reused, ops, faults>>

\* A new timeline at the head of another.
Branch(t, r, new) ==
    /\ Begin(t, "branch")
    /\ heads[r] # Null /\ heads[new] = Null
    /\ heads' = [heads EXCEPT ![new] = heads[r]]
    /\ UNCHANGED <<disk, loaded, opened, pc, target, want, mark, pack, reused, faults>>

\* delete_ref, of which prune_timeline is a caller.
Prune(t, r) ==
    /\ Begin(t, "prune")
    /\ heads[r] # Null
    /\ heads' = [heads EXCEPT ![r] = Null]
    /\ UNCHANGED <<disk, loaded, opened, pc, target, want, mark, pack, reused, faults>>

-----------------------------------------------------------------------------
(* Repository::gc: read the roots, mark, and sweep.                        *)

BeginGc(t) ==
    /\ Begin(t, "gc")
    /\ names' = [names EXCEPT ![t] = {r \in RefName : heads[r] # Null}]
    /\ roots' = [roots EXCEPT ![t] = {}]
    /\ stale' = [stale EXCEPT ![t] = aged]
    /\ Go(t, "roots")
    /\ UNCHANGED <<disk, loaded, heads, opened, target, want, keep, pack, reused, faults>>

\* The refs listed are read one at a time; one that has gone is skipped.
ReadRoot(t, r) ==
    /\ pc[t] = "roots" /\ r \in names[t]
    /\ names' = [names EXCEPT ![t] = @ \ {r}]
    /\ roots' = [roots EXCEPT ![t] = @ \cup ({heads[r]} \ {Null})]
    /\ UNCHANGED <<disk, loaded, heads, opened, pc, target, want, stale, keep, pack,
                   reused, ops, faults>>

\* Everything reached from a set of ids along the edges of the objects held.
Closure(edges, from, held) ==
    LET walk == Walk(Id, [x \in Id |-> IF x \in held THEN edges[x] ELSE {}])
    IN  UNION {walk[x] : x \in from}

\* mark_reachable: an object that is absent is a leaf, and so is a policy
\* root, whose edges (PolicyChild) only child_edges follows.
Mark(t) ==
    /\ pc[t] = "roots" /\ names[t] = {}
    /\ LET marked == Closure(Child, roots[t], {x \in Id : Readable(t, x)})
       IN /\ \A x \in marked : Readable(t, x) \/ ~ReadFails(t, x)
          /\ keep' = [keep EXCEPT ![t] = marked]
    /\ roots' = [roots EXCEPT ![t] = {}]
    /\ Go(t, "list")
    /\ UNCHANGED <<disk, loaded, heads, opened, target, want, names, stale, pack,
                   reused, ops, faults>>

\* A read of the mark fails, and gc with it: always when the pack behind a
\* loaded index is gone, and at any time for the file system's reasons.
MarkFails(t) ==
    /\ pc[t] = "roots" /\ names[t] = {} /\ roots[t] # {}
    /\ End({t})
    /\ UNCHANGED <<disk, loaded, heads, opened, reused, ops, faults>>

\* compact: a repack that keeps everything, and sweeps nothing.
BeginCompact(t) ==
    /\ Begin(t, "compact")
    /\ keep' = [keep EXCEPT ![t] = Id]
    /\ Go(t, "list")
    /\ UNCHANGED <<disk, loaded, heads, opened, target, want, names, roots, stale, pack,
                   reused, faults>>

-----------------------------------------------------------------------------
(* repack_keeping.                                                         *)

\* The ids of a pack set in the order its indexes list them: pack by pack
\* in the order of probing, and in each by id.
IndexOrders(packs, S) ==
    {q \in Orderings(S) : \E probe \in Orderings(packs) :
        LET first(x) == CHOOSE n \in DOMAIN probe :
                /\ x \in Members(probe[n])
                /\ \A m \in 1 .. n - 1 : x \notin Members(probe[m])
        IN \A i, j \in DOMAIN q : i < j =>
              first(q[i]) < first(q[j]) \/ (first(q[i]) = first(q[j]) /\ q[i] < q[j])}

\* Loose ids in the order of the directory, then those only packs hold.
List(t) ==
    /\ pc[t] = "list"
    /\ LET packs == loaded[ProcessOf[t]]
           packed == (UNION {Members(q) : q \in packs}) \ loose
       IN \E l \in Orderings(loose \cap keep[t]), q \in IndexOrders(packs, packed \cap keep[t]) :
              frames' = [frames EXCEPT ![t] = l \o q]
    /\ Go(t, "read")
    /\ UNCHANGED <<disk, loaded, heads, opened, target, want, mark, retire, unpaired, drop,
                   reused, ops, faults>>

\* The sequence q without the ids outside S.
Restricted(q, S) ==
    IF Members(q) \subseteq S THEN {q}
    ELSE {k \in Orderings(Members(q) \cap S) : \A i, j \in DOMAIN k : i < j =>
             \E m, n \in DOMAIN q : m < n /\ q[m] = k[i] /\ q[n] = k[j]}

\* Mutant: with nothing to keep, the old packs stay.
ReadRetiresNothing(t) ==
    /\ pc[t] = "read"
    /\ \A x \in Members(frames[t]) : Readable(t, x) \/ ~ReadFails(t, x)
    /\ \E kept \in Restricted(frames[t], {x \in Id : Readable(t, x)}) :
          /\ frames' = [frames EXCEPT ![t] = kept]
          /\ Go(t, IF kept = <<>> THEN "retire" ELSE "pack")
    /\ UNCHANGED <<disk, loaded, heads, opened, target, want, mark, retire, unpaired, drop,
                   reused, ops, faults>>

\* The listed objects are read; one that is no longer there is left out.
\* With nothing to keep, the packs are retired and no new one is written.
Read(t) ==
    /\ pc[t] = "read"
    /\ \A x \in Members(frames[t]) : Readable(t, x) \/ ~ReadFails(t, x)
    /\ \E kept \in Restricted(frames[t], {x \in Id : Readable(t, x)}) :
          /\ frames' = [frames EXCEPT ![t] = kept]
          /\ IF kept = <<>>
             THEN /\ retire' = [retire EXCEPT ![t] = loaded[ProcessOf[t]]]
                  /\ Go(t, "retire")
             ELSE UNCHANGED retire /\ Go(t, "pack")
    /\ UNCHANGED <<disk, loaded, heads, opened, target, want, mark, unpaired, drop, reused,
                   ops, faults>>

\* A read of the repack fails likewise, and ends it before it has written.
ReadError(t) ==
    /\ pc[t] = "read" /\ frames[t] # <<>>
    /\ End({t})
    /\ UNCHANGED <<disk, loaded, heads, opened, reused, ops, faults>>

\* The names of packs that some process has loaded or is about to unlink.
InUse == (UNION {loaded[p] : p \in opened}) \cup UNION {retire[t] \cup unpaired[t] : t \in Task}

\* The packs to retire are those loaded now; the new pack takes its name
\* from its content, which may be the name of one of them.
WritePack(t) ==
    /\ pc[t] = "pack"
    /\ retire' = [retire EXCEPT ![t] = loaded[ProcessOf[t]]]
    /\ packFiles' = packFiles \cup {frames[t]}
    /\ reused' = (reused \/ frames[t] \in InUse)
    /\ Go(t, "idx")
    /\ UNCHANGED <<loose, aged, idxFiles, loaded, heads, opened, target, want, mark,
                   frames, unpaired, drop, ops, faults>>

\* Mutant: the old packs go before the new index is in place.
WriteIdxLate(t) ==
    /\ pc[t] = "idx"
    /\ Go(t, "retire")
    /\ UNCHANGED <<disk, loaded, heads, opened, target, want, mark, pack, reused, ops, faults>>

WriteIdx(t) ==
    /\ pc[t] = "idx"
    /\ idxFiles' = idxFiles \cup {frames[t]}
    /\ Go(t, "retire")
    /\ UNCHANGED <<loose, aged, packFiles, loaded, heads, opened, target, want, mark,
                   pack, reused, ops, faults>>

\* Each retired pack is unlinked, and then its index.
UnlinkPack(t, q) ==
    /\ pc[t] = "retire" /\ q \in retire[t] /\ unpaired[t] = {}
    /\ packFiles' = packFiles \ {q}
    /\ retire' = [retire EXCEPT ![t] = @ \ {q}]
    /\ unpaired' = [unpaired EXCEPT ![t] = {q}]
    /\ UNCHANGED <<loose, aged, idxFiles, loaded, heads, opened, pc, target, want, mark,
                   frames, drop, reused, ops, faults>>

UnlinkIdx(t) ==
    /\ pc[t] = "retire" /\ unpaired[t] # {}
    /\ idxFiles' = idxFiles \ unpaired[t]
    /\ unpaired' = [unpaired EXCEPT ![t] = {}]
    /\ UNCHANGED <<loose, aged, packFiles, loaded, heads, opened, pc, target, want, mark,
                   frames, retire, drop, reused, ops, faults>>

\* Mutant: the pack set in memory is not refreshed.
ReloadNothing(t) ==
    /\ pc[t] = "retire" /\ retire[t] = {} /\ unpaired[t] = {}
    /\ drop' = [drop EXCEPT ![t] = Members(frames[t])]
    /\ frames' = [frames EXCEPT ![t] = <<>>]
    /\ Go(t, "unloose")
    /\ UNCHANGED <<disk, loaded, heads, opened, target, want, mark, retire, unpaired,
                   reused, ops, faults>>

\* reload_packs; the loose copies of what was packed go next.
Reload(t) ==
    /\ pc[t] = "retire" /\ retire[t] = {} /\ unpaired[t] = {}
    /\ loaded' = [loaded EXCEPT ![ProcessOf[t]] = Visible]
    /\ drop' = [drop EXCEPT ![t] = Members(frames[t])]
    /\ frames' = [frames EXCEPT ![t] = <<>>]
    /\ Go(t, "unloose")
    /\ UNCHANGED <<disk, heads, opened, target, want, mark, retire, unpaired,
                   reused, ops, faults>>

DeleteLoose(t, x) ==
    /\ pc[t] = "unloose" /\ x \in drop[t]
    /\ drop' = [drop EXCEPT ![t] = @ \ {x}]
    /\ loose' = loose \ {x} /\ aged' = aged \ {x}
    /\ UNCHANGED <<packFiles, idxFiles, loaded, heads, opened, pc, target, want, mark,
                   frames, retire, unpaired, reused, ops, faults>>

\* sweep lists the loose files again.
Repacked(t) ==
    /\ pc[t] = "unloose" /\ drop[t] = {}
    /\ drop' = [drop EXCEPT ![t] = loose \ keep[t]]
    /\ Go(t, "sweep")
    /\ UNCHANGED <<disk, loaded, heads, opened, target, want, mark, frames, retire,
                   unpaired, reused, ops, faults>>

\* Mutant: no grace window.
YoungNever(t, x) == FALSE

\* Within grace: the file is younger than the window.
Young(t, x) == x \in loose /\ x \notin stale[t]

SweepLoose(t, x) ==
    /\ pc[t] = "sweep" /\ x \in drop[t]
    /\ drop' = [drop EXCEPT ![t] = @ \ {x}]
    /\ IF Young(t, x)
       THEN UNCHANGED <<loose, aged>>
       ELSE loose' = loose \ {x} /\ aged' = aged \ {x}
    /\ UNCHANGED <<packFiles, idxFiles, loaded, heads, opened, pc, target, want, mark,
                   frames, retire, unpaired, reused, ops, faults>>

Swept(t) ==
    /\ pc[t] = "sweep" /\ drop[t] = {}
    /\ End({t})
    /\ UNCHANGED <<disk, loaded, heads, opened, reused, ops, faults>>

-----------------------------------------------------------------------------
Write(t) ==
    \/ \E x \in Target : BeginCommit(t, x)
    \/ \E x \in Id : Put(t, x)
    \/ \E r \in RefName : CreateRef(t, r) \/ AdvanceRef(t, r) \/ Prune(t, r)
    \/ \E r, new \in RefName : Branch(t, r, new)
    \/ RefuseCommit(t)

Collect(t) ==
    \/ BeginGc(t) \/ (\E r \in RefName : ReadRoot(t, r)) \/ Mark(t) \/ MarkFails(t)
    \/ \E x \in Id : SweepLoose(t, x)
    \/ Swept(t)

Repack(t) ==
    \/ BeginCompact(t) \/ List(t) \/ Read(t) \/ ReadError(t)
    \/ WritePack(t) \/ WriteIdx(t)
    \/ (\E q \in retire[t] : UnlinkPack(t, q)) \/ UnlinkIdx(t)
    \/ Reload(t) \/ (\E x \in Id : DeleteLoose(t, x)) \/ Repacked(t)

Next ==
    \/ \E t \in Task : Write(t) \/ Collect(t) \/ Repack(t) \/ WriteFails(t)
    \/ \E p \in Process : Open(p) \/ Crash(p)
    \/ \E x \in Id : Age(x)

Spec == Init /\ [][Next]_vars
-----------------------------------------------------------------------------
(* Properties.                                                             *)

\* What scan_object_health calls a sound ref: its closure, along every edge
\* that child_edges follows, is in the store.
Needed ==
    Closure([x \in Id |-> Child[x] \cup PolicyChild[x]],
            {heads[r] : r \in RefName} \ {Null}, Id)

\* "Never removes a reachable object" (Repository::gc), at every instant and
\* so after a crash at any instant: what a ref needs is on disk, loose or in
\* a pack with its index, for whoever opens the repository next.
HeadsIntact == Needed \subseteq OnDisk

\* HeadsIntact up to the first repack whose new pack has the name of a pack
\* still loaded or being retired: write_pack_atomic before remove_file, .pack before .idx and
\* reload before the loose deletes leave no instant without a copy.
RepackKeepsHeads == reused \/ HeadsIntact

\* A collection that runs to its end, alone, leaves nothing that is neither
\* reachable from the roots it read nor within grace, in either form,
\* whatever the one crash or failure of an earlier repack left behind.
\* (After two, an index left by the first may make visible a pack that the
\* second abandoned, which the process has not loaded: the next collection
\* finds it.)
GcCollects ==
    [][faults < 2 =>
         \A t \in Task : Swept(t) => OnDisk \subseteq keep[t] \cup (loose \ stale[t])]_vars

\* The loose copies go only when another copy can be found: an object that a
\* loaded index promises is in a pack file or loose, whenever no repack of
\* the process is between unlinking packs and reload_packs.
IndexesAreBacked ==
    reused \/ \A p \in opened :
        (\A t \in Task : ProcessOf[t] = p => pc[t] # "retire") =>
            \A q \in loaded[p] : q \in packFiles
-----------------------------------------------------------------------------
(* What the properties rest on beyond the code of the store.               *)

\* Storing a target puts it and all below it, down to the targets it names.
ContentStored ==
    \A x \in Target :
        /\ x \in Content[x]
        /\ \A y \in Content[x] : Child[y] \subseteq Content[x] \cup (Child[x] \cap Target)

\* Refs at snapshots: no edge that mark_reachable does not follow.
SnapshotsOnly == \A x \in Id : PolicyChild[x] = {}

\* One process works on the repository, one operation at a time.
Alone == \E t \in Task : Task = {t} /\ Process = {ProcessOf[t]}

\* One task collects, beside any number that commit new objects and branch.
OneCollector ==
    /\ ~Reuse
    /\ \A t \in Task : Ops[t] \subseteq {"commit", "branch", "gc"}
    /\ \A t, u \in Task : "gc" \in Ops[t] \cap Ops[u] => t = u
=============================================================================
