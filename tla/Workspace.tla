----------------------------- MODULE Workspace -----------------------------
(***************************************************************************)
(* Working trees and snapshots (repo/ephemeral.rs, repo/materialize.rs,    *)
(* bole-cli commands/snapshot.rs and commands/workspace.rs).  A path is a  *)
(* sequence of names; a tree maps names to blobs or trees and, like every  *)
(* object, is its own id.  A workspace is in memory, with a base snapshot  *)
(* of its own, or a directory on disk, bound to a timeline whose head of   *)
(* the moment is the base.  Commands run one at a time.                    *)
(***************************************************************************)
EXTENDS Naturals, Sequences, FiniteSets, SequencesExt

CONSTANTS
    Path,      \* the file paths in use
    Blob,      \* file contents
    Ignored,   \* what a disk walk leaves out: .bole, symlinks, .boleignore matches
    Ram,       \* in-memory workspaces
    Disk,      \* work directories
    Line,      \* timeline names
    MaxEdits,  \* bound: files written or removed
    MaxCommits \* bound: snapshots made

VARIABLES
    files,   \* [workspace -> [path -> content]]
    folders, \* [directory on disk -> the paths that are directories in it]
    base,    \* [in-memory workspace -> its base, a set of at most one snapshot]
    onLine,  \* [directory -> the timeline it is bound to, a set of at most one]
    head,    \* [timeline -> its head, a set of at most one snapshot]
    snaps,   \* the snapshots stored
    made,    \* history: the last commit, [files, shown, snap], as a set
    opened,  \* history: the last snapshot materialised whole, [ws, snap], as a set
    edits,
    commits

fvars == <<files, folders, base, onLine, head, snaps, made, opened, edits, commits>>

NoFiles == [p \in {} |-> p]
With1(fs, p, b) == [q \in DOMAIN fs \cup {p} |-> IF q = p THEN b ELSE fs[q]]
Without(fs, p) == [q \in DOMAIN fs \ {p} |-> fs[q]]

-----------------------------------------------------------------------------
(* Trees.                                                                   *)

RECURSIVE BuildTree(_), WalkTree(_), BuildTreeFlat(_)

\* DirNode::insert: the files of a directory, its subdirectories, and what is
\* below one of them.
FilesOf(fs) == {p[1] : p \in {q \in DOMAIN fs : Len(q) = 1}}
DirsOf(fs) == {p[1] : p \in {q \in DOMAIN fs : Len(q) > 1}}
Below(fs, n) ==
    [q \in {Tail(p) : p \in {r \in DOMAIN fs : Len(r) > 1 /\ r[1] = n}} |-> fs[<<n>> \o q]]

\* A slip in which a directory with subdirectories loses its own files.
BuildTreeFlat(fs) ==
    IF DirsOf(fs) = {} THEN [n \in FilesOf(fs) |-> [blob |-> fs[<<n>>]]]
    ELSE [n \in DirsOf(fs) |-> [tree |-> BuildTreeFlat(Below(fs, n))]]

\* build_tree and store_dir: files first, then directories, so a name that is
\* both ends up as the directory.
BuildTree(fs) ==
    [n \in FilesOf(fs) \cup DirsOf(fs) |->
        IF n \in DirsOf(fs) THEN [tree |-> BuildTree(Below(fs, n))]
        ELSE [blob |-> fs[<<n>>]]]

\* walk_tree: the flat map of a tree.
WalkTree(t) ==
    LET sub == [n \in {m \in DOMAIN t : "tree" \in DOMAIN t[m]} |-> WalkTree(t[n].tree)]
        own == DOMAIN t \ DOMAIN sub
    IN  [p \in {<<n>> : n \in own} \cup
               UNION {{<<n>> \o q : q \in DOMAIN sub[n]} : n \in DOMAIN sub} |->
            IF Len(p) = 1 THEN t[p[1]].blob ELSE sub[p[1]][Tail(p)]]

\* snapshot_paths.
SnapshotPaths(s) == WalkTree(s.root)

\* diff_paths.
DiffPaths(from, to) ==
    [added    |-> DOMAIN to \ DOMAIN from,
     removed  |-> DOMAIN from \ DOMAIN to,
     modified |-> {p \in DOMAIN from \cap DOMAIN to : from[p] # to[p]}]

-----------------------------------------------------------------------------
\* DiskWorkspace::collect walks the directory and leaves out what is ignored;
\* EphemeralWorkspace::current_paths takes every file.
Collect(w) ==
    IF w \in Ram THEN files[w]
    ELSE [p \in DOMAIN files[w] \ Ignored |-> files[w][p]]

\* The snapshot a workspace is compared with and committed over.
BaseSnapshot(w) == IF w \in Ram THEN base[w] ELSE UNION {head[t] : t \in onLine[w]}

\* The files of an optional base.
BasePaths(from) == IF from = {} THEN NoFiles ELSE SnapshotPaths(CHOOSE s \in from : TRUE)

\* Workspace::diff; `workspace show' and `workspace diff' print it.
Diff(w) == DiffPaths(BasePaths(BaseSnapshot(w)), Collect(w))

\* snapshot diff, from a snapshot's parent.
SnapshotDiff(s) == DiffPaths(BasePaths(s.parents), SnapshotPaths(s))

\* A path is a file or a directory, never both.
Fits(fs, p) == \A q \in DOMAIN fs : q # p => ~IsPrefix(q, p) /\ ~IsPrefix(p, q)

\* The directories above the paths, which create_dir_all makes; and whether a
\* file can be written: a directory stays in the way also when it is empty.
Above(ps) == UNION {{SubSeq(p, 1, k) : k \in 1..(Len(p) - 1)} : p \in ps}
HasRoom(w, p) == Fits(files[w], p) /\ p \notin folders[w]

Edit(w) ==
    /\ edits < MaxEdits
    /\ edits' = edits + 1
    /\ opened' = {o \in opened : o.ws # w}
    /\ UNCHANGED <<base, onLine, head, snaps, made, commits>>

\* Workspace::write, or the user's editor; on disk an error where a file or a
\* directory is in the way.
WriteFile(w, p, b) ==
    /\ Edit(w)
    /\ w \in Disk => HasRoom(w, p)
    /\ files' = [files EXCEPT ![w] = With1(@, p, b)]
    /\ folders' = [d \in Disk |-> IF d = w THEN folders[d] \cup Above({p}) ELSE folders[d]]

\* Workspace::remove, or the user's: the file alone.
RemoveFile(w, p) ==
    /\ Edit(w)
    /\ p \in DOMAIN files[w]
    /\ files' = [files EXCEPT ![w] = Without(@, p)]
    /\ UNCHANGED folders

\* The user removes a directory and what is in it.
RemoveFolder(w, d) ==
    /\ Edit(w)
    /\ d \in folders[w]
    /\ files' = [files EXCEPT ![w] = [p \in {q \in DOMAIN @ : ~IsPrefix(d, q)} |-> @[p]]]
    /\ folders' = [folders EXCEPT ![w] = {e \in @ : ~IsPrefix(d, e)}]

\* The snapshot a commit stores: the base is its only parent.
PutSnapshot(w) == [root |-> BuildTree(Collect(w)), parents |-> BaseSnapshot(w)]

Store(w) ==
    /\ commits < MaxCommits
    /\ commits' = commits + 1
    /\ snaps' = snaps \cup {PutSnapshot(w)}
    /\ made' = {[files |-> Collect(w), shown |-> Diff(w), snap |-> PutSnapshot(w)]}
    /\ UNCHANGED <<files, folders, onLine, opened, edits>>

\* EphemeralWorkspace::commit: the new snapshot becomes the base.
Commit(w) ==
    /\ w \in Ram
    /\ Store(w)
    /\ base' = [base EXCEPT ![w] = {PutSnapshot(w)}]
    /\ UNCHANGED head

\* snapshot create: the bound timeline, if any, is advanced unless --no-advance.
SnapshotCreate(w, noAdvance) ==
    /\ w \in Disk
    /\ Store(w)
    /\ head' = [t \in Line |->
                  IF t \in onLine[w] /\ ~noAdvance THEN {PutSnapshot(w)} ELSE head[t]]
    /\ UNCHANGED base

\* EphemeralWorkspace::from_snapshot.
FromSnapshot(w, s) ==
    /\ w \in Ram
    /\ files' = [files EXCEPT ![w] = SnapshotPaths(s)]
    /\ base' = [base EXCEPT ![w] = {s}]
    /\ opened' = {[ws |-> w, snap |-> s]}
    /\ UNCHANGED <<folders, onLine, head, snaps, made, edits, commits>>

\* materialize and write_tree: every file of the snapshot is written, none is
\* deleted.
Materialized(fs, new) ==
    [p \in DOMAIN fs \cup DOMAIN new |-> IF p \in DOMAIN new THEN new[p] ELSE fs[p]]

\* workspace materialize: a snapshot into any directory, the binding unchanged.
Materialize(w, s) ==
    LET new == SnapshotPaths(s)
    IN  /\ \A p \in DOMAIN new : HasRoom(w, p)
        /\ files' = [files EXCEPT ![w] = Materialized(@, new)]
        /\ folders' = [folders EXCEPT ![w] = @ \cup Above(DOMAIN new)]
        /\ opened' = {[ws |-> w, snap |-> s]}

\* The same stopped part-way, by a file where a directory is needed (or the
\* reverse) or by a kill.
MaterializePart(w, s) ==
    LET new == SnapshotPaths(s)
    IN  /\ \E part \in SUBSET {p \in DOMAIN new : HasRoom(w, p)} :
          \E fs \in SUBSET Above({p \in DOMAIN new : HasRoom(w, p)}) :
              /\ Above(part) \subseteq fs
              /\ files' = [files EXCEPT ![w] = Materialized(@, [p \in part |-> new[p]])]
              /\ folders' = [folders EXCEPT ![w] = @ \cup fs]
        /\ opened' = {o \in opened : o.ws # w}

WorkspaceMaterialize(w, s) ==
    /\ w \in Disk
    /\ Materialize(w, s) \/ MaterializePart(w, s)
    /\ UNCHANGED <<base, onLine, head, snaps, made, edits, commits>>

\* workspace open, with --create --from the snapshots in `from' : the timeline is
\* created first, then its head is materialised, then the directory is bound.
WorkspaceOpen(w, t, from) ==
    LET at == IF from = {} THEN head[t] ELSE from
    IN  /\ w \in Disk
        /\ from # {} => head[t] = {}
        /\ head' = [head EXCEPT ![t] = at]
        /\ \E s \in at :
             \/ Materialize(w, s) /\ onLine' = [onLine EXCEPT ![w] = {t}]
             \/ MaterializePart(w, s) /\ UNCHANGED onLine
        /\ UNCHANGED <<base, snaps, made, edits, commits>>

\* workspace clear.
WorkspaceClear(w) ==
    /\ onLine[w] # {}
    /\ onLine' = [onLine EXCEPT ![w] = {}]
    /\ UNCHANGED <<files, folders, base, head, snaps, made, opened, edits, commits>>

FInit ==
    /\ files = [w \in Ram \cup Disk |-> NoFiles]
    /\ folders = [w \in Disk |-> {}]
    /\ base = [w \in Ram |-> {}]
    /\ onLine = [w \in Disk |-> {}]
    /\ head = [t \in Line |-> {}]
    /\ snaps = {} /\ made = {} /\ opened = {} /\ edits = 0 /\ commits = 0

FNext ==
    \/ \E w \in Ram \cup Disk, p \in Path, b \in Blob : WriteFile(w, p, b)
    \/ \E w \in Ram \cup Disk, p \in Path : RemoveFile(w, p)
    \/ \E w \in Disk : \E d \in folders[w] : RemoveFolder(w, d)
    \/ \E w \in Ram : Commit(w)
    \/ \E w \in Ram, s \in snaps : FromSnapshot(w, s)
    \/ \E w \in Disk, noAdvance \in BOOLEAN : SnapshotCreate(w, noAdvance)
    \/ \E w \in Disk, s \in snaps : WorkspaceMaterialize(w, s)
    \/ \E w \in Disk, t \in Line, from \in {{}} \cup {{s} : s \in snaps} : WorkspaceOpen(w, t, from)
    \/ \E w \in Disk : WorkspaceClear(w)

-----------------------------------------------------------------------------
\* No file path is a directory of another (always so on disk).
Unclashed(fs) == \A p \in DOMAIN fs : Fits(fs, p)

(* A snapshot holds exactly the files it was made from: walking its tree    *)
(* gives back, file for file, what the workspace had; `snapshot diff' from  *)
(* its parent reports what `workspace diff' showed before the commit; and a *)
(* workspace that was opened on a snapshot and not edited since differs     *)
(* from it by no changed file and no missing file but the ignored ones      *)
(* (build_tree, walk_tree, materialize, collect, diff_paths).  An in-memory *)
(* workspace accepts both a file and a file below it, and its commit drops  *)
(* the first; the commit of such a workspace is excluded.                   *)
SnapshotRoundTrip ==
    /\ \A m \in made : Unclashed(m.files) =>
          /\ SnapshotPaths(m.snap) = m.files
          /\ SnapshotDiff(m.snap) = m.shown
    /\ \A o \in opened :
          LET d == DiffPaths(SnapshotPaths(o.snap), Collect(o.ws))
          IN  /\ d.modified = {}
              /\ d.removed \subseteq IF o.ws \in Disk THEN Ignored ELSE {}
              /\ o.ws \in Ram => d.added = {}
=============================================================================
