----------------------------- MODULE GitBridge -----------------------------
(***************************************************************************)
(* Import from and projection to a git repository (repo/git_import.rs,     *)
(* repo/git_projection.rs, bole-cli commands/git.rs).  An object is its    *)
(* own id on both sides: a blob, a tree (the files in it), a git commit    *)
(* and a bole snapshot, which embed their tree and their parents.  Author, *)
(* date and message (meta) change in either translation, so that a commit  *)
(* that is projected and imported comes back as another snapshot unless    *)
(* the identity map, kept in a sidecar file, knows it.                     *)
(*                                                                         *)
(* One import or export runs at a time and may stop between any two steps  *)
(* (one put, one ref, one file; an export writes its git objects, which    *)
(* nothing refers to yet, in one step), while others push to git, commit,  *)
(* delete timelines and collect garbage.  RefStore has the steps in which  *)
(* one ref is written.                                                     *)
(***************************************************************************)
EXTENDS Naturals, Sequences, FiniteSets, SequencesExt, TLC

CONSTANTS
    GitRefs,     \* the git refs <<"heads" or "tags", short name>>, in git's order
    Sanitized,   \* [short name -> bole name, or NoName if nothing is left of it]
    NoName,
    FileSets,    \* the contents that commits pushed to git may have
    NativeFiles, \* and that snapshots committed to bole have
    RuleFiles,   \* the files that the --label-ruleset of an import protects
    Native,      \* the timelines that others commit to
    Options,     \* the options of imports: [only, policy, force, dry, rules]
    Exports,     \* and of exports: [mapped, cleared]
    MaxGit, MaxNative, MaxRuns, MaxStops, MaxGcs,
    MaxOutside   \* bound on all that is no step of a run together

VARIABLES
    git,         \* git ref -> commit, for the refs there are
    gitCommits,  \* the commits in the git repository
    objs,        \* the bole object store
    names,       \* bole name -> [kind, at, policy], for the refs there are
    sidecar,     \* the identity map on disk: git object -> bole object
    protected,   \* files with a path ACL
    run,         \* the import or export in progress
    shown,       \* history: bole name -> the git commit it was last imported from and
                 \* the snapshot that a mapped export had made it from, if any (a set)
    projected,   \* history: commit -> snapshot, of the mapped exports that ended
    mapLost,     \* history: gc has removed an object that the identity map names
    count        \* how often each bounded action was taken

gvars == <<git, gitCommits, objs, names, sidecar, protected, run, shown, projected, mapLost, count>>

GitName == ToSet(GitRefs)
Short(r) == r[2]
NoEntry == [x \in {} |-> x]
NoRun == [pc |-> "idle"]
Entry(map, k, x) == [j \in DOMAIN map \cup {k} |-> IF j = k THEN x ELSE map[j]]
NoneOf(map, ks) == [j \in DOMAIN map \ ks |-> map[j]]
Counted(what, bound) ==
    /\ count[what] < bound
    /\ what # "runs" => count.git + count.native + count.stops + count.gcs < MaxOutside
    /\ count' = [count EXCEPT ![what] = @ + 1]

-----------------------------------------------------------------------------
(* Objects.  x[1] is the kind; of a commit or snapshot, x[2] is the meta,   *)
(* x[3] the tree and x[4] the parents.                                      *)
Blobs(files) == {<<"blob", f>> : f \in files}
TreeObject(files) == <<"tree", files>>
GitCommit(meta, files, parents) == <<"commit", meta, TreeObject(files), parents>>
Snapshot(meta, tree, parents) == <<"snapshot", meta, tree, parents>>
Files(x) == x[3][2]

RECURSIVE History(_)
History(x) == {x} \cup UNION {History(p) : p \in x[4]}
Contents(x) == {x, x[3]} \cup Blobs(Files(x))
AllObjects(x) == UNION {Contents(y) : y \in History(x)}

\* collect_topo and the ancestor search do not walk past a snapshot that is missing.
RECURSIVE Walked(_)
Walked(s) == IF s \in objs THEN {s} \cup UNION {Walked(p) : p \in s[4]} ELSE {}

-----------------------------------------------------------------------------
(* Import.  topo_commits visits all the history of the heads; a commit, a   *)
(* tree or a blob that the map knows is not looked into.                    *)
Untranslated(heads, map) ==
    LET cs == (UNION {History(h) : h \in heads}) \ DOMAIN map
        ts == {c[3] : c \in cs} \ DOMAIN map
    IN cs \cup ts \cup ((UNION {Blobs(t[2]) : t \in ts}) \ DOMAIN map)

Embedded(o) ==
    CASE o[1] = "blob" -> {}
      [] o[1] = "tree" -> Blobs(o[2])
      [] o[1] = "commit" -> {o[3]} \cup o[4]

\* Blobs are copied verbatim, trees entry by entry; the author, the date and
\* the message of a commit are rewritten.
Translation(o, map) ==
    IF o[1] = "commit"
      THEN Snapshot(<<"imported">> \o o[2], map[o[3]], {map[p] : p \in o[4]})
      ELSE o

\* The refs that an import reads at its start: the selected branches, all tags.
Collected(o) ==
    SelectSeq(GitRefs, LAMBDA r : r \in DOMAIN git /\ (r[1] = "tags" \/ Short(r) \in o.only))

ImportBegin(o) ==
    /\ run.pc = "idle"
    /\ Counted("runs", MaxRuns)
    /\ run' = [pc |-> "translate", map |-> sidecar, refs |-> git, todo |-> Collected(o),
               done |-> {}, put |-> {}, opts |-> o]
    /\ UNCHANGED <<git, gitCommits, objs, names, sidecar, protected, shown, projected, mapLost>>

Heads == {run.refs[r] : r \in {x \in ToSet(run.todo) : x[1] = "heads"}}

\* translate_blob, translate_tree, translate_commit: one put, in an order in
\* which what an object embeds comes first.  An object that is already in the
\* store is not written again and keeps its age.
Translate ==
    /\ run.pc = "translate"
    /\ LET rest == Untranslated(Heads, run.map)
           o == CHOOSE x \in rest : Embedded(x) \subseteq DOMAIN run.map
           new == Translation(o, run.map)
       IN IF rest = {} THEN run' = [run EXCEPT !.pc = "refs"] /\ objs' = objs
          ELSE /\ run' = [run EXCEPT !.map = Entry(@, o, new),
                           !.put = IF run.opts.dry THEN @ ELSE @ \cup ({new} \ objs)]
               /\ objs' = IF run.opts.dry THEN objs ELSE objs \cup {new}
    /\ UNCHANGED <<git, gitCommits, names, sidecar, protected, shown, projected, mapLost, count>>

-----------------------------------------------------------------------------
(* Passes 7 to 10: branches, tags, label rules, identity map.               *)
TimelineAt(s, policy) == [kind |-> "timeline", at |-> s, policy |-> policy]
TagAt(s) == [kind |-> "tag", at |-> s]
Kind(n) == IF n \in DOMAIN names THEN names[n].kind ELSE "none"
\* find_common_ancestor(head, new) == Some(head), on histories without merges.
FastForwards(n, new) == names[n].at \in {new} \cup UNION {s[4] : s \in Walked(new)}

\* sanitized_ref: nothing left, or two git names become one.
BadName(r) ==
    \/ Sanitized[Short(r)] = NoName
    \/ \E q \in run.done : Short(q) # Short(r) /\ Sanitized[Short(q)] = Sanitized[Short(r)]

MayAdvance(n, new) ==
    run.opts.force \/ names[n].policy = "unrestricted" \/ FastForwards(n, new)

\* The branch next to import, the name it gets and the snapshot it becomes;
\* "untranslated branch head" cannot occur.
Branch == Head(run.todo)
BranchName == Sanitized[Short(Branch)]
BranchHead == run.map[run.refs[Branch]]
AtBranch(pc) == run.pc = pc /\ ~run.opts.dry /\ run.todo # <<>> /\ Branch[1] = "heads"

\* get_timeline and the ancestor check, on the head of the moment; a timeline
\* that is there already is not written.
CheckBranch ==
    /\ AtBranch("refs")
    /\ ~BadName(Branch)
    /\ \/ Kind(BranchName) = "none" /\ run' = [run EXCEPT !.pc = "create"]
       \/ /\ Kind(BranchName) = "timeline" /\ MayAdvance(BranchName, BranchHead)
          /\ names[BranchName].at # BranchHead
          /\ run' = [run EXCEPT !.pc = "advance"]
    /\ UNCHANGED <<git, gitCommits, objs, names, sidecar, protected, shown, projected, mapLost, count>>

\* The branch is imported: on with the next ref.
Imported ==
    /\ shown' = Entry(shown, BranchName,
                  [commit |-> run.refs[Branch],
                   from |-> {projected[c] : c \in {run.refs[Branch]} \cap DOMAIN projected}])
    /\ run' = [run EXCEPT !.pc = "refs", !.todo = Tail(@), !.done = @ \cup {Branch}]
    /\ UNCHANGED <<git, gitCommits, objs, sidecar, protected, projected, mapLost, count>>

\* create_timeline and advance_head: a name that has appeared or gone since the
\* check is an error, a head that has moved since is overwritten.
ImportBranch ==
    \/ AtBranch("refs") /\ ~BadName(Branch) /\ Kind(BranchName) = "timeline"
         /\ names[BranchName].at = BranchHead /\ names' = names /\ Imported
    \/ AtBranch("create") /\ Kind(BranchName) = "none"
         /\ names' = Entry(names, BranchName, TimelineAt(BranchHead, run.opts.policy)) /\ Imported
    \/ AtBranch("advance") /\ Kind(BranchName) = "timeline"
         /\ names' = [names EXCEPT ![BranchName].at = BranchHead] /\ Imported

\* translate_tag: bole tags are not moved, and a tag of something that was
\* not imported is left out.
ImportTag ==
    /\ run.pc = "refs" /\ ~run.opts.dry /\ run.todo # <<>> /\ Head(run.todo)[1] = "tags"
    /\ LET r == Head(run.todo)
           n == Sanitized[Short(r)]
           known == run.refs[r] \in DOMAIN run.map
       IN /\ ~BadName(r)
          /\ known => Kind(n) # "timeline"
          /\ names' = IF known /\ Kind(n) = "none"
                        THEN Entry(names, n, TagAt(run.map[run.refs[r]]))
                        ELSE names
          /\ run' = [run EXCEPT !.todo = Tail(@), !.done = @ \cup {r}]
    /\ UNCHANGED <<git, gitCommits, objs, sidecar, protected, shown, projected, mapLost, count>>

\* The errors: what was done so far stays, and the sidecar is not written.
ImportRefused ==
    /\ run.pc \in {"refs", "create", "advance"} /\ ~run.opts.dry /\ run.todo # <<>>
    /\ LET r == Head(run.todo)
           n == Sanitized[Short(r)]
           known == run.refs[r] \in DOMAIN run.map
       IN \/ BadName(r)
          \/ r[1] = "heads" /\ Kind(n) = "tag"
          \/ AtBranch("refs") /\ Kind(n) = "timeline" /\ ~MayAdvance(n, BranchHead)
          \/ AtBranch("create") /\ Kind(n) # "none"
          \/ AtBranch("advance") /\ Kind(n) # "timeline"
          \/ r[1] = "tags" /\ known /\ Kind(n) = "timeline"
    /\ run' = NoRun
    /\ UNCHANGED <<git, gitCommits, objs, names, sidecar, protected, shown, projected, mapLost, count>>

SaveAlways(r) == TRUE
\* A dry run writes nothing and does not persist the sidecar.
SavesMap(r) == ~r.opts.dry

ImportEnd ==
    /\ run.pc = "refs" /\ (run.opts.dry \/ run.todo = <<>>)
    /\ protected' = IF run.opts.rules /\ ~run.opts.dry THEN protected \cup RuleFiles ELSE protected
    /\ sidecar' = IF SavesMap(run) THEN run.map ELSE sidecar
    /\ run' = NoRun
    /\ UNCHANGED <<git, gitCommits, objs, names, shown, projected, mapLost, count>>

-----------------------------------------------------------------------------
(* Projection.  What the actor cannot read and what is not in the store is  *)
(* left out silently: files, trees, snapshots, and parents that are not     *)
(* projected.                                                               *)
WrittenFiles(s, cleared) ==
    {f \in Files(s) : /\ s[3] \in objs /\ <<"blob", f>> \in objs
                      /\ cleared \/ f \notin protected}

RECURSIVE Projection(_, _)
Projection(s, cleared) ==
    GitCommit(<<"projected">> \o s[2], WrittenFiles(s, cleared),
              {Projection(p, cleared) : p \in s[4] \cap objs})

At(kind) == {n \in DOMAIN names : names[n].kind = kind}

\* The refs an export writes, branches first, under their bole names.
RefsNamed(kind, ns) == SelectSeq(GitRefs, LAMBDA r : r[1] = kind /\ Short(r) \in ns)

\* project_impl, passes 1 and 2: the names, and the heads of the timelines.
ExportBegin(e) ==
    /\ run.pc = "idle"
    /\ Counted("runs", MaxRuns)
    /\ run' = [pc |-> "objects", opts |-> e,
               heads |-> [n \in At("timeline") |-> names[n].at],
               todo |-> RefsNamed("heads", At("timeline")) \o RefsNamed("tags", At("tag"))]
    /\ UNCHANGED <<git, gitCommits, objs, names, sidecar, protected, shown, projected, mapLost>>

\* Pass 3: blobs, trees and commits, and which commit each snapshot became.
ExportObjects ==
    /\ run.pc = "objects"
    /\ LET ids == [s \in UNION {Walked(h) : h \in Range(run.heads)} |-> Projection(s, run.opts.cleared)]
       IN /\ gitCommits' = gitCommits \cup Range(ids)
          /\ run' = [pc |-> "export", opts |-> run.opts, heads |-> run.heads, todo |-> run.todo, ids |-> ids]
    /\ UNCHANGED <<git, objs, names, sidecar, protected, shown, projected, mapLost, count>>

\* Passes 4 and 5, one ref: a branch goes where its timeline was, a tag is read
\* again; what is not projected is passed over.
ExportRef ==
    /\ run.pc = "export" /\ run.todo # <<>>
    /\ LET r == Head(run.todo)
           n == Short(r)
           target == IF r[1] = "heads" THEN {run.heads[n]}
                     ELSE {names[m].at : m \in {n} \cap At("tag")}
       IN git' = IF target \cap DOMAIN run.ids = {} THEN git
                 ELSE Entry(git, r, run.ids[CHOOSE s \in target : TRUE])
    /\ run' = [run EXCEPT !.todo = Tail(@)]
    /\ UNCHANGED <<gitCommits, objs, names, sidecar, protected, shown, projected, mapLost, count>>

\* Pass 7, in project_to_git_mapped: the sidecar is read, extended and written
\* last; of two snapshots that became one commit, either may be kept.
ExportMap ==
    /\ run.pc = "export" /\ run.todo = <<>>
    /\ IF run.opts.mapped
       THEN \E back \in [Range(run.ids) -> DOMAIN run.ids] :
              /\ \A c \in DOMAIN back : run.ids[back[c]] = c
              /\ sidecar' = back @@ sidecar
              /\ projected' = back @@ projected
       ELSE UNCHANGED <<sidecar, projected>>
    /\ run' = NoRun
    /\ UNCHANGED <<git, gitCommits, objs, names, protected, shown, mapLost, count>>

\* The process is killed, or a read or a write fails.
Stop ==
    /\ run.pc # "idle"
    /\ Counted("stops", MaxStops)
    /\ run' = NoRun
    /\ UNCHANGED <<git, gitCommits, objs, names, sidecar, protected, shown, projected, mapLost>>

-----------------------------------------------------------------------------
(* What others do.                                                          *)
GitMoves(r, c) ==
    /\ Counted("git", MaxGit)
    /\ git' = Entry(git, r, c)
    /\ gitCommits' = gitCommits \cup {c}
    /\ UNCHANGED <<objs, names, sidecar, protected, run, shown, projected, mapLost>>

\* A push, a forced push to an older or other commit, a new tag.
GitChanges ==
    \/ \E r \in GitName, fs \in FileSets :
         /\ r[1] = "heads"
         /\ GitMoves(r, GitCommit(<<"git", count.git>>, fs, IF r \in DOMAIN git THEN {git[r]} ELSE {}))
    \/ \E r \in GitName, c \in gitCommits :
         /\ r \in DOMAIN git => git[r] # c
         /\ GitMoves(r, c)

Importing == run.pc \in {"translate", "refs", "create", "advance"}
RefReach(refs) == UNION {AllObjects(refs[n].at) : n \in DOMAIN refs}

NativeCommit(n) ==
    LET old == IF n \in DOMAIN names THEN {names[n].at} ELSE {}
        new == Snapshot(<<"native", count.native>>, TreeObject(NativeFiles), old)
    IN /\ Kind(n) # "tag" /\ old \subseteq objs
       /\ Counted("native", MaxNative)
       /\ names' = Entry(names, n, IF old = {} THEN TimelineAt(new, "unrestricted")
                                   ELSE [names[n] EXCEPT !.at = new])
       /\ objs' = objs \cup Contents(new)
       /\ shown' = NoneOf(shown, {n})
       /\ UNCHANGED <<git, gitCommits, sidecar, protected, run, projected, mapLost>>

\* A timeline is pruned or a tag deleted; then garbage is collected.  What
\* the running import has written is within grace; what it found is not.
DeleteAndCollect(n) ==
    LET left == NoneOf(names, {n})
        kept == RefReach(left) \cup (IF Importing THEN run.put ELSE {})
        mapped == Range(sidecar) \cup (IF Importing THEN Range(run.map)
                                       ELSE IF run.pc = "export" THEN DOMAIN run.ids ELSE {})
    IN /\ Counted("gcs", MaxGcs)
       /\ names' = left
       /\ objs' = objs \cap kept
       /\ shown' = NoneOf(shown, {n})
       /\ mapLost' = (mapLost \/ ~((mapped \cap objs) \subseteq kept))
       /\ UNCHANGED <<git, gitCommits, sidecar, protected, run, projected>>

-----------------------------------------------------------------------------
GInit ==
    /\ git = NoEntry /\ gitCommits = {} /\ objs = {} /\ names = NoEntry
    /\ sidecar = NoEntry /\ protected = {} /\ run = NoRun
    /\ shown = NoEntry /\ projected = NoEntry /\ mapLost = FALSE
    /\ count = [git |-> 0, native |-> 0, runs |-> 0, stops |-> 0, gcs |-> 0]

GNext ==
    \/ \E o \in Options : ImportBegin(o)
    \/ Translate \/ CheckBranch \/ ImportBranch \/ ImportTag \/ ImportRefused \/ ImportEnd
    \/ \E e \in Exports : ExportBegin(e)
    \/ ExportObjects \/ ExportRef \/ ExportMap \/ Stop \/ GitChanges
    \/ \E n \in Native : NativeCommit(n)
    \/ \E n \in DOMAIN names \cup {NoName} : DeleteAndCollect(n)

GSpec == GInit /\ [][GNext]_gvars

-----------------------------------------------------------------------------
RECURSIVE Tells(_, _)
\* The snapshot s tells what the commit c tells: the same history, and the
\* same files but for protected ones, which a projection may have hidden.
Tells(s, c) ==
    /\ Files(c) \subseteq Files(s) /\ Files(s) \ Files(c) \subseteq RuleFiles
    /\ \A p \in c[4] : \E q \in s[4] : Tells(q, p)
    /\ \A q \in s[4] : \E p \in c[4] : Tells(q, p)

(* Incremental import is safe ("no corruption can occur", section 4.4 of    *)
(* the import design).  Whatever imports, dry runs and exports came before, *)
(* wherever they stopped, and however branches were pushed or reset: an     *)
(* imported timeline can be checked out, tells the history of the branch it *)
(* was imported from, and, if a mapped export had recorded that commit      *)
(* before the import, is the very snapshot that was exported.  (One that is *)
(* recorded only after a translation was imported keeps the translation.)   *)
(* Up to a collection that removes an object the identity map names: the    *)
(* map is no root of gc, and a later import skips what it names without     *)
(* asking whether it is still stored.                                       *)
ImportFaithful ==
    ~mapLost => \A n \in DOMAIN shown :
        /\ AllObjects(names[n].at) \subseteq objs
        /\ Tells(names[n].at, shown[n].commit)
        /\ \A s \in shown[n].from : names[n].at = s
=============================================================================
